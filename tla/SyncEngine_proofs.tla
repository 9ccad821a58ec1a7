-------------------------- MODULE SyncEngine_proofs --------------------------
(***************************************************************************)
(* Proofs about SyncEngine, for every vault, environment and set of ids.   *)
(*                                                                         *)
(* Types, and that no two files claim one directory: neither is inductive  *)
(* alone.  Control says where each suspended handler came from and which   *)
(* ids its locals may hold; PathInv says which paths a re-key, an export   *)
(* or an import has already found to be nobody's.                          *)
(*                                                                         *)
(* "Unique by construction": LadderInv says whose the names with an id in  *)
(* them are, for every directory there is, in the manifests and on disk.   *)
(*                                                                         *)
(* "Nothing is ever silently overwritten": BookInv orders versions and     *)
(* stamps in time; TruthInv says what an entry's hash and stamp tell of    *)
(* the directory and the row, and what each handler has read of them.      *)
(*                                                                         *)
(* "Both changed": InBook says when the manifest file holds what memory    *)
(* does; FolderKept, what is so while nobody touches the folder;           *)
(* AloneKept, while nobody touches the database or breaks a tree.          *)
(*                                                                         *)
(* "Delete the entire database, restart the app": RebuildInv says of which *)
(* file a directory is, and which rows reconcile has yet to import.        *)
(***************************************************************************)
EXTENDS SyncEngine, FiniteSetTheorems, TLAPS

\* Where a handler that is suspended at pc goes back to.
Pipe == {"fetch", "copy", "zipOver", "zipIn", "zipNew", "import", "direct",
         "create", "fill", "unshell", "asNew", "asNew2", "finalize"}
Exporting == {"export", "relocated", "download", "guard", "swap"}

ReturnsOK ==
  /\ pc = "rekey" => back \in {"snap", "swept", "fs", "fsRoute"}
  /\ pc \in {"snap", "decide"} => back = "snap"
  /\ pc = "recImp" => back \in {"snap", "recImp"}
  /\ pc \in Exporting => back = "export"
  /\ pc \in {"fs", "fetch", "copy", "zipIn", "zipNew"} => back = "fs"
  /\ pc \in {"direct", "create", "fill", "unshell", "asNew", "asNew2"} =>
       back \in {"fs", "recImp"}
  /\ pc \in {"zipOver", "import", "finalize"} => back \in {"fs", "export"}
  /\ polling => back = "export" /\ pc \in Exporting \cup Pipe

\* Work lists exist only while they are worked on, and stay in the listing.
Working == pc = "recImp" \/ pc \in Exporting \/ (pc \in Pipe /\ back # "fs")
ListedOK ==
  /\ q.exp \cup q.noop \subseteq DOMAIN q.snap
  /\ q.exp # {} \/ q.noop # {} => Working
  /\ q.noop # {} => ~polling
  /\ (pc \in Exporting \ {"export"} \/ (pc \in Pipe /\ back = "export"))
       => job.cur \in DOMAIN q.snap

\* A file that is being imported onto an id is in the manifest under that id.
TrackedOK ==
  pc \in {"fetch", "zipIn", "direct", "create", "fill", "unshell", "asNew2"}
    => job.cur \in DOMAIN man

Control == ReturnsOK /\ ListedOK /\ TrackedOK

\* The re-keys still to do take unclaimed directories, each a different one.
PlannedOK ==
  /\ q.rekey # {} => pc = "rekey"
  /\ \A op \in q.rekey : op[1] \in DOMAIN man /\ ~Claimed(op[2])
  /\ \A o1, o2 \in q.rekey : (o1[1] = o2[1] \/ o1[2] = o2[2]) => o1 = o2

\* A new file's place is still nobody's when it is recorded.
PlacedOK ==
  /\ pc \in {"zipNew", "asNew"} => ~Claimed(job.rel)
  /\ pc \in {"relocated", "download", "guard"} =>
       IF job.cur \in DOMAIN man THEN job.rel = man[job.cur].path
       ELSE ~Claimed(job.rel)

PathInv == UniquePaths /\ PlannedOK /\ PlacedOK

USE DEF folder, backend, tracker, watch, pausing, lineage, env, engine, Goto, Rest

-----------------------------------------------------------------------------
(* The maps, records and helpers of the model.                             *)

\* Adding a typed entry keeps a partial function typed (HashMap::insert).
LEMMA PutPartial ==
  ASSUME NEW K, NEW V, NEW f, Partial(f, K, V), NEW k \in K, NEW v \in V
  PROVE  Partial(Put(f, k, v), K, V)
BY DEF Partial, Put

\* ... and so does removing entries (HashMap::remove).
LEMMA DropPartial ==
  ASSUME NEW K, NEW V, NEW f, Partial(f, K, V), NEW S
  PROVE  Partial(Drop(f, S), K, V)
BY DEF Partial, Drop, Restrict

\* ... and keeping only some of them (HashMap::retain).
LEMMA RestrictPartial ==
  ASSUME NEW K, NEW V, NEW f, Partial(f, K, V), NEW S \in SUBSET DOMAIN f
  PROVE  Partial(Restrict(f, S), K, V)
BY DEF Partial, Restrict

\* The empty map has every type.
LEMMA NothingPartial ==
  ASSUME NEW K, NEW V
  PROVE  Partial(Nothing, K, V)
BY DEF Partial, Nothing

\* Overwriting an entry with a typed one keeps the type.
LEMMA UpdatePartial ==
  ASSUME NEW K, NEW V, NEW f, Partial(f, K, V), NEW k \in DOMAIN f, NEW v \in V
  PROVE  Partial([f EXCEPT ![k] = v], K, V)
BY DEF Partial

\* What a typed map holds under one of its keys is typed.
LEMMA PartialValue ==
  ASSUME NEW K, NEW V, NEW f, Partial(f, K, V), NEW k \in DOMAIN f
  PROVE  f[k] \in V /\ k \in K
BY DEF Partial

\* The fields of a database row.
LEMMA RowFields ==
  ASSUME NEW f, Partial(f, Id, Row), NEW i \in DOMAIN f
  PROVE  i \in Id /\ f[i].ver \in Nat /\ f[i].name \in Name /\ f[i].stamp \in Stamp
<1>1. i \in Id /\ f[i] \in Row
  BY PartialValue
<1> QED BY <1>1 DEF Row

\* A manifest entry stays one when its stamp, path or hash is replaced.
LEMMA EntryFields ==
  ASSUME NEW f, Partial(f, Id, Entry), NEW i \in DOMAIN f
  PROVE  /\ i \in Id /\ f[i].path \in Path /\ f[i].hash \in Tree
         /\ \A s \in Stamp : [f[i] EXCEPT !.stamp = s] \in Entry
         /\ \A p \in Path : [f[i] EXCEPT !.path = p] \in Entry
         /\ \A t \in Tree : [f[i] EXCEPT !.hash = t] \in Entry
         /\ \A s \in Stamp, t \in Tree : [f[i] EXCEPT !.stamp = s, !.hash = t] \in Entry
<1>1. i \in Id /\ f[i] \in Entry
  BY PartialValue
<1> QED BY <1>1 DEF Entry

\* The stamp of a write of a row.
LEMMA StampType ==
  ASSUME NEW i \in Id, NEW n \in Nat \ {0}
  PROVE  <<i, n>> \in Stamp
<1>1. <<i, n>> \in Id \X (Nat \ {0})
  OBVIOUS
<1> QED BY <1>1 DEF Stamp

\* A write of typed content to a row leaves a typed backend.
LEMMA WriteType ==
  ASSUME BackendOK, NEW i \in Id, NEW v \in Nat, NEW n \in Name, Write(i, v, n)
  PROVE  BackendOK'
<1>1. clock[i] + 1 \in Nat \ {0}
  BY DEF BackendOK
<1>2. [ver |-> v, name |-> n, stamp |-> <<i, clock[i] + 1>>] \in Row
  BY <1>1, StampType DEF Row
<1>3. Partial(db', Id, Row)
  BY <1>2, PutPartial DEF BackendOK, Write
<1> QED BY <1>1, <1>3 DEF BackendOK, Write

\* What the backend exports is a design tree.
LEMMA ExportedType ==
  ASSUME NEW i \in Id, NEW row \in Row
  PROVE  Exported(i, row) \in Tree
BY DEF Exported, Row, Tree

\* The locals of a task that works on no file are typed.
LEMMA NoJobType == NoJob \in Job
<1> DEFINE i == CHOOSE i \in Id : TRUE
           n == CHOOSE n \in Name : TRUE
           t == Exported(i, [ver |-> Shell, name |-> n])
<1>1. i \in Id /\ n \in Name
  BY VaultAssumption
<1>2. t \in Tree
  BY <1>1 DEF Exported, Tree, Shell
<1>3. <<n, Bare>> \in Path
  BY <1>1 DEF Path, Suffix
<1> QED BY <1>1, <1>2, <1>3 DEF NoJob, Job

\* Empty work lists are typed.
LEMMA NoWorkType == Partial(NoWork.snap, Id, Row) /\ NoWork \in Work(NoWork.snap)
<1> Partial(Nothing, Id, Row) BY NothingPartial
<1> QED BY DEF NoWork, Work

\* Versions are numbers.
LEMMA StoredType ==
  ASSUME FolderOK, BackendOK
  PROVE  Stored(disk, db) \subseteq Nat
BY DEF FolderOK, BackendOK, Stored, Versions, Partial, Tree, Row

\* The history stays typed when the person removes something ...
LEMMA DiscardType ==
  ASSUME FolderOK, BackendOK, HistoryOK, Discard
  PROVE  nver' \in Nat /\ superseded' \subseteq Nat
BY StoredType DEF Discard, HistoryOK

\* ... when an environment event is spent ...
LEMMA SpendType ==
  ASSUME HistoryOK, NEW k \in Kind, Spend(k)
  PROVE  spent' \in [Kind -> Nat]
BY DEF HistoryOK, Spend

\* Events for paths of the vault arm only paths of the vault.
LEMMA ArmType ==
  ASSUME LoopOK, NEW S \in SUBSET Path, Arm(S)
  PROVE  fsPend' \subseteq Path /\ sweep' \in BOOLEAN
BY DEF LoopOK, Arm

\* A bare file name is a path.
LEMMA BarePath ==
  ASSUME NEW n \in Name
  PROVE  <<n, Bare>> \in Path
BY DEF Path, Suffix

\* Every rung of the ladder of names is a path ...
LEMMA RungType ==
  ASSUME NEW i \in Id, NEW n \in Name, NEW k \in 1..3
  PROVE  Rung(i, n, k) \in Path
BY DEF Rung, Path, Suffix

\* ... and so is the one allocate_file_path settles on.
LEMMA LadderType ==
  ASSUME NEW i \in Id, NEW n \in Name
  PROVE  Ladder(i, n) \in Path
BY RungType DEF Ladder

\* A claimed path has its claimant's entry (entry_for_rel_path).
LEMMA OwnerClaims ==
  ASSUME NEW p, Claimed(p)
  PROVE  Owner(p) \in DOMAIN man /\ man[Owner(p)].path = p
BY DEF Claimed, Owner

\* plan_rekeys pairs tracked files with paths.
LEMMA RekeysType ==
  ASSUME FolderOK, ManifestOK
  PROVE  /\ Rekeys \subseteq Id \X Path
         /\ \A op \in Rekeys : op[1] \in DOMAIN man
BY DEF FolderOK, ManifestOK, Partial, Rekeys, Missing, Unclaimed

\* mark_synced keeps the tracker typed.
LEMMA MarkSyncedType ==
  ASSUME TrackerOK, NEW i \in Id, NEW st \in Stamp, MarkSynced(i, st)
  PROVE  TrackerOK'
BY PutPartial, DropPartial DEF TrackerOK, MarkSynced

\* ... and when the person makes a new version.
LEMMA NewVersionType ==
  ASSUME HistoryOK, NEW S \in SUBSET Nat, NewVersion(S)
  PROVE  nver' \in Nat /\ nver' = nver + 1 /\ superseded' \subseteq Nat
<1>1. nver + 1 \in Nat
  BY DEF HistoryOK
<1> QED BY <1>1 DEF HistoryOK, NewVersion

\* A pipeline that fails leaves the tracker and the locals typed: the re-queued
\* file is one of the listing's.
LEMMA FailType ==
  ASSUME TypeOK, Control, Fail, pc \in (Exporting \ {"export"}) \cup Pipe
  PROVE  TrackerOK' /\ LocalsOK'
<1>1. LocalsOK'
  BY NoJobType DEF Fail, Return, TypeOK, LocalsOK
<1>2. CASE back = "export" /\ polling
  <2>1. job.cur \in DOMAIN q.snap
    BY <1>2 DEF Control, ReturnsOK, ListedOK
  <2>2. job.cur \in Id /\ q.snap[job.cur].stamp \in Stamp
    BY <2>1, RowFields DEF TypeOK, WorkOK
  <2> QED BY <1>1, <1>2, <2>2, PutPartial DEF Fail, TypeOK, TrackerOK
<1>3. CASE ~(back = "export" /\ polling)
  BY <1>1, <1>3 DEF Fail, TypeOK, TrackerOK
<1> QED BY <1>2, <1>3

\* An import onto a row writes the staged tree's typed content.
LEMMA ImportOntoType ==
  ASSUME TypeOK, ImportOnto
  PROVE  BackendOK'
<1>1. job.cur \in Id /\ job.stage.ver \in Nat /\ job.stage.name \in Name
  BY DEF TypeOK, LocalsOK, Job, Tree
<1> QED BY <1>1, WriteType DEF ImportOnto, TypeOK

\* create-file makes a typed row.
LEMMA ShellType ==
  ASSUME TypeOK, Write(job.cur, Shell, job.rel[1])
  PROVE  BackendOK'
<1>1. job.cur \in Id /\ job.rel[1] \in Name
  BY DEF TypeOK, LocalsOK, Job, Path
<1>2. Shell \in Nat
  BY DEF Shell
<1> QED BY <1>1, <1>2, WriteType DEF TypeOK

\* import_in_place re-keys an entry that is there: the manifest stays typed.
LEMMA AdoptType ==
  ASSUME TypeOK, job.cur \in DOMAIN man, NEW i \in Id, Adopt(i)
  PROVE  Partial(man', Id, Entry) /\ job' \in Job
<1>1. job.seen \in Tree /\ [man[job.cur] EXCEPT !.hash = job.seen] \in Entry
  BY EntryFields DEF TypeOK, LocalsOK, ManifestOK, Job
<1>2. Partial(Drop(man, {job.cur}), Id, Entry)
  BY DropPartial DEF TypeOK, ManifestOK
<1>3. Partial(man', Id, Entry)
  BY <1>1, <1>2, PutPartial DEF Adopt
<1>4. job' \in Job
  BY DEF Adopt, TypeOK, LocalsOK, Job
<1> QED BY <1>3, <1>4

\* What follows an import keeps the work lists typed.
LEMMA SettleType ==
  ASSUME TypeOK, NEW i \in Id, Settle(i)
  PROVE  /\ pc' \in PC /\ back' = back /\ polling' = polling
         /\ WorkOK'
<1>1. CASE back = "fs"
  BY <1>1 DEF Settle, TypeOK, WorkOK, LocalsOK, PC
<1>2. CASE back # "fs"
  <2>1. [q EXCEPT !.done = @ \cup {i}, !.dirty = TRUE] \in Work(q.snap)
    BY DEF TypeOK, WorkOK, Work
  <2>2. [q EXCEPT !.done = @ \cup {i}, !.dirty = TRUE].snap = q.snap
    BY DEF TypeOK, WorkOK, Work
  <2> QED BY <1>2, <2>1, <2>2 DEF Settle, TypeOK, WorkOK, PC
<1> QED BY <1>1, <1>2

\* The entry an export records is typed: its stamp is the listing's.
LEMMA RecordType ==
  ASSUME TypeOK, NEW t \in Tree, job.cur \in DOMAIN q.snap
  PROVE  Partial(Record(t), Id, Entry)
<1>1. job.cur \in Id /\ q.snap[job.cur].stamp \in Stamp
  BY RowFields DEF TypeOK, WorkOK
<1>2. [path |-> job.rel, hash |-> t, stamp |-> q.snap[job.cur].stamp] \in Entry
  BY <1>1 DEF TypeOK, LocalsOK, Job, Entry
<1> QED BY <1>1, <1>2, PutPartial DEF Record, TypeOK, ManifestOK

\* An export that ended well leaves the tracker and the locals typed.
LEMMA ExportationType ==
  ASSUME TypeOK, Exportation, job.cur \in DOMAIN q.snap
  PROVE  TrackerOK' /\ LocalsOK'
<1>1. job.cur \in Id /\ q.snap[job.cur].stamp \in Stamp
  BY RowFields DEF TypeOK, WorkOK
<1>2. TrackerOK'
  BY <1>1, MarkSyncedType DEF Exportation, TypeOK
<1>3. LocalsOK'
  BY NoJobType DEF Exportation, Return, TypeOK, LocalsOK
<1> QED BY <1>2, <1>3

-----------------------------------------------------------------------------
(* Types are kept, given what Control says of the suspended handler.       *)

\* People, the network and a kill keep the types ...
LEMMA EnvironmentTypes ==
  ASSUME TypeOK, DbChange \/ DiskChange \/ Crash \/ \E on \in BOOLEAN : SetPaused(on)
  PROVE  TypeOK'
<1> USE
   DEF TypeOK, FolderOK, BackendOK, ManifestOK, TrackerOK, LoopOK, LocalsOK, WorkOK,
   HistoryOK
<1>1. ASSUME NEW i \in Id, DbEdit(i)
      PROVE  TypeOK'
  <2>1. i \in DOMAIN db /\ db[i] \in Row
    BY <1>1, PartialValue DEF DbEdit
  <2>2. {db[i].ver} \subseteq Nat /\ db[i].name \in Name
    BY <2>1 DEF Row
  <2>3. nver' \in Nat /\ nver' = nver + 1 /\ superseded' \subseteq Nat
    BY <1>1, <2>2, NewVersionType DEF DbEdit
  <2>4. BackendOK'
    BY <1>1, <2>2, <2>3, WriteType DEF DbEdit
  <2>5. HistoryOK'
    BY <1>1, <2>3, SpendType DEF DbEdit, Kind
  <2> QED BY <1>1, <2>4, <2>5 DEF DbEdit
<1>2. ASSUME NEW i \in Id, DbTouch(i)
      PROVE  TypeOK'
  <2>1. i \in DOMAIN db /\ db[i] \in Row
    BY <1>2, PartialValue DEF DbTouch
  <2>2. BackendOK'
    BY <1>2, <2>1, WriteType DEF DbTouch, Row
  <2>3. HistoryOK'
    BY <1>2, SpendType DEF DbTouch, Kind
  <2> QED BY <1>2, <2>2, <2>3 DEF DbTouch
<1>3. ASSUME NEW i \in Id, NEW n \in Name, DbRename(i, n)
      PROVE  TypeOK'
  <2>1. i \in DOMAIN db /\ db[i] \in Row
    BY <1>3, PartialValue DEF DbRename
  <2>2. BackendOK'
    BY <1>3, <2>1, WriteType DEF DbRename, Row
  <2>3. HistoryOK'
    BY <1>3, SpendType DEF DbRename, Kind
  <2> QED BY <1>3, <2>2, <2>3 DEF DbRename
<1>4. ASSUME NEW i \in Id, NEW n \in Name, DbCreate(i, n)
      PROVE  TypeOK'
  <2>1. nver' \in Nat /\ nver' = nver + 1 /\ superseded' \subseteq Nat
    BY <1>4, NewVersionType DEF DbCreate
  <2>2. BackendOK'
    BY <1>4, <2>1, WriteType DEF DbCreate
  <2>3. HistoryOK'
    BY <1>4, <2>1, SpendType DEF DbCreate, Kind
  <2> QED BY <1>4, <2>2, <2>3 DEF DbCreate
<1>5. ASSUME NEW i \in Id, DbDelete(i)
      PROVE  TypeOK'
  <2>1. BackendOK'
    BY <1>5, DropPartial DEF DbDelete
  <2>2. HistoryOK'
    BY <1>5, SpendType, DiscardType DEF DbDelete, Kind
  <2> QED BY <1>5, <2>1, <2>2 DEF DbDelete
<1>6. ASSUME DbWipe
      PROVE  TypeOK'
  <2>1. BackendOK'
    BY <1>6, NothingPartial DEF DbWipe
  <2>2. HistoryOK'
    BY <1>6, SpendType, DiscardType DEF DbWipe, Kind
  <2> QED BY <1>6, <2>1, <2>2 DEF DbWipe
<1>7. ASSUME NEW p \in Path, NEW ok \in BOOLEAN, DiskEdit(p, ok)
      PROVE  TypeOK'
  <2>1. p \in DOMAIN disk /\ disk[p] \in Tree
    BY <1>7, PartialValue DEF DiskEdit, Exists
  <2>2. nver' \in Nat /\ nver' = nver + 1 /\ superseded' \subseteq Nat
    <3>1. {disk[p].ver} \subseteq Nat
      BY <2>1 DEF Tree
    <3> QED BY <1>7, <3>1, NewVersionType DEF DiskEdit
  <2>3. FolderOK'
    <3>1. [disk[p] EXCEPT !.ver = nver + 1, !.ok = ok] \in Tree
      BY <2>1, <2>2 DEF Tree
    <3> QED BY <1>7, <2>1, <3>1 DEF DiskEdit, Partial
  <2>4. LoopOK'
    BY <1>7, ArmType DEF DiskEdit
  <2>5. HistoryOK'
    BY <1>7, <2>2, SpendType DEF DiskEdit, Kind
  <2> QED BY <1>7, <2>3, <2>4, <2>5 DEF DiskEdit
<1>8. ASSUME NEW p \in Path, DiskDelete(p)
      PROVE  TypeOK'
  <2>1. FolderOK'
    BY <1>8, DropPartial DEF DiskDelete
  <2>2. LoopOK'
    BY <1>8, ArmType DEF DiskDelete
  <2>3. HistoryOK'
    BY <1>8, SpendType, DiscardType DEF DiskDelete, Kind
  <2> QED BY <1>8, <2>1, <2>2, <2>3 DEF DiskDelete
<1>9. ASSUME NEW p \in Path, NEW n \in Name, DiskMove(p, n) \/ DiskMoveUnseen(p, n)
      PROVE  TypeOK'
  <2>1. disk[p] \in Tree /\ <<n, Bare>> \in Path
    BY <1>9, BarePath, PartialValue DEF DiskMove, DiskMoveUnseen, Exists
  <2>2. FolderOK'
    <3>1. Partial(Drop(disk, {p}), Path, Tree)
      BY DropPartial
    <3> QED BY <1>9, <2>1, <3>1, PutPartial DEF DiskMove, DiskMoveUnseen
  <2>3. LoopOK'
    <3>1. CASE DiskMove(p, n)
      BY <2>1, <3>1, ArmType DEF DiskMove
    <3>2. CASE DiskMoveUnseen(p, n)
      BY <3>2 DEF DiskMoveUnseen, Deaf
    <3> QED BY <1>9, <3>1, <3>2
  <2>4. HistoryOK'
    BY <1>9, SpendType DEF DiskMove, DiskMoveUnseen, Kind
  <2> QED BY <1>9, <2>2, <2>3, <2>4 DEF DiskMove, DiskMoveUnseen
<1>10. ASSUME NEW p \in Path, NEW n \in Name, DiskCopy(p, n)
       PROVE  TypeOK'
  <2>1. disk[p] \in Tree /\ <<n, Bare>> \in Path
    BY <1>10, BarePath, PartialValue DEF DiskCopy, Exists
  <2>2. FolderOK'
    BY <1>10, <2>1, PutPartial DEF DiskCopy
  <2>3. LoopOK'
    BY <1>10, <2>1, ArmType DEF DiskCopy
  <2>4. HistoryOK'
    BY <1>10, SpendType DEF DiskCopy, Kind
  <2> QED BY <1>10, <2>2, <2>3, <2>4 DEF DiskCopy
<1>11. ASSUME Crash
       PROVE  TypeOK'
  <2>1. ManifestOK' /\ TrackerOK'
    BY <1>11, NothingPartial DEF Crash
  <2>2. LocalsOK'
    BY <1>11, NoJobType DEF Crash, PC
  <2>3. WorkOK'
    BY <1>11, NoWorkType DEF Crash
  <2>4. HistoryOK'
    BY <1>11, SpendType DEF Crash, Kind
  <2> QED BY <1>11, <2>1, <2>2, <2>3, <2>4 DEF Crash
<1>12. ASSUME NEW on \in BOOLEAN, SetPaused(on)
       PROVE  TypeOK'
  <2>1. LoopOK'
    BY <1>12 DEF SetPaused, Send
  <2>2. HistoryOK'
    BY <1>12, SpendType DEF SetPaused, Kind
  <2> QED BY <1>12, <2>1, <2>2 DEF SetPaused
<1> QED
  BY <1>1, <1>2, <1>3, <1>4, <1>5, <1>6, <1>7, <1>8, <1>9, <1>10, <1>11, <1>12
  DEF DbChange, DiskChange

\* ... start-up and reconcile keep them ...
LEMMA ReconcileTypes ==
  ASSUME TypeOK, Control, Reconcile
  PROVE  TypeOK'
<1> USE
   DEF TypeOK, FolderOK, BackendOK, ManifestOK, TrackerOK, LoopOK, LocalsOK, WorkOK,
   HistoryOK
<1>1. CASE Start
  BY <1>1 DEF Start, PC
<1>2. CASE Boot
  <2>1. LocalsOK'
    BY <1>2 DEF Boot, PC
  <2>2. WorkOK'
    BY <1>2, RekeysType DEF Boot, Work
  <2> QED BY <1>2, <2>1, <2>2 DEF Boot
<1>3. CASE Snapshot
  <2>1. LocalsOK'
    BY <1>3 DEF Snapshot, PC
  <2>2. WorkOK'
    <3>1. q'.exp = {} /\ q'.noop = {}
      BY <1>3 DEF Snapshot, Control, ListedOK, Working, Exporting, Pipe, Work
    <3> QED BY <1>3, <3>1 DEF Snapshot, Work
  <2> QED BY <1>3, <2>1, <2>2 DEF Snapshot
<1>4. CASE SnapshotFails
  <2>1. LocalsOK'
    BY <1>4 DEF SnapshotFails, PC
  <2>2. WorkOK'
    BY <1>4, NothingPartial DEF SnapshotFails, Work
  <2>3. HistoryOK'
    BY <1>4, SpendType DEF SnapshotFails, Kind
  <2> QED BY <1>4, <2>1, <2>2, <2>3 DEF SnapshotFails
<1>5. ASSUME NEW moved \in SUBSET Id, Decide(moved)
      PROVE  TypeOK'
  <2>1. ManifestOK'
    BY <1>5, DropPartial DEF Decide
  <2>2. LocalsOK'
    BY <1>5 DEF Decide, PC
  <2>3. WorkOK'
    <3>1. ASSUME NEW p \in DOMAIN disk
          PROVE  [rel |-> p, seen |-> disk[p]] \in [rel : Path, seen : Tree]
      BY PartialValue
    <3>2. q'.imp \subseteq [rel : Path, seen : Tree]
      <4>1. q'.imp \subseteq {[rel |-> p, seen |-> disk[p]] : p \in DOMAIN disk}
        BY <1>5 DEF Decide, Work, Exists, Unclaimed
      <4> QED BY <3>1, <4>1
    <3>3. q'.exp \subseteq Id /\ q'.noop \subseteq Id /\ q'.dirty \in BOOLEAN
      BY <1>5 DEF Decide, Work, Partial
    <3>4. q' = [q EXCEPT !.imp = q'.imp, !.exp = q'.exp, !.noop = q'.noop,
                         !.done = {}, !.dirty = q'.dirty]
      BY <1>5 DEF Decide, Work
    <3> QED BY <3>2, <3>3, <3>4 DEF Work
  <2> QED BY <1>5, <2>1, <2>2, <2>3 DEF Decide
<1>6. ASSUME NEW it \in q.imp, RecImport(it)
      PROVE  TypeOK'
  <2>1. it.rel \in Path /\ it.seen \in Tree
    BY DEF Work
  <2>2. LocalsOK'
    <3> DEFINE p == it.rel
               ok == Exists(p) /\ disk[p].ok /\ (Claimed(p) => disk[p].id = Owner(p))
    <3>1. CASE ~ok
      BY <1>6, <3>1 DEF RecImport
    <3>2. CASE ok
      <4>1. disk[p] \in Tree
        BY <3>2, PartialValue DEF Exists
      <4>2. (IF Claimed(p) THEN Owner(p) ELSE NoJob.cur) \in Id
        BY OwnerClaims, NoJobType DEF Partial, Job
      <4> QED BY <1>6, <2>1, <3>2, <4>1, <4>2 DEF RecImport, Job, PC
    <3> QED BY <3>1, <3>2
  <2>3. WorkOK'
    BY <1>6 DEF RecImport, Work
  <2> QED BY <1>6, <2>2, <2>3 DEF RecImport
<1>7. CASE RecSave
  <2>1. LocalsOK'
    BY <1>7 DEF RecSave, PC
  <2>2. WorkOK'
    BY <1>7 DEF RecSave, Work
  <2> QED BY <1>7, <2>1, <2>2 DEF RecSave
<1>8. CASE RecNoops
  <2>1. TrackerOK'
    <3>1. ASSUME NEW i \in q.noop
          PROVE  i \in Id /\ q.snap[i].stamp \in Stamp
      BY RowFields DEF Control, ListedOK
    <3>2. Partial(synced', Id, Stamp)
      BY <1>8, <3>1 DEF RecNoops, Partial
    <3> QED BY <1>8, <3>2, DropPartial DEF RecNoops
  <2>2. LocalsOK'
    BY <1>8 DEF RecNoops, PC
  <2>3. WorkOK'
    BY <1>8, NothingPartial DEF RecNoops, Work
  <2> QED BY <1>8, <2>1, <2>2, <2>3 DEF RecNoops
<1>9. CASE Reseed
  <2> DEFINE found == q.done \cap DOMAIN db
  <2>1. ASSUME NEW i \in found
        PROVE  i \in Id /\ db[i].stamp \in Stamp
    BY RowFields
  <2>2. TrackerOK'
    <3>1. Partial(synced', Id, Stamp)
      BY <1>9, <2>1 DEF Reseed, Partial
    <3> QED BY <1>9, <3>1, DropPartial DEF Reseed
  <2>3. ManifestOK'
    <3>1. ASSUME NEW i \in found \cap DOMAIN man
          PROVE  [man[i] EXCEPT !.stamp = db[i].stamp] \in Entry
      BY <2>1, EntryFields
    <3>2. Partial(man', Id, Entry)
      BY <1>9, <3>1 DEF Reseed, Partial
    <3> QED BY <1>9, <3>2 DEF Reseed
  <2>4. LocalsOK'
    BY <1>9 DEF Reseed, PC
  <2>5. WorkOK'
    BY <1>9 DEF Reseed, Work
  <2> QED BY <1>9, <2>2, <2>3, <2>4, <2>5 DEF Reseed
<1> QED BY <1>1, <1>2, <1>3, <1>4, <1>5, <1>6, <1>7, <1>8, <1>9 DEF Reconcile

\* ... the main loop's branches keep them ...
LEMMA LoopTypes ==
  ASSUME TypeOK, Control, Loop
  PROVE  TypeOK'
<1> USE
   DEF TypeOK, FolderOK, BackendOK, ManifestOK, TrackerOK, LoopOK, LocalsOK, WorkOK,
   HistoryOK
<1>1. CASE HandlePause
  <2>1. ManifestOK'
    BY <1>1 DEF HandlePause, ReloadManifest, RescanDisk
  <2>2. LoopOK'
    BY <1>1 DEF HandlePause, ReloadManifest, RescanDisk, Partial
  <2> QED BY <1>1, <2>1, <2>2 DEF HandlePause, ReloadManifest, RescanDisk
<1>2. ASSUME NEW due \in SUBSET Ripe, PollCycle(due)
      PROVE  TypeOK'
  <2>1. due \subseteq DOMAIN db
    BY DEF Ripe, Observed
  <2>2. TrackerOK'
    <3>1. Partial(synced', Id, Stamp)
      BY <1>2, RestrictPartial DEF PollCycle
    <3>2. ASSUME NEW i \in Observed
          PROVE  i \in Id /\ db[i].stamp \in Stamp
      BY RowFields DEF Observed
    <3>3. Partial(pend', Id, Stamp)
      BY <1>2, <3>2 DEF PollCycle, Partial
    <3> QED BY <3>1, <3>3
  <2>3. LocalsOK'
    BY <1>2 DEF PollCycle, PC
  <2>4. WorkOK'
    <3>1. Partial(q'.snap, Id, Row)
      BY <1>2, <2>1, RestrictPartial DEF PollCycle, Work
    <3>2. due \subseteq Id
      BY <2>1 DEF Partial
    <3> QED BY <1>2, <3>1, <3>2 DEF PollCycle, Work
  <2> QED BY <1>2, <2>2, <2>3, <2>4 DEF PollCycle
<1>3. CASE PollDone
  <2>1. LocalsOK'
    BY <1>3 DEF PollDone, PC
  <2>2. q'.noop = {} /\ WorkOK'
    BY <1>3, NothingPartial DEF PollDone, Work, Control, ListedOK
  <2> QED BY <1>3, <2>1, <2>2 DEF PollDone
<1>4. CASE Sweep
  <2>1. LoopOK'
    BY <1>4 DEF Sweep
  <2>2. LocalsOK'
    BY <1>4 DEF Sweep, PC
  <2>3. WorkOK'
    BY <1>4, RekeysType DEF Sweep, Work
  <2> QED BY <1>4, <2>1, <2>2, <2>3 DEF Sweep
<1>5. ASSUME NEW due \in SUBSET Armed, TakeDue(due)
      PROVE  TypeOK'
  <2>1. Armed \subseteq Path
    BY DEF Armed, Stray, Partial
  <2>2. LoopOK'
    BY <1>5, <2>1 DEF TakeDue
  <2>3. LocalsOK'
    BY <1>5 DEF TakeDue, PC
  <2>4. WorkOK'
    BY <1>5, <2>1 DEF TakeDue, Work
  <2> QED BY <1>5, <2>2, <2>3, <2>4 DEF TakeDue
<1>6. CASE FsDone
  <2>1. LocalsOK'
    BY <1>6 DEF FsDone, PC
  <2> QED BY <1>6, <2>1 DEF FsDone
<1> QED BY <1>1, <1>2, <1>3, <1>4, <1>5, <1>6 DEF Loop

\* ... a filesystem change, with the re-key pass, keeps them ...
LEMMA FsTypes ==
  ASSUME TypeOK, Control, FsChange
  PROVE  TypeOK'
<1> USE
   DEF TypeOK, FolderOK, BackendOK, ManifestOK, TrackerOK, LoopOK, LocalsOK, WorkOK,
   HistoryOK
<1>1. ASSUME NEW op \in q.rekey, RekeyMirrored(op) \/ RekeyUnmirrored(op)
      PROVE  TypeOK'
  <2>1. op \in Id \X Path
    BY DEF Work
  <2>2. op[1] \in Id /\ op[2] \in Path /\ op[2][1] \in Name
    BY <2>1 DEF Path
  <2>3. Rekey(op)
    BY <1>1 DEF RekeyMirrored, RekeyUnmirrored
  <2>4. BackendOK' /\ HistoryOK'
    <3>1. CASE RekeyMirrored(op)
      <4>1. db[op[1]].ver \in Nat
        BY <3>1, RowFields DEF RekeyMirrored
      <4>2. BackendOK'
        BY <2>2, <3>1, <4>1, WriteType DEF RekeyMirrored
      <4> QED BY <2>3, <3>1, <4>2 DEF RekeyMirrored, Rekey
    <3>2. CASE RekeyUnmirrored(op)
      BY <2>3, <3>2, SpendType DEF RekeyUnmirrored, Rekey, Kind
    <3> QED BY <1>1, <3>1, <3>2
  <2>5. ManifestOK'
    <3>1. CASE op[1] \in DOMAIN man
      BY <2>2, <2>3, <3>1, EntryFields, UpdatePartial DEF Rekey
    <3>2. CASE op[1] \notin DOMAIN man
      BY <2>3, <3>2 DEF Rekey, Partial
    <3> QED BY <3>1, <3>2
  <2>6. WorkOK'
    BY <2>3 DEF Rekey, Work
  <2> QED BY <2>3, <2>4, <2>5, <2>6 DEF Rekey
<1>2. CASE RekeySave
  <2>1. ManifestOK' /\ LocalsOK'
    BY <1>2 DEF RekeySave
  <2> QED BY <1>2, <2>1 DEF RekeySave
<1>3. ASSUME NEW p \in q.fs, FsGone(p)
      PROVE  TypeOK'
  <2>1. LocalsOK'
    BY <1>3 DEF FsGone, PC
  <2>2. WorkOK'
    BY <1>3, RekeysType DEF FsGone, Work
  <2> QED BY <1>3, <2>1, <2>2 DEF FsGone
<1>4. ASSUME NEW p \in q.fs, FsBroken(p)
      PROVE  TypeOK'
  <2>1. WorkOK'
    BY <1>4 DEF FsBroken, Work
  <2> QED BY <1>4, <2>1 DEF FsBroken
<1>5. ASSUME NEW p \in q.fs, FsHash(p)
      PROVE  TypeOK'
  <2>1. LocalsOK'
    <3>1. p \in Path /\ disk[p] \in Tree /\ NoJob.cur \in Id
      BY <1>5, NoJobType, PartialValue DEF FsHash, Exists, Job
    <3> QED BY <1>5, <3>1 DEF FsHash, SetJob, Job, PC
  <2>2. WorkOK'
    BY <1>5, RekeysType DEF FsHash, Work
  <2> QED BY <1>5, <2>1, <2>2 DEF FsHash
<1>6. CASE FsRoute
  <2>1. LocalsOK'
    <3>1. Claimed(job.rel) => [job EXCEPT !.cur = Owner(job.rel)] \in Job
      BY OwnerClaims DEF Partial, Job
    <3> QED BY <1>6, <3>1, NoJobType DEF FsRoute, PC
  <2> QED BY <1>6, <2>1 DEF FsRoute
<1>7. CASE Copy
  <2>1. FolderOK'
    BY <1>7, ExportedType, PartialValue DEF Copy
  <2>2. LocalsOK'
    BY <1>7 DEF Copy, PC
  <2> QED BY <1>7, <2>1, <2>2 DEF Copy
<1>8. CASE Zip
  <2>1. LocalsOK'
    <3>1. disk[job.rel] \in Tree
      BY <1>8, PartialValue DEF Zip, Exists
    <3> QED BY <1>8, <3>1 DEF Zip, Job, PC
  <2> QED BY <1>8, <2>1 DEF Zip
<1>9. ASSUME NEW moved \in BOOLEAN, Fetch(moved)
      PROVE  TypeOK'
  <2>1. LocalsOK'
    BY <1>9 DEF Fetch, PC
  <2> QED BY <1>9, <2>1 DEF Fetch
<1> QED BY <1>1, <1>2, <1>3, <1>4, <1>5, <1>6, <1>7, <1>8, <1>9 DEF FsChange

\* ... the import pipelines keep them ...
LEMMA ImportTypes ==
  ASSUME TypeOK, Control, ImportStep
  PROVE  TypeOK'
<1> USE
   DEF TypeOK, FolderOK, BackendOK, ManifestOK, TrackerOK, LoopOK, LocalsOK, WorkOK,
   HistoryOK
<1>1. CASE Import
  <2>1. BackendOK'
    BY <1>1, ImportOntoType DEF Import
  <2>2. LocalsOK'
    BY <1>1 DEF Import, PC
  <2> QED BY <1>1, <2>1, <2>2 DEF Import
<1>2. CASE InPlace
  <2>1. BackendOK'
    BY <1>2, ImportOntoType DEF InPlace
  <2>2. job.cur \in DOMAIN man /\ job.cur \in Id
    BY <1>2 DEF InPlace, Control, TrackedOK, Job
  <2>3. ManifestOK'
    BY <1>2, <2>2, AdoptType DEF InPlace
  <2>4. LocalsOK' /\ WorkOK'
    BY <1>2, <2>2, AdoptType, SettleType DEF InPlace
  <2> QED BY <1>2, <2>1, <2>3, <2>4 DEF InPlace
<1>3. CASE InPlaceFails
  <2>1. BackendOK'
    BY <1>3, ImportOntoType DEF InPlaceFails
  <2>2. LocalsOK'
    BY <1>3 DEF InPlaceFails, PC
  <2>3. HistoryOK'
    BY <1>3, SpendType DEF InPlaceFails, Kind
  <2> QED BY <1>3, <2>1, <2>2, <2>3 DEF InPlaceFails
<1>4. CASE Create
  <2>1. BackendOK'
    BY <1>4, ShellType DEF Create
  <2>2. LocalsOK'
    BY <1>4 DEF Create, PC
  <2> QED BY <1>4, <2>1, <2>2 DEF Create
<1>5. CASE CreateFails
  <2>1. BackendOK'
    BY <1>5, ShellType DEF CreateFails
  <2>2. LocalsOK'
    BY <1>5 DEF CreateFails, PC
  <2>3. HistoryOK'
    BY <1>5, SpendType DEF CreateFails, Kind
  <2> QED BY <1>5, <2>1, <2>2, <2>3 DEF CreateFails
<1>6. CASE Unshell
  <2>1. BackendOK'
    BY <1>6, DropPartial DEF Unshell, Job
  <2>2. LocalsOK'
    BY <1>6 DEF Unshell, PC
  <2>3. HistoryOK'
    BY <1>6, SpendType DEF Unshell, Kind
  <2> QED BY <1>6, <2>1, <2>2, <2>3 DEF Unshell
<1>7. ASSUME NEW i \in Id, AsNew(i)
      PROVE  TypeOK'
  <2>1. job.stage.ver \in Nat /\ job.stage.name \in Name
    BY DEF Job, Tree
  <2>2. BackendOK'
    BY <1>7, <2>1, WriteType DEF AsNew
  <2>3. Partial(man', Id, Entry) /\ job' \in Job
    <3>1. CASE pc = "asNew2"
      <4>1. job.cur \in DOMAIN man
        BY <3>1 DEF Control, TrackedOK
      <4> QED BY <1>7, <3>1, <4>1, AdoptType DEF AsNew
    <3>2. CASE pc = "asNew"
      <4>1. [path |-> job.rel, hash |-> job.seen, stamp |-> NoStamp] \in Entry
        BY DEF Job, Entry, Stamp
      <4> QED BY <1>7, <3>2, <4>1, PutPartial DEF AsNew, Job
    <3> QED BY <1>7, <3>1, <3>2 DEF AsNew
  <2>4. LocalsOK' /\ WorkOK'
    BY <1>7, <2>3, SettleType DEF AsNew
  <2> QED BY <1>7, <2>2, <2>3, <2>4 DEF AsNew
<1>8. ASSUME NEW i \in Id, AsNewTwice(i)
      PROVE  TypeOK'
  <2>1. job.stage.ver \in Nat /\ job.stage.name \in Name
    BY DEF Job, Tree
  <2>2. BackendOK'
    BY <1>8, <2>1, WriteType DEF AsNewTwice
  <2>3. HistoryOK'
    BY <1>8, SpendType DEF AsNewTwice, Kind
  <2> QED BY <1>8, <2>2, <2>3 DEF AsNewTwice
<1>9. CASE Finalize
  <2>1. LocalsOK'
    BY <1>9, NoJobType DEF Finalize, Return
  <2>2. ManifestOK' /\ TrackerOK'
    <3>1. CASE job.cur \in DOMAIN db
      <4>1. job.cur \in Id /\ db[job.cur].stamp \in Stamp /\ job.seen \in Tree
        BY <3>1, RowFields DEF Job
      <4>2. TrackerOK'
        BY <1>9, <3>1, <4>1, MarkSyncedType DEF Finalize
      <4>3. ManifestOK'
        <5>1. CASE job.cur \in DOMAIN man
          <6> DEFINE entry == [man[job.cur] EXCEPT !.stamp = db[job.cur].stamp,
                                                   !.hash = job.seen]
          <6>1. entry \in Entry
            BY <4>1, <5>1, EntryFields
          <6>2. man' = [man EXCEPT ![job.cur] = entry] /\ ledger' = man'
            BY <1>9, <3>1 DEF Finalize
          <6> HIDE DEF entry
          <6> QED BY <5>1, <6>1, <6>2, UpdatePartial
        <5>2. CASE job.cur \notin DOMAIN man
          BY <1>9, <3>1, <5>2 DEF Finalize, Partial
        <5> QED BY <5>1, <5>2
      <4> QED BY <4>2, <4>3
    <3>2. CASE job.cur \notin DOMAIN db
      BY <1>9, <3>2 DEF Finalize
    <3> QED BY <3>1, <3>2
  <2> QED BY <1>9, <2>1, <2>2 DEF Finalize
<1>10. CASE ImportFails
  <2>1. BackendOK'
    BY <1>10, ImportOntoType DEF ImportFails
  <2>2. TrackerOK' /\ LocalsOK'
    BY <1>10, FailType DEF ImportFails, Pipe
  <2>3. HistoryOK'
    BY <1>10, SpendType DEF ImportFails, Kind
  <2> QED BY <1>10, <2>1, <2>2, <2>3 DEF ImportFails
<1> QED BY <1>1, <1>2, <1>3, <1>4, <1>5, <1>6, <1>7, <1>8, <1>9, <1>10 DEF ImportStep

\* ... and export_file keeps them.
LEMMA ExportTypes ==
  ASSUME TypeOK, Control, ExportStep
  PROVE  TypeOK'
<1> USE
   DEF TypeOK, FolderOK, BackendOK, ManifestOK, TrackerOK, LoopOK, LocalsOK, WorkOK,
   HistoryOK
<1>1. ASSUME NEW i \in q.exp, Relocate(i)
      PROVE  TypeOK'
  <2>1. i \in DOMAIN man /\ man[i].path \in Path
    BY <1>1, EntryFields DEF Relocate, Misplaced
  <2>2. i \in Id /\ Wanted(i) \in Path
    BY RowFields, LadderType DEF Control, ListedOK, Wanted
  <2>3. FolderOK' /\ LoopOK'
    <3>1. CASE Exists(man[i].path)
      <4>1. disk[man[i].path] \in Tree
        BY <3>1, PartialValue DEF Exists
      <4>2. Partial(Drop(disk, {man[i].path}), Path, Tree)
        BY DropPartial
      <4>3. Partial(disk', Path, Tree)
        BY <1>1, <2>2, <3>1, <4>1, <4>2, PutPartial DEF Relocate
      <4>4. fsPend' \subseteq Path /\ sweep' \in BOOLEAN
        BY <1>1, <2>1, <2>2, <3>1, ArmType DEF Relocate
      <4> QED BY <1>1, <4>3, <4>4 DEF Relocate
    <3>2. CASE ~Exists(man[i].path)
      BY <1>1, <3>2 DEF Relocate
    <3> QED BY <3>1, <3>2
  <2>4. ManifestOK'
    BY <1>1, <2>1, <2>2, EntryFields, UpdatePartial DEF Relocate
  <2>5. LocalsOK'
    <3>1. NoJob.seen \in Tree
      BY NoJobType DEF Job
    <3> QED BY <1>1, <2>2, <3>1 DEF Relocate, SetJob, Job, PC
  <2>6. WorkOK'
    BY <1>1 DEF Relocate, Work
  <2> QED BY <1>1, <2>3, <2>4, <2>5, <2>6 DEF Relocate
<1>2. ASSUME NEW i \in q.exp, Allocate(i)
      PROVE  TypeOK'
  <2>1. i \in Id /\ Wanted(i) \in Path /\ NoJob.seen \in Tree
    BY RowFields, LadderType, NoJobType DEF Control, ListedOK, Wanted, Job
  <2>2. i \in DOMAIN man => man[i].path \in Path
    BY EntryFields
  <2>3. LocalsOK'
    BY <1>2, <2>1, <2>2 DEF Allocate, SetJob, Job, PC
  <2>4. WorkOK'
    BY <1>2 DEF Allocate, Work
  <2> QED BY <1>2, <2>3, <2>4 DEF Allocate
<1>3. CASE RelocateSave
  <2>1. ManifestOK' /\ LocalsOK'
    BY <1>3 DEF RelocateSave, PC
  <2> QED BY <1>3, <2>1 DEF RelocateSave
<1>4. CASE Download
  <2>1. LocalsOK'
    <3>1. Exported(job.cur, db[job.cur]) \in Tree
      BY <1>4, ExportedType, PartialValue DEF Download
    <3> QED BY <1>4, <3>1 DEF Download, Job, PC
  <2> QED BY <1>4, <2>1 DEF Download
<1>5. CASE DownloadFails
  <2>1. TrackerOK' /\ LocalsOK'
    BY <1>5, FailType DEF DownloadFails, Exporting
  <2>2. HistoryOK'
    BY <1>5, SpendType DEF DownloadFails, Kind
  <2> QED BY <1>5, <2>1, <2>2 DEF DownloadFails
<1>6. CASE ExportNoOp
  <2>1. job.cur \in DOMAIN q.snap /\ job.stage \in Tree
    BY <1>6 DEF ExportNoOp, Control, ListedOK, Exporting, Job
  <2>2. ManifestOK'
    BY <1>6, <2>1, RecordType DEF ExportNoOp
  <2>3. TrackerOK' /\ LocalsOK'
    BY <1>6, <2>1, ExportationType DEF ExportNoOp
  <2> QED BY <1>6, <2>2, <2>3 DEF ExportNoOp
<1>7. CASE ExportBlocked
  <2>1. TrackerOK' /\ LocalsOK'
    BY <1>7, FailType DEF ExportBlocked, Exporting
  <2> QED BY <1>7, <2>1 DEF ExportBlocked
<1>8. CASE ExportConflict
  <2>1. FolderOK'
    BY <1>8 DEF ExportConflict, Job
  <2>2. LocalsOK'
    <3>1. disk[job.rel] \in Tree
      BY <1>8, PartialValue DEF ExportConflict, Dirty, Guarded, Exists
    <3> QED BY <1>8, <3>1 DEF ExportConflict, Job, PC
  <2> QED BY <1>8, <2>1, <2>2 DEF ExportConflict
<1>9. CASE ExportRecord
  <2>1. job.cur \in DOMAIN q.snap /\ job.stage \in Tree
    BY <1>9 DEF ExportRecord, Control, ListedOK, Exporting, Job
  <2>2. ManifestOK'
    BY <1>9, <2>1, RecordType DEF ExportRecord
  <2>3. LocalsOK'
    BY <1>9 DEF ExportRecord, PC
  <2> QED BY <1>9, <2>2, <2>3 DEF ExportRecord
<1>10. CASE Swap
  <2>1. job.cur \in DOMAIN q.snap /\ job.rel \in Path /\ job.stage \in Tree
    BY <1>10 DEF Swap, Control, ListedOK, Exporting, Job
  <2>2. FolderOK'
    BY <1>10, <2>1, PutPartial DEF Swap
  <2>3. LoopOK'
    BY <1>10, <2>1, ArmType DEF Swap
  <2>4. TrackerOK' /\ LocalsOK'
    BY <1>10, <2>1, ExportationType DEF Swap
  <2> QED BY <1>10, <2>2, <2>3, <2>4 DEF Swap
<1> QED BY <1>1, <1>2, <1>3, <1>4, <1>5, <1>6, <1>7, <1>8, <1>9, <1>10 DEF ExportStep

-----------------------------------------------------------------------------
(* Control is kept.                                                        *)

\* Nothing outside the engine's task touches its control state, but a kill,
\* which clears it.
LEMMA EnvironmentControl ==
  ASSUME TypeOK, Control,
     DbChange \/ DiskChange \/ Crash \/ \E on \in BOOLEAN : SetPaused(on)
  PROVE  Control'
<1> USE DEF Control, ReturnsOK, ListedOK, TrackedOK, Working, Exporting, Pipe
<1>1. ASSUME NEW i \in Id, DbEdit(i)
      PROVE  Control'
  BY <1>1 DEF DbEdit
<1>2. ASSUME NEW i \in Id, DbTouch(i)
      PROVE  Control'
  BY <1>2 DEF DbTouch
<1>3. ASSUME NEW i \in Id, NEW n \in Name, DbRename(i, n)
      PROVE  Control'
  BY <1>3 DEF DbRename
<1>4. ASSUME NEW i \in Id, NEW n \in Name, DbCreate(i, n)
      PROVE  Control'
  BY <1>4 DEF DbCreate
<1>5. ASSUME NEW i \in Id, DbDelete(i)
      PROVE  Control'
  BY <1>5 DEF DbDelete
<1>6. CASE DbWipe
  BY <1>6 DEF DbWipe
<1>7. ASSUME NEW p \in Path, NEW ok \in BOOLEAN, DiskEdit(p, ok)
      PROVE  Control'
  BY <1>7 DEF DiskEdit
<1>8. ASSUME NEW p \in Path, DiskDelete(p)
      PROVE  Control'
  BY <1>8 DEF DiskDelete
<1>9. ASSUME NEW p \in Path, NEW n \in Name, DiskMove(p, n)
      PROVE  Control'
  BY <1>9 DEF DiskMove
<1>10. ASSUME NEW p \in Path, NEW n \in Name, DiskMoveUnseen(p, n)
      PROVE  Control'
  BY <1>10 DEF DiskMoveUnseen
<1>11. ASSUME NEW p \in Path, NEW n \in Name, DiskCopy(p, n)
      PROVE  Control'
  BY <1>11 DEF DiskCopy
<1>12. CASE Crash
  BY <1>12 DEF Crash, NoWork, Nothing
<1>13. ASSUME NEW on \in BOOLEAN, SetPaused(on)
      PROVE  Control'
  BY <1>13 DEF SetPaused
<1> QED BY <1>1, <1>2, <1>3, <1>4, <1>5, <1>6, <1>7, <1>8, <1>9, <1>10, <1>11, <1>12,
   <1>13 DEF DbChange, DiskChange

\* Reconcile enters and leaves its stages, and the import pipeline it calls,
\* with the work lists each stage expects.
LEMMA ReconcileControl ==
  ASSUME TypeOK, Control, Reconcile
  PROVE  Control'
<1> USE DEF Control, ReturnsOK, ListedOK, TrackedOK, Working, Exporting, Pipe
<1>1. CASE Start
  BY <1>1 DEF Start
<1>2. CASE Boot
  BY <1>2 DEF Boot
<1>3. CASE Snapshot
  BY <1>3 DEF Snapshot
<1>4. CASE SnapshotFails
  BY <1>4 DEF SnapshotFails
<1>5. ASSUME NEW moved \in SUBSET Id, Decide(moved)
      PROVE  Control'
  BY <1>5 DEF Decide, TypeOK, WorkOK, Work
<1>6. ASSUME NEW it \in q.imp, RecImport(it)
      PROVE  Control'
  BY <1>6, OwnerClaims DEF RecImport
<1>7. CASE RecSave
  BY <1>7 DEF RecSave
<1>8. CASE RecNoops
  BY <1>8 DEF RecNoops
<1>9. CASE Reseed
  BY <1>9 DEF Reseed
<1> QED BY <1>1, <1>2, <1>3, <1>4, <1>5, <1>6, <1>7, <1>8, <1>9 DEF Reconcile

\* The main loop starts a handler only when none is suspended.
LEMMA LoopControl ==
  ASSUME TypeOK, Control, Loop
  PROVE  Control'
<1> USE DEF Control, ReturnsOK, ListedOK, TrackedOK, Working, Exporting, Pipe
<1>1. CASE HandlePause
  BY <1>1 DEF HandlePause, ReloadManifest, RescanDisk
<1>2. ASSUME NEW due \in SUBSET Ripe, PollCycle(due)
      PROVE  Control'
  BY <1>2 DEF PollCycle, Ripe, Observed, Restrict, Partial, BackendOK
<1>3. CASE PollDone
  BY <1>3 DEF PollDone
<1>4. CASE Sweep
  BY <1>4 DEF Sweep
<1>5. ASSUME NEW due \in SUBSET Armed, TakeDue(due)
      PROVE  Control'
  BY <1>5 DEF TakeDue
<1>6. CASE FsDone
  BY <1>6 DEF FsDone
<1> QED BY <1>1, <1>2, <1>3, <1>4, <1>5, <1>6 DEF Loop

\* handle_fs_change passes a tracked id to the pipelines that need one.
LEMMA FsControl ==
  ASSUME TypeOK, Control, FsChange
  PROVE  Control'
<1> USE DEF Control, ReturnsOK, ListedOK, TrackedOK, Working, Exporting, Pipe
<1>1. ASSUME NEW op \in q.rekey, RekeyMirrored(op) \/ RekeyUnmirrored(op)
      PROVE  Control'
  BY <1>1
     DEF RekeyMirrored, RekeyUnmirrored, TypeOK, WorkOK, Work, Rekey, ManifestOK,
     Partial
<1>2. CASE RekeySave
  BY <1>2 DEF RekeySave
<1>3. ASSUME NEW p \in q.fs, FsGone(p)
      PROVE  Control'
  BY <1>3 DEF FsGone
<1>4. ASSUME NEW p \in q.fs, FsBroken(p)
      PROVE  Control'
  BY <1>4 DEF FsBroken
<1>5. ASSUME NEW p \in q.fs, FsHash(p)
      PROVE  Control'
  BY <1>5 DEF FsHash
<1>6. CASE FsRoute
  BY <1>6, OwnerClaims DEF FsRoute, TypeOK, LocalsOK, Job
<1>7. CASE Copy
  BY <1>7 DEF Copy
<1>8. CASE Zip
  BY <1>8 DEF Zip
<1>9. ASSUME NEW moved \in BOOLEAN, Fetch(moved)
      PROVE  Control'
  BY <1>9 DEF Fetch
<1> QED BY <1>1, <1>2, <1>3, <1>4, <1>5, <1>6, <1>7, <1>8, <1>9 DEF FsChange

\* The import pipelines return to the handler that called them.
LEMMA ImportControl ==
  ASSUME TypeOK, Control, ImportStep
  PROVE  Control'
<1> USE DEF Control, ReturnsOK, ListedOK, TrackedOK, Working, Exporting, Pipe
<1>1. CASE Import
  BY <1>1 DEF Import
<1>2. CASE InPlace
  BY <1>2 DEF InPlace, TypeOK, WorkOK, Work, Adopt, Settle, Put, Drop, Restrict
<1>3. CASE InPlaceFails
  BY <1>3 DEF InPlaceFails
<1>4. CASE Create
  BY <1>4 DEF Create
<1>5. CASE CreateFails
  BY <1>5 DEF CreateFails
<1>6. CASE Unshell
  BY <1>6 DEF Unshell
<1>7. ASSUME NEW i \in Id, AsNew(i)
      PROVE  Control'
  BY <1>7 DEF AsNew, TypeOK, WorkOK, Work, Adopt, Settle, Put, Drop, Restrict
<1>8. ASSUME NEW i \in Id, AsNewTwice(i)
      PROVE  Control'
  BY <1>8 DEF AsNewTwice
<1>9. CASE Finalize
  BY <1>9 DEF Finalize, Return
<1>10. CASE ImportFails
  BY <1>10 DEF ImportFails, Fail, Return
<1> QED BY <1>1, <1>2, <1>3, <1>4, <1>5, <1>6, <1>7, <1>8, <1>9, <1>10 DEF ImportStep

\* export_file works only on files of the listing it was given.
LEMMA ExportControl ==
  ASSUME TypeOK, Control, ExportStep
  PROVE  Control'
<1> USE DEF Control, ReturnsOK, ListedOK, TrackedOK, Working, Exporting, Pipe
<1>1. ASSUME NEW i \in q.exp, Relocate(i)
      PROVE  Control'
  BY <1>1 DEF Relocate, SetJob, Misplaced
<1>2. ASSUME NEW i \in q.exp, Allocate(i)
      PROVE  Control'
  BY <1>2 DEF Allocate, SetJob
<1>3. CASE RelocateSave
  BY <1>3 DEF RelocateSave
<1>4. CASE Download
  BY <1>4 DEF Download
<1>5. CASE DownloadFails
  BY <1>5 DEF DownloadFails, Fail, Return
<1>6. CASE ExportNoOp
  BY <1>6 DEF ExportNoOp, Exportation, Return
<1>7. CASE ExportBlocked
  BY <1>7 DEF ExportBlocked, Fail, Return
<1>8. CASE ExportConflict
  BY <1>8 DEF ExportConflict
<1>9. CASE ExportRecord
  BY <1>9 DEF ExportRecord
<1>10. CASE Swap
  BY <1>10 DEF Swap, Exportation, Return
<1> QED BY <1>1, <1>2, <1>3, <1>4, <1>5, <1>6, <1>7, <1>8, <1>9, <1>10 DEF ExportStep

-----------------------------------------------------------------------------
(* Paths stay unique.                                                      *)

\* plan_rekeys pairs each vanished entry with one unclaimed directory, and no
\* directory with two entries.
LEMMA RekeysUnique ==
  /\ \A op \in Rekeys : op[1] \in DOMAIN man /\ ~Claimed(op[2])
  /\ \A o1, o2 \in Rekeys : (o1[1] = o2[1] \/ o1[2] = o2[2]) => o1 = o2
<1>1. ASSUME NEW op \in Rekeys
      PROVE  op[1] \in DOMAIN man /\ ~Claimed(op[2])
  BY DEF Rekeys, Missing, Unclaimed
<1>2. ASSUME NEW o1 \in Rekeys, NEW o2 \in Rekeys, o1[1] = o2[1] \/ o1[2] = o2[2]
      PROVE  o1 = o2
  <2>1. o1[1] = o2[1] /\ o1[2] = o2[2]
    BY <1>2 DEF Rekeys
  <2> QED BY <2>1 DEF Rekeys
<1> QED BY <1>1, <1>2

\* The path a new file gets is claimed by no other: the first two rungs of the
\* ladder are looked at, the last is the theorem's hypothesis.
LEMMA WantedFree ==
  ASSUME LastRungFree, pc = "export", NEW i \in q.exp, i \notin DOMAIN man
  PROVE  ~Claimed(Wanted(i))
<1>1. ~Claimed(Rung(i, q.snap[i].name, 3))
  BY DEF LastRungFree
<1>2. ASSUME NEW p, ~Taken(i, p)
      PROVE  ~Claimed(p)
  BY <1>2 DEF Taken, Claimed
<1> QED BY <1>1, <1>2 DEF Wanted, Ladder

\* Nothing outside the engine's task claims a path.
LEMMA EnvironmentPaths ==
  ASSUME TypeOK, Control, PathInv, LastRungFree,
     DbChange \/ DiskChange \/ Crash \/ \E on \in BOOLEAN : SetPaused(on)
  PROVE  PathInv'
<1> USE DEF PathInv, UniquePaths, Injective, PlannedOK, PlacedOK, Claimed
<1>1. ASSUME NEW i \in Id, DbEdit(i)
      PROVE  PathInv'
  BY <1>1 DEF DbEdit
<1>2. ASSUME NEW i \in Id, DbTouch(i)
      PROVE  PathInv'
  BY <1>2 DEF DbTouch
<1>3. ASSUME NEW i \in Id, NEW n \in Name, DbRename(i, n)
      PROVE  PathInv'
  BY <1>3 DEF DbRename
<1>4. ASSUME NEW i \in Id, NEW n \in Name, DbCreate(i, n)
      PROVE  PathInv'
  BY <1>4 DEF DbCreate
<1>5. ASSUME NEW i \in Id, DbDelete(i)
      PROVE  PathInv'
  BY <1>5 DEF DbDelete
<1>6. CASE DbWipe
  BY <1>6 DEF DbWipe
<1>7. ASSUME NEW p \in Path, NEW ok \in BOOLEAN, DiskEdit(p, ok)
      PROVE  PathInv'
  BY <1>7 DEF DiskEdit
<1>8. ASSUME NEW p \in Path, DiskDelete(p)
      PROVE  PathInv'
  BY <1>8 DEF DiskDelete
<1>9. ASSUME NEW p \in Path, NEW n \in Name, DiskMove(p, n)
      PROVE  PathInv'
  BY <1>9 DEF DiskMove
<1>10. ASSUME NEW p \in Path, NEW n \in Name, DiskMoveUnseen(p, n)
      PROVE  PathInv'
  BY <1>10 DEF DiskMoveUnseen
<1>11. ASSUME NEW p \in Path, NEW n \in Name, DiskCopy(p, n)
      PROVE  PathInv'
  BY <1>11 DEF DiskCopy
<1>12. CASE Crash
  BY <1>12 DEF Crash, NoWork, Nothing
<1>13. ASSUME NEW on \in BOOLEAN, SetPaused(on)
      PROVE  PathInv'
  BY <1>13 DEF SetPaused
<1> QED BY <1>1, <1>2, <1>3, <1>4, <1>5, <1>6, <1>7, <1>8, <1>9, <1>10, <1>11, <1>12,
   <1>13 DEF DbChange, DiskChange

\* Reconcile imports as new only where nobody claims the directory.
LEMMA ReconcilePaths ==
  ASSUME TypeOK, Control, PathInv, LastRungFree, Reconcile
  PROVE  PathInv'
<1> USE DEF PathInv, UniquePaths, Injective, PlannedOK, PlacedOK, Claimed
<1>1. CASE Start
  BY <1>1 DEF Start
<1>2. CASE Boot
  BY <1>2, RekeysUnique DEF Boot
<1>3. CASE Snapshot
  BY <1>3 DEF Snapshot
<1>4. CASE SnapshotFails
  BY <1>4 DEF SnapshotFails
<1>5. ASSUME NEW moved \in SUBSET Id, Decide(moved)
      PROVE  PathInv'
  BY <1>5 DEF Decide, Drop, Restrict, TypeOK, WorkOK, Work
<1>6. ASSUME NEW it \in q.imp, RecImport(it)
      PROVE  PathInv'
  BY <1>6 DEF RecImport, Claimed
<1>7. CASE RecSave
  BY <1>7 DEF RecSave
<1>8. CASE RecNoops
  BY <1>8 DEF RecNoops
<1>9. CASE Reseed
  BY <1>9 DEF Reseed
<1> QED BY <1>1, <1>2, <1>3, <1>4, <1>5, <1>6, <1>7, <1>8, <1>9 DEF Reconcile

\* The main loop claims no path; a resume reloads the saved manifest.
LEMMA LoopPaths ==
  ASSUME TypeOK, Control, PathInv, LastRungFree, Loop
  PROVE  PathInv'
<1> USE DEF PathInv, UniquePaths, Injective, PlannedOK, PlacedOK, Claimed
<1>1. CASE HandlePause
  BY <1>1 DEF HandlePause, ReloadManifest, RescanDisk
<1>2. ASSUME NEW due \in SUBSET Ripe, PollCycle(due)
      PROVE  PathInv'
  BY <1>2 DEF PollCycle
<1>3. CASE PollDone
  BY <1>3 DEF PollDone
<1>4. CASE Sweep
  BY <1>4, RekeysUnique DEF Sweep
<1>5. ASSUME NEW due \in SUBSET Armed, TakeDue(due)
      PROVE  PathInv'
  BY <1>5 DEF TakeDue
<1>6. CASE FsDone
  BY <1>6 DEF FsDone
<1> QED BY <1>1, <1>2, <1>3, <1>4, <1>5, <1>6 DEF Loop

\* Re-keys planned together can be applied one after another.
LEMMA FsPaths ==
  ASSUME TypeOK, Control, PathInv, LastRungFree, FsChange
  PROVE  PathInv'
<1> USE DEF PathInv, UniquePaths, Injective, PlannedOK, PlacedOK, Claimed
<1>1. ASSUME NEW op \in q.rekey, RekeyMirrored(op) \/ RekeyUnmirrored(op)
      PROVE  PathInv'
  <2>1. Rekey(op)
    BY <1>1 DEF RekeyMirrored, RekeyUnmirrored
  <2>2. /\ DOMAIN man' = DOMAIN man
        /\ \A j \in DOMAIN man : man'[j].path = IF j = op[1] THEN op[2] ELSE man[j].path
    BY <2>1 DEF Rekey, TypeOK, ManifestOK, Partial, Entry
  <2>3. pc' = "rekey" /\ q'.rekey = q.rekey \ {op} /\ ledger' = ledger
    BY <2>1 DEF Rekey, TypeOK, WorkOK, Work
  <2>4. Injective(man)'
    BY <2>2
  <2>5. PlannedOK'
    BY <2>2, <2>3
  <2> QED BY <2>3, <2>4, <2>5
<1>2. CASE RekeySave
  BY <1>2 DEF RekeySave, Control, ReturnsOK, Exporting, Pipe
<1>3. ASSUME NEW p \in q.fs, FsGone(p)
      PROVE  PathInv'
  BY <1>3, RekeysUnique DEF FsGone
<1>4. ASSUME NEW p \in q.fs, FsBroken(p)
      PROVE  PathInv'
  BY <1>4 DEF FsBroken
<1>5. ASSUME NEW p \in q.fs, FsHash(p)
      PROVE  PathInv'
  BY <1>5, RekeysUnique DEF FsHash
<1>6. CASE FsRoute
  BY <1>6 DEF FsRoute
<1>7. CASE Copy
  BY <1>7 DEF Copy
<1>8. CASE Zip
  BY <1>8 DEF Zip
<1>9. ASSUME NEW moved \in BOOLEAN, Fetch(moved)
      PROVE  PathInv'
  BY <1>9 DEF Fetch
<1> QED BY <1>1, <1>2, <1>3, <1>4, <1>5, <1>6, <1>7, <1>8, <1>9 DEF FsChange

\* An import as new takes an unclaimed directory, or its entry's own.
LEMMA ImportPaths ==
  ASSUME TypeOK, Control, PathInv, LastRungFree, ImportStep
  PROVE  PathInv'
<1> USE DEF PathInv, UniquePaths, Injective, PlannedOK, PlacedOK, Claimed
<1>1. CASE Import
  BY <1>1 DEF Import
<1>2. CASE InPlace
  <2>1. job.cur \in DOMAIN man
    BY <1>2 DEF InPlace, Control, TrackedOK
  <2>2. /\ DOMAIN man' = DOMAIN man
        /\ \A j \in DOMAIN man : man'[j].path = man[j].path
    BY <1>2, <2>1
       DEF InPlace, Adopt, Put, Drop, Restrict, TypeOK, ManifestOK, Partial, Entry
  <2>3. q'.rekey = q.rekey /\ pc' \in {"finalize",
     "recImp"} /\ ledger' = ledger /\ pc # "rekey"
    BY <1>2 DEF InPlace, Settle, TypeOK, WorkOK, Work
  <2> QED BY <2>2, <2>3
<1>3. CASE InPlaceFails
  BY <1>3 DEF InPlaceFails
<1>4. CASE Create
  BY <1>4 DEF Create
<1>5. CASE CreateFails
  BY <1>5 DEF CreateFails
<1>6. CASE Unshell
  BY <1>6 DEF Unshell
<1>7. ASSUME NEW i \in Id, AsNew(i)
      PROVE  PathInv'
  <2>1. q'.rekey = q.rekey /\ pc' \in {"finalize",
     "recImp"} /\ ledger' = ledger /\ pc # "rekey"
    BY <1>7 DEF AsNew, Settle, TypeOK, WorkOK, Work
  <2>2. Injective(man)'
    <3>1. CASE pc = "asNew"
      <4>1. DOMAIN man' = DOMAIN man \cup {i}
        BY <1>7, <3>1 DEF AsNew, Put
      <4>2. \A j \in DOMAIN man' : man'[j].path = IF j = i THEN job.rel ELSE man[j].path
        BY <1>7, <3>1 DEF AsNew, Put
      <4> QED BY <3>1, <4>1, <4>2
    <3>2. CASE pc = "asNew2"
      <4>1. job.cur \in DOMAIN man
        BY <3>2 DEF Control, TrackedOK
      <4>2. DOMAIN man' = (DOMAIN man \ {job.cur}) \cup {i}
        BY <1>7, <3>2 DEF AsNew, Adopt, Put, Drop, Restrict
      <4>3. [man[job.cur] EXCEPT !.hash = job.seen].path = man[job.cur].path
        BY <4>1, PartialValue DEF TypeOK, ManifestOK, Entry
      <4>4. man'[i].path = man[job.cur].path
        BY <1>7, <3>2, <4>3 DEF AsNew, Adopt, Put
      <4>5. \A j \in DOMAIN man' \ {i} : man'[j] = man[j]
        <5>1. man' = Put(Drop(man, {job.cur}), i,
           [man[job.cur] EXCEPT !.hash = job.seen])
          BY <1>7, <3>2 DEF AsNew, Adopt
        <5>2. \A j \in DOMAIN man \ {job.cur} : Drop(man, {job.cur})[j] = man[j]
          BY DEF Drop, Restrict
        <5>3. \A j \in DOMAIN man' \ {i} : man'[j] = Drop(man, {job.cur})[j]
          BY <4>2, <5>1 DEF Put, Drop, Restrict
        <5> QED BY <4>2, <5>2, <5>3
      <4> QED BY <4>1, <4>2, <4>4, <4>5
    <3> QED BY <1>7, <3>1, <3>2 DEF AsNew
  <2> QED BY <2>1, <2>2
<1>8. ASSUME NEW i \in Id, AsNewTwice(i)
      PROVE  PathInv'
  BY <1>8 DEF AsNewTwice
<1>9. CASE Finalize
  <2>1. /\ DOMAIN man' = DOMAIN man
        /\ \A j \in DOMAIN man : man'[j].path = man[j].path
    <3>1. ASSUME job.cur \in DOMAIN man
          PROVE  [man[job.cur] EXCEPT !.stamp = db[job.cur].stamp,
                                      !.hash = job.seen].path = man[job.cur].path
      BY <3>1, PartialValue DEF TypeOK, ManifestOK, Entry
    <3> QED BY <1>9, <3>1 DEF Finalize
  <2>2. pc' = back /\ back \in {"fs",
     "export"} /\ pc = "finalize" /\ q' = q /\ ledger' = man'
    BY <1>9 DEF Finalize, Return, Control, ReturnsOK
  <2> QED BY <2>1, <2>2
<1>10. CASE ImportFails
  BY <1>10 DEF ImportFails, Fail, Return, Control, ReturnsOK, Exporting, Pipe
<1> QED BY <1>1, <1>2, <1>3, <1>4, <1>5, <1>6, <1>7, <1>8, <1>9, <1>10 DEF ImportStep

\* export_file relocates and allocates only to paths nobody claims.
LEMMA ExportPaths ==
  ASSUME TypeOK, Control, PathInv, LastRungFree, ExportStep
  PROVE  PathInv'
<1> USE DEF PathInv, UniquePaths, Injective, PlannedOK, PlacedOK, Claimed
<1>1. ASSUME NEW i \in q.exp, Relocate(i)
      PROVE  PathInv'
  <2>1. i \in DOMAIN man /\ \A j \in DOMAIN man \ {i} : man[j].path # Wanted(i)
    BY <1>1 DEF Relocate, Misplaced, Taken
  <2>2. /\ DOMAIN man' = DOMAIN man
        /\ \A j \in DOMAIN man : man'[j].path = IF j = i THEN Wanted(i) ELSE man[j].path
    BY <1>1 DEF Relocate, TypeOK, ManifestOK, Partial, Entry
  <2>3. /\ pc = "export" /\ pc' = "relocated" /\ q'.rekey = q.rekey
        /\ ledger' = ledger /\ job'.cur = i /\ job'.rel = Wanted(i)
    BY <1>1 DEF Relocate, SetJob, TypeOK, LocalsOK, WorkOK, Work, Job
  <2> QED BY <2>1, <2>2, <2>3
<1>2. ASSUME NEW i \in q.exp, Allocate(i)
      PROVE  PathInv'
  BY <1>2, WantedFree DEF Allocate, SetJob, Claimed
<1>3. CASE RelocateSave
  BY <1>3 DEF RelocateSave
<1>4. CASE Download
  BY <1>4 DEF Download
<1>5. CASE DownloadFails
  BY <1>5 DEF DownloadFails, Fail, Return, Control, ReturnsOK, Exporting, Pipe
<1>6. CASE ExportNoOp
  <2>1. job.cur \in DOMAIN man /\ man[job.cur].path = job.rel
    BY <1>6 DEF ExportNoOp, Guarded
  <2>2. /\ DOMAIN man' = DOMAIN man
        /\ \A j \in DOMAIN man : man'[j].path = man[j].path
    BY <1>6, <2>1 DEF ExportNoOp, Record, Put
  <2>3. pc' = back /\ back = "export" /\ pc = "guard" /\ q' = q /\ ledger' = man'
    BY <1>6 DEF ExportNoOp, Exportation, Return, Control, ReturnsOK, Exporting
  <2> QED BY <2>2, <2>3
<1>7. CASE ExportBlocked
  BY <1>7 DEF ExportBlocked, Fail, Return, Control, ReturnsOK, Exporting, Pipe
<1>8. CASE ExportConflict
  BY <1>8 DEF ExportConflict
<1>9. CASE ExportRecord
  BY <1>9 DEF ExportRecord, Record, Put, Claimed
<1>10. CASE Swap
  BY <1>10 DEF Swap, Exportation, Return, Control, ReturnsOK, Exporting, Pipe
<1> QED BY <1>1, <1>2, <1>3, <1>4, <1>5, <1>6, <1>7, <1>8, <1>9, <1>10 DEF ExportStep

-----------------------------------------------------------------------------
(* The theorems.                                                           *)

\* A vault in step, with the application closed, is typed ...
LEMMA InitTypes == Init => TypeOK
<1> SUFFICES ASSUME Init
             PROVE  TypeOK
  OBVIOUS
<1>1. Cardinality(DOMAIN Vault) \in Nat
  BY VaultAssumption, FS_CardinalityType
<1>2. ASSUME NEW i \in DOMAIN Vault
      PROVE  /\ i \in Id /\ Vault[i].name \in Name /\ Vault[i].ver \in Nat
             /\ <<Vault[i].name, Bare>> \in Path /\ Exported(i, Vault[i]) \in Tree
             /\ <<i, 1>> \in Stamp
  <2>1. i \in Id /\ Vault[i].name \in Name /\ Vault[i].ver \in Nat
    BY <1>1, VaultAssumption
  <2> QED BY <2>1, BarePath, StampType DEF Exported, Tree
<1>3. FolderOK
  <2>1. ASSUME NEW p \in DOMAIN disk
        PROVE  p \in Path /\ disk[p] \in Tree
    <3> DEFINE i == CHOOSE i \in DOMAIN Vault : Vault[i].name = p[1]
    <3>1. i \in DOMAIN Vault
      BY DEF Init
    <3>2. p \in Path
      BY <1>2 DEF Init
    <3>3. disk[p] = Exported(i, Vault[i])
      BY DEF Init
    <3> HIDE DEF i
    <3> QED BY <1>2, <3>1, <3>2, <3>3
  <2>2. Partial(disk, Path, Tree)
    BY <2>1 DEF Init, Partial
  <2> QED BY <2>2 DEF Init, FolderOK
<1>4. BackendOK
  BY <1>2 DEF Init, BackendOK, Partial, Row
<1>5. ManifestOK
  BY <1>2, NothingPartial DEF Init, ManifestOK, Partial, Entry
<1>6. TrackerOK /\ LoopOK
  BY NothingPartial DEF Init, TrackerOK, LoopOK
<1>7. LocalsOK
  BY NoJobType DEF Init, LocalsOK, PC
<1>8. WorkOK
  BY NoWorkType DEF Init, WorkOK
<1>9. HistoryOK
  BY <1>1 DEF Init, HistoryOK
<1> QED BY <1>3, <1>4, <1>5, <1>6, <1>7, <1>8, <1>9 DEF TypeOK

\* ... with no handler suspended ...
LEMMA InitControl == Init => Control
BY DEF Init, Control, ReturnsOK, ListedOK, TrackedOK, Exporting, Pipe, NoWork

\* ... and each of its files in a directory of its own.
LEMMA InitPaths == Init => PathInv
<1> SUFFICES ASSUME Init
             PROVE  PathInv
  OBVIOUS
<1>1. Injective(ledger)
  BY VaultAssumption DEF Init, Injective
<1>2. Injective(man)
  BY DEF Init, Nothing, Injective
<1> QED BY <1>1, <1>2 DEF PathInv, UniquePaths, PlannedOK, PlacedOK, Init, NoWork

\* Every state of the daemon, whatever people, network and kills do, is typed:
\* no handler meets an id its listing or the manifest does not have.
THEOREM Typing == Spec => []TypeOK
<1> DEFINE IInv == TypeOK /\ Control
<1>1. Init => IInv
  BY InitTypes, InitControl
<1>2. IInv /\ [Next]_vars => IInv'
  <2> SUFFICES ASSUME IInv, [Next]_vars
               PROVE  IInv'
    OBVIOUS
  <2>1. CASE Next
    BY <2>1, EnvironmentTypes, EnvironmentControl, ReconcileTypes, ReconcileControl,
       LoopTypes, LoopControl, FsTypes, FsControl, ImportTypes, ImportControl,
       ExportTypes, ExportControl DEF Next, Engine
  <2>2. CASE UNCHANGED vars
    BY <2>2
       DEF vars, TypeOK, FolderOK, BackendOK, ManifestOK, TrackerOK, LoopOK, LocalsOK,
       WorkOK, HistoryOK, Control, ReturnsOK, ListedOK, TrackedOK, Working, Partial
  <2> QED BY <2>1, <2>2
<1>3. IInv => TypeOK
  OBVIOUS
<1> QED BY <1>1, <1>2, <1>3, PTL DEF Spec

\* Two files never claim one directory, in the engine's manifest or in the
\* saved one, provided the unchecked rung of allocate_file_path is never taken.
THEOREM OneDirectoryEach == Spec /\ []LastRungFree => []UniquePaths
<1> DEFINE IInv == TypeOK /\ Control /\ PathInv
<1>1. Init => IInv
  BY InitTypes, InitControl, InitPaths
<1>2. IInv /\ LastRungFree /\ [Next]_vars => IInv'
  <2> SUFFICES ASSUME IInv, LastRungFree, [Next]_vars
               PROVE  IInv'
    OBVIOUS
  <2>1. CASE Next
    <3>1. PathInv'
      BY <2>1, EnvironmentPaths, ReconcilePaths, LoopPaths, FsPaths, ImportPaths,
         ExportPaths DEF Next, Engine
    <3>2. TypeOK' /\ Control'
      BY <2>1, EnvironmentTypes, EnvironmentControl, ReconcileTypes, ReconcileControl,
         LoopTypes, LoopControl, FsTypes, FsControl, ImportTypes, ImportControl,
         ExportTypes, ExportControl DEF Next, Engine
    <3> QED BY <3>1, <3>2
  <2>2. CASE UNCHANGED vars
    BY <2>2
       DEF vars, TypeOK, FolderOK, BackendOK, ManifestOK, TrackerOK, LoopOK, LocalsOK,
       WorkOK, HistoryOK, Control, ReturnsOK, ListedOK, TrackedOK, Working, Partial,
       PathInv, UniquePaths, PlannedOK, PlacedOK, Claimed
  <2> QED BY <2>1, <2>2
<1>3. IInv => UniquePaths
  BY DEF PathInv
<1> QED BY <1>1, <1>2, <1>3, PTL DEF Spec

-----------------------------------------------------------------------------
(* Who a directory's name belongs to: "unique by construction".            *)

\* The steps an in-place import falls back through, and its empty shell.
Fallback == {"direct", "create", "fill", "unshell"}
Shelled == {"fill", "unshell"}

\* Between the decision to import a row and the read-back of what it became.
Exposed == {"decide", "recImp", "direct", "create", "fill", "unshell", "asNew",
            "asNew2", "reseed", "guard", "copy", "zipOver", "zipIn", "import",
            "finalize"}

\* The process does not die between a relocation and its save, and the fallback's
\* calls fail only for what they are asked: a row that is there, an id that is held.
Firm ==
  /\ Windows["fault"] \cap {"direct", "create", "unshell"} = {}
  /\ "relocated" \notin Windows["crash"]

\* Besides, no directory is moved or copied, and no change falls between the
\* last look at a row and the import over it, or the last look at a directory
\* and the swap over it.  Nor does the process die there, or at an import's shell.
Steady ==
  /\ Firm /\ "fill" \notin Windows["fault"]
  /\ \A budget \in Budgets : budget["diskMove"] = 0 /\ budget["diskCopy"] = 0
  /\ \A k \in DbKind : Windows[k] \cap Exposed = {}
  /\ \A k \in {"diskEdit", "diskBreak", "diskDelete", "crash"} : "swap" \notin Windows[k]
  /\ Windows["crash"] \cap Shelled = {}

\* Directories whose name the engine chose, and every one where none is moved.
Kept == {p \in Path : p[2] # Bare \/ Steady}

\* The manifest has an entry for each of them, in memory and saved.
KeptOK ==
  /\ \A p \in DOMAIN disk \cap Kept :
       (\E i \in DOMAIN ledger : ledger[i].path = p) \/ (pc = "relocated" /\ p = job.rel)
  /\ pc # "down" => \A p \in DOMAIN disk \cap Kept : Claimed(p)

\* A place found to be nobody's is not one of them.
StrayOK ==
  /\ pc \in {"zipNew", "asNew"} => job.rel \notin Kept
  /\ \A op \in q.rekey :
       op[2] \notin Kept /\ (man[op[1]].path \in Kept => ~Exists(man[op[1]].path))
  /\ Steady => pc # "rekey"

\* The swap lands where the saved manifest says.
SwapOK ==
  pc \in {"relocated", "swap"} =>
    /\ job.cur \in DOMAIN man /\ man[job.cur].path = job.rel
    /\ pc = "swap" => ledger = man /\ man[job.cur].hash = job.stage

\* File j has left the database for good, and no listing in use has it.
Gone(j) ==
  /\ clock[j] > 0 /\ j \notin DOMAIN db /\ j \notin DOMAIN man /\ j \notin q.exp
  /\ pc = "decide" => j \notin DOMAIN q.snap
  /\ pc \in Exporting \ {"export"} => j # job.cur

\* A name with an id in it is that file's, or the file is gone.
Suffixed(p, j) == p[2] \in {<<j, "short">>, <<j, "full">>}
NamesOK ==
  /\ \A i \in DOMAIN man : \A j \in Id \ {i} : Suffixed(man[i].path, j) => Gone(j)
  /\ \A i \in DOMAIN ledger : \A j \in Id \ {i} :
       Suffixed(ledger[i].path, j) => Gone(j) /\ j \notin DOMAIN ledger
  /\ pc \in {"relocated", "download", "guard"} /\ job.cur \notin DOMAIN man =>
       \A j \in Id \ {job.cur} : ~Suffixed(job.rel, j)

\* What reconcile imports it does not export, and a file it gives up on has no
\* row, or a tree nobody can import.
Recovering == pc = "recImp" \/ (pc \in Pipe /\ back = "recImp")
ApartOK ==
  /\ q.imp # {} \/ q.dirty => Recovering
  /\ Recovering => \A it \in q.imp : \A i \in DOMAIN man :
       man[i].path = it.rel => i \notin q.exp
  /\ pc \in Pipe \ {"asNew"} /\ back = "recImp" => job.cur \notin q.exp
  /\ pc \in {"create", "asNew2"} => job.cur \notin DOMAIN db \/ ~job.stage.ok

\* Every id in use has been written: it is never handed out again.
UsedOK ==
  \A i \in DOMAIN man \cup DOMAIN ledger \cup DOMAIN db \cup DOMAIN q.snap : clock[i] > 0

LadderInv == KeptOK /\ StrayOK /\ SwapOK /\ NamesOK /\ ApartOK /\ UsedOK

\* An entry that import_in_place re-keys keeps its path and its stamp.
LEMMA AdoptEffect ==
  ASSUME TypeOK, job.cur \in DOMAIN man, NEW i \in Id, Adopt(i)
  PROVE  /\ DOMAIN man' = (DOMAIN man \ {job.cur}) \cup {i}
         /\ man'[i].path = man[job.cur].path /\ man'[i].stamp = man[job.cur].stamp
         /\ man'[i].hash = job.seen
         /\ \A j \in DOMAIN man \ {job.cur, i} : man'[j] = man[j]
         /\ job' = [job EXCEPT !.cur = i] /\ job'.cur = i /\ job'.rel = job.rel
         /\ job'.seen = job.seen /\ job'.stage = job.stage
<1> DEFINE e == [man[job.cur] EXCEPT !.hash = job.seen]
           rest == Drop(man, {job.cur})
<1>1. e.path = man[job.cur].path /\ e.stamp = man[job.cur].stamp /\ e.hash = job.seen
  BY PartialValue DEF TypeOK, ManifestOK, Entry
<1>2. man' = Put(rest, i, e)
  BY DEF Adopt
<1>3. DOMAIN rest = DOMAIN man \ {job.cur} /\ \A j \in DOMAIN rest : rest[j] = man[j]
  BY DEF Drop, Restrict
<1>4. job' = [job EXCEPT !.cur = i]
  BY DEF Adopt
<1>5. /\ job'.cur = i /\ job'.rel = job.rel
      /\ job'.seen = job.seen /\ job'.stage = job.stage
  BY <1>4 DEF TypeOK, LocalsOK, Job
<1> HIDE DEF e, rest
<1>6. /\ DOMAIN man' = DOMAIN rest \cup {i} /\ man'[i] = e
      /\ \A j \in DOMAIN rest \ {i} : man'[j] = rest[j]
  BY <1>2 DEF Put
<1> QED BY <1>1, <1>3, <1>4, <1>5, <1>6

\* A write to a row counts, and makes no other row.
LEMMA WriteEffect ==
  ASSUME TypeOK, NEW i \in Id, NEW v, NEW n, Write(i, v, n)
  PROVE  /\ DOMAIN db' = DOMAIN db \cup {i} /\ held' = held
         /\ clock' \in [Id -> Nat] /\ clock'[i] = clock[i] + 1
         /\ \A j \in Id \ {i} : clock'[j] = clock[j]
         /\ db'[i] = [ver |-> v, name |-> n, stamp |-> <<i, clock[i] + 1>>]
         /\ \A j \in DOMAIN db \ {i} : db'[j] = db[j]
BY DEF Put, Write, TypeOK, BackendOK

\* An event happens where the windows and the budgets let it.
LEMMA SpendEffect ==
  ASSUME TypeOK, NEW k \in Kind, Spend(k)
  PROVE  pc \in Windows[k] /\ \E budget \in Budgets : budget[k] # 0
<1>1. PICK budget \in Budgets : spent'[k] <= budget[k]
  BY DEF Spend
<1>2. spent'[k] = spent[k] + 1 /\ spent[k] \in Nat
  BY DEF Spend, TypeOK, HistoryOK
<1>3. budget[k] \in Nat
  BY EnvironmentAssumption
<1>4. budget[k] # 0
  BY <1>1, <1>2, <1>3
<1> QED BY <1>4 DEF Spend

\* People who work in the database give no file that is gone a row again.
LEMMA DbFrame ==
  ASSUME TypeOK, DbChange
  PROVE  /\ disk' = disk /\ copies' = copies /\ ledger' = ledger /\ man' = man
         /\ pc' = pc /\ polling' = polling /\ back' = back /\ job' = job /\ q' = q
         /\ \A j \in Id : clock[j] > 0 => clock'[j] > 0
         /\ \A j \in Id : clock[j] > 0 /\ j \notin DOMAIN db => j \notin DOMAIN db'
         /\ \A j \in DOMAIN db' : j \in DOMAIN db \/ clock'[j] > 0
<1> DEFINE Held == /\ \A j \in Id : clock[j] > 0 => clock'[j] > 0
                   /\ \A j \in Id : clock[j] > 0 /\ j \notin DOMAIN db => j \notin DOMAIN db'
                   /\ \A j \in DOMAIN db' : j \in DOMAIN db \/ clock'[j] > 0
<1>1. ASSUME NEW i \in Id, NEW v, NEW n, Write(i, v, n), i \in DOMAIN db \cup Fresh
      PROVE  Held
  <2>1. \A j \in Id : clock[j] \in Nat
    BY DEF TypeOK, BackendOK
  <2>2. i \in DOMAIN db \/ clock[i] = 0
    BY <1>1 DEF Fresh
  <2>3. /\ DOMAIN db' = DOMAIN db \cup {i} /\ clock'[i] = clock[i] + 1
        /\ \A j \in Id \ {i} : clock'[j] = clock[j]
    BY <1>1, WriteEffect
  <2>4. clock'[i] > 0
    BY <2>1, <2>3
  <2>5. DOMAIN db \subseteq Id
    BY DEF TypeOK, BackendOK, Partial
  <2> QED BY <2>1, <2>2, <2>3, <2>4, <2>5
<1>2. ASSUME NEW S, db' = Drop(db, S) \/ db' = Nothing, clock' = clock
      PROVE  Held
  BY <1>2 DEF Drop, Restrict, Nothing
<1>3. ASSUME NEW i \in Id, DbEdit(i) \/ DbTouch(i)
      PROVE  Held
  BY <1>1, <1>3 DEF DbEdit, DbTouch
<1>4. ASSUME NEW i \in Id, NEW n \in Name, DbRename(i, n) \/ DbCreate(i, n)
      PROVE  Held
  BY <1>1, <1>4 DEF DbRename, DbCreate
<1>5. ASSUME NEW i \in Id, DbDelete(i)
      PROVE  Held
  BY <1>2, <1>5 DEF DbDelete
<1>6. CASE DbWipe
  BY <1>2, <1>6 DEF DbWipe
<1>7. Held
  BY <1>3, <1>4, <1>5, <1>6 DEF DbChange
<1> HIDE DEF Held
<1>8. /\ disk' = disk /\ copies' = copies /\ ledger' = ledger /\ man' = man
      /\ pc' = pc /\ polling' = polling /\ back' = back /\ job' = job /\ q' = q
  BY DEF DbChange, DbEdit, DbTouch, DbRename, DbCreate, DbDelete, DbWipe
<1> QED BY <1>7, <1>8 DEF Held

\* People who work in the folder make no directory under a name of the engine's
\* choice; where none is moved or copied they make none at all.
LEMMA DiskFrame ==
  ASSUME TypeOK, DiskChange
  PROVE  /\ copies' = copies /\ ledger' = ledger /\ man' = man /\ UNCHANGED backend
         /\ pc' = pc /\ polling' = polling /\ back' = back /\ job' = job /\ q' = q
         /\ DOMAIN disk' \cap Kept \subseteq DOMAIN disk
<1>1. ASSUME NEW p \in Path, NEW ok \in BOOLEAN, DiskEdit(p, ok)
      PROVE  DOMAIN disk' = DOMAIN disk
  BY <1>1 DEF DiskEdit
<1>2. ASSUME NEW p \in Path, DiskDelete(p)
      PROVE  DOMAIN disk' \subseteq DOMAIN disk
  BY <1>2, <1>2 DEF Drop, Restrict, DiskDelete
<1>3. ASSUME NEW p \in Path, NEW n \in Name,
             DiskMove(p, n) \/ DiskMoveUnseen(p, n) \/ DiskCopy(p, n)
      PROVE  ~Steady /\ DOMAIN disk' \subseteq DOMAIN disk \cup {<<n, Bare>>}
  <2>1. (\E budget \in Budgets : budget["diskMove"] # 0)
          \/ \E budget \in Budgets : budget["diskCopy"] # 0
    BY <1>3, SpendEffect DEF DiskMove, DiskMoveUnseen, DiskCopy, Kind
  <2>2. ~Steady
    BY <2>1 DEF Steady
  <2> QED BY <1>3, <2>2, <2>2 DEF Put, Drop, Restrict, DiskMove, DiskMoveUnseen, DiskCopy
<1>4. DOMAIN disk' \cap Kept \subseteq DOMAIN disk
  BY <1>1, <1>2, <1>3 DEF DiskChange, Kept
<1>5. /\ copies' = copies /\ ledger' = ledger /\ man' = man /\ UNCHANGED backend
      /\ pc' = pc /\ polling' = polling /\ back' = back /\ job' = job /\ q' = q
  BY DEF DiskChange, DiskEdit, DiskDelete, DiskMove, DiskMoveUnseen, DiskCopy
<1> QED BY <1>4, <1>5

\* What is done outside the engine's task puts no directory on a name of the
\* engine's choice, and gives nobody's file a row.
LEMMA EnvironmentLadder ==
  ASSUME TypeOK, Control, PathInv, LadderInv, Firm,
     DbChange \/ DiskChange \/ Crash \/ \E on \in BOOLEAN : SetPaused(on)
  PROVE  LadderInv'
<1>1. CASE DbChange
  <2>1. /\ disk' = disk /\ copies' = copies /\ ledger' = ledger /\ man' = man
        /\ pc' = pc /\ polling' = polling /\ back' = back /\ job' = job /\ q' = q
        /\ \A j \in Id : clock[j] > 0 => clock'[j] > 0
        /\ \A j \in Id : clock[j] > 0 /\ j \notin DOMAIN db => j \notin DOMAIN db'
        /\ \A j \in DOMAIN db' : j \in DOMAIN db \/ clock'[j] > 0
    BY <1>1, DbFrame
  <2>2. DOMAIN man \subseteq Id /\ DOMAIN ledger \subseteq Id /\ DOMAIN db \subseteq Id
        /\ DOMAIN q.snap \subseteq Id
    BY DEF TypeOK, ManifestOK, BackendOK, WorkOK, Partial
  <2>3. KeptOK' /\ StrayOK' /\ SwapOK'
    BY <2>1 DEF LadderInv, KeptOK, StrayOK, SwapOK, Claimed, Exists
  <2>4. NamesOK'
    <3>1. \A j \in Id : Gone(j) => Gone(j)'
      BY <2>1 DEF Gone
    <3> QED BY <2>1, <3>1 DEF LadderInv, NamesOK, Suffixed
  <2>5. ApartOK'
    <3>1. pc \in {"create", "asNew2"} => job.cur \in Id /\ clock[job.cur] > 0
      BY <2>2 DEF LadderInv, UsedOK, Control, TrackedOK
    <3> QED BY <2>1, <3>1 DEF LadderInv, ApartOK, Recovering
  <2>6. UsedOK'
    BY <2>1, <2>2 DEF LadderInv, UsedOK
  <2> QED BY <2>3, <2>4, <2>5, <2>6 DEF LadderInv
<1>2. CASE DiskChange
  <2>1. /\ copies' = copies /\ ledger' = ledger /\ man' = man /\ UNCHANGED backend
        /\ pc' = pc /\ polling' = polling /\ back' = back /\ job' = job /\ q' = q
        /\ DOMAIN disk' \cap Kept \subseteq DOMAIN disk
    BY <1>2, DiskFrame
  <2>2. KeptOK' /\ SwapOK'
    BY <2>1 DEF LadderInv, KeptOK, SwapOK, Claimed
  <2>3. StrayOK'
    BY <2>1 DEF LadderInv, StrayOK, Exists
  <2>4. NamesOK' /\ ApartOK' /\ UsedOK'
    BY <2>1 DEF LadderInv, NamesOK, Gone, Suffixed, ApartOK, Recovering, UsedOK
  <2> QED BY <2>2, <2>3, <2>4 DEF LadderInv
<1>3. CASE Crash
  <2>1. pc # "relocated"
    BY <1>3, SpendEffect DEF Firm, Crash, Kind
  <2>2. KeptOK' /\ StrayOK' /\ SwapOK'
    BY <1>3, <2>1 DEF LadderInv, KeptOK, StrayOK, SwapOK, Crash, NoWork
  <2>3. NamesOK'
    <3>1. \A j \in Id : Gone(j) => Gone(j)'
      BY <1>3 DEF Gone, Crash, NoWork, Nothing, Exporting
    <3> QED BY <1>3, <3>1 DEF LadderInv, NamesOK, Suffixed, Crash, Nothing
  <2>4. ApartOK' /\ UsedOK'
    BY <1>3 DEF LadderInv, ApartOK, UsedOK, Recovering, Crash, NoWork, Nothing, Pipe
  <2> QED BY <2>2, <2>3, <2>4 DEF LadderInv
<1>4. ASSUME NEW on \in BOOLEAN, SetPaused(on)
      PROVE  LadderInv'
  BY <1>4 DEF SetPaused, LadderInv, KeptOK, StrayOK, SwapOK, NamesOK, Gone, Suffixed,
     ApartOK, Recovering, UsedOK, Claimed, Exists
<1> QED BY <1>1, <1>2, <1>3, <1>4

\* plan_rekeys never gives away a name of the engine's choice.
LEMMA RekeysStray ==
  ASSUME TypeOK, KeptOK, pc # "down"
  PROVE  /\ \A op \in Rekeys : op[2] \notin Kept /\ ~Exists(man[op[1]].path)
         /\ Steady => Rekeys = {}
<1>1. \A p \in Unclaimed : p \in Path /\ p \notin Kept
  BY DEF KeptOK, Unclaimed, TypeOK, FolderOK, Partial
<1>2. Steady => Unclaimed = {}
  BY <1>1 DEF Kept
<1>3. \A op \in Rekeys : op[1] \in Missing /\ op[2] \in Unclaimed
  BY DEF Rekeys
<1> QED BY <1>1, <1>2, <1>3 DEF Missing

\* Reconcile loads the saved manifest, forgets only entries with no directory,
\* and does not export what it imports.
LEMMA ReconcileLadder ==
  ASSUME TypeOK, Control, PathInv, LadderInv, Firm, Reconcile
  PROVE  LadderInv'
<1> USE DEF LadderInv
<1>1. CASE Start
  <2>1. /\ man' = ledger /\ ledger' = ledger /\ pc = "down" /\ pc' = "boot" /\ q' = q
        /\ UNCHANGED <<disk, db, clock, job, back>>
    BY <1>1 DEF Start
  <2>2. KeptOK' /\ StrayOK' /\ SwapOK'
    BY <2>1 DEF KeptOK, StrayOK, SwapOK, Claimed, PathInv, PlannedOK
  <2>3. NamesOK'
    BY <2>1 DEF NamesOK, Gone, Suffixed, Exporting
  <2>4. ApartOK' /\ UsedOK'
    BY <2>1 DEF ApartOK, UsedOK, Recovering, Pipe
  <2> QED BY <2>2, <2>3, <2>4
<1>2. CASE Boot
  <2>1. /\ UNCHANGED <<disk, ledger, man, db, clock, job>> /\ pc = "boot"
        /\ pc' = IF Rekeys = {} THEN "snap" ELSE "rekey"
        /\ q'.rekey = Rekeys /\ q'.exp = q.exp /\ q'.imp = q.imp /\ q'.dirty = q.dirty
        /\ q'.snap = q.snap
    BY <1>2 DEF Boot, TypeOK, WorkOK, Work
  <2>2. KeptOK' /\ SwapOK'
    BY <2>1 DEF KeptOK, SwapOK, Claimed
  <2>3. StrayOK'
    BY <2>1, RekeysStray DEF StrayOK, Exists
  <2>4. NamesOK' /\ ApartOK' /\ UsedOK'
    BY <2>1 DEF NamesOK, Gone, Suffixed, Exporting, ApartOK, UsedOK, Recovering, Pipe
  <2> QED BY <2>2, <2>3, <2>4
<1>3. CASE Snapshot
  <2>1. /\ UNCHANGED <<disk, ledger, man, db, clock, job>> /\ pc = "snap" /\ pc' = "decide"
        /\ q'.rekey = q.rekey /\ q'.exp = q.exp /\ q'.imp = q.imp /\ q'.dirty = q.dirty
        /\ q'.snap = db
    BY <1>3 DEF Snapshot, TypeOK, WorkOK, Work
  <2>2. KeptOK' /\ StrayOK' /\ SwapOK'
    BY <2>1 DEF KeptOK, StrayOK, SwapOK, Claimed, Exists
  <2>3. NamesOK' /\ ApartOK' /\ UsedOK'
    BY <2>1 DEF NamesOK, Gone, Suffixed, Exporting, ApartOK, UsedOK, Recovering, Pipe
  <2> QED BY <2>2, <2>3
<1>4. CASE SnapshotFails
  <2>1. /\ UNCHANGED <<disk, ledger, man, db, clock, job>>
        /\ pc \in {"snap", "reseed"} /\ pc' = "boot"
        /\ q'.rekey = q.rekey /\ q'.exp = q.exp /\ q'.imp = q.imp /\ q'.dirty = q.dirty
        /\ q'.snap = Nothing
    BY <1>4 DEF SnapshotFails, TypeOK, WorkOK, Work
  <2>2. KeptOK' /\ StrayOK' /\ SwapOK'
    BY <2>1 DEF KeptOK, StrayOK, SwapOK, Claimed, Exists
  <2>3. NamesOK' /\ ApartOK' /\ UsedOK'
    BY <2>1 DEF NamesOK, Gone, Suffixed, Exporting, ApartOK, UsedOK, Recovering, Pipe,
       Nothing
  <2> QED BY <2>2, <2>3
<1>5. ASSUME NEW moved \in SUBSET Id, Decide(moved)
      PROVE  LadderInv'
  <2> DEFINE live == {i \in DOMAIN man : Exists(man[i].path) => disk[man[i].path].ok}
             Moved(i) == IF man[i].stamp = NoStamp THEN i \in moved
                         ELSE q.snap[i].stamp # man[i].stamp
             listed == live \cap DOMAIN q.snap
             noop == {i \in listed : Clean(i) /\ ~Moved(i)}
             export == {i \in listed : ~Exists(man[i].path) \/ Moved(i)}
             import == {i \in live \ (noop \cup export) : Exists(man[i].path)}
             forget == live \ (noop \cup export \cup import)
             Item(p) == [rel |-> p, seen |-> disk[p]]
             imp == {Item(man[i].path) : i \in import} \cup {Item(p) : p \in Unclaimed}
             exp == export \cup (DOMAIN q.snap \ DOMAIN man)
  <2>1. /\ UNCHANGED <<disk, ledger, db, clock, job>> /\ pc = "decide" /\ pc' = "recImp"
        /\ man' = Drop(man, forget)
        /\ q'.rekey = q.rekey /\ q'.exp = exp /\ q'.imp = imp
        /\ q'.dirty = (forget # {}) /\ q'.snap = q.snap
    BY <1>5 DEF Decide, TypeOK, WorkOK, Work
  <2>2. \A i \in forget : ~Exists(man[i].path)
    OBVIOUS
  <2>3. exp \subseteq DOMAIN q.snap
    OBVIOUS
  <2>4. \A i \in import : i \in DOMAIN man /\ i \notin exp
    OBVIOUS
  <2>5. \A it \in imp : (\E i \in import : it.rel = man[i].path) \/ ~Claimed(it.rel)
    BY DEF Unclaimed
  <2> HIDE DEF exp, imp, import, forget
  <2>6. /\ DOMAIN man' = DOMAIN man \ forget
        /\ \A i \in DOMAIN man' : man'[i] = man[i]
    BY <2>1 DEF Drop, Restrict
  <2>7. KeptOK' /\ StrayOK' /\ SwapOK'
    <3>1. KeptOK'
      BY <2>1, <2>2, <2>6 DEF KeptOK, Claimed, Exists
    <3> QED BY <2>1, <3>1 DEF StrayOK, SwapOK, PathInv, PlannedOK
  <2>8. NamesOK'
    <3>1. \A j \in Id : Gone(j) => Gone(j)'
      BY <2>1, <2>3, <2>6 DEF Gone, Exporting
    <3> QED BY <2>1, <2>6, <3>1 DEF NamesOK, Suffixed
  <2>9. ApartOK'
    <3>1. \A it \in imp : \A i \in DOMAIN man : man[i].path = it.rel => i \notin exp
      BY <2>4, <2>5 DEF PathInv, UniquePaths, Injective, Claimed
    <3> QED BY <2>1, <2>6, <3>1 DEF ApartOK, Recovering, Pipe
  <2>10. UsedOK'
    BY <2>1, <2>6 DEF UsedOK
  <2> QED BY <2>7, <2>8, <2>9, <2>10
<1>6. ASSUME NEW it \in q.imp, RecImport(it)
      PROVE  LadderInv'
  <2> DEFINE p == it.rel
             valid == Exists(p) /\ disk[p].ok /\ (Claimed(p) => disk[p].id = Owner(p))
  <2>1. /\ UNCHANGED <<disk, ledger, man, db, clock>> /\ pc = "recImp"
        /\ q'.rekey = q.rekey /\ q'.exp = q.exp /\ q'.imp = q.imp \ {it}
        /\ q'.dirty = q.dirty /\ q'.snap = q.snap
    BY <1>6 DEF RecImport, TypeOK, WorkOK, Work
  <2>2. CASE ~valid
    <3>1. UNCHANGED <<pc, back, job>>
      BY <1>6, <2>2 DEF RecImport
    <3>2. KeptOK' /\ StrayOK' /\ SwapOK'
      BY <2>1, <3>1 DEF KeptOK, StrayOK, SwapOK, Claimed, Exists
    <3>3. NamesOK' /\ ApartOK' /\ UsedOK'
      BY <2>1, <3>1 DEF NamesOK, Gone, Suffixed, Exporting, ApartOK, UsedOK, Recovering, Pipe
    <3> QED BY <3>2, <3>3
  <2>3. CASE valid
    <3>1. /\ back' = "recImp" /\ pc' = IF Claimed(p) THEN "direct" ELSE "asNew"
          /\ job'.rel = p /\ (Claimed(p) => job'.cur = Owner(p))
      BY <1>6, <2>3 DEF RecImport
    <3>2. KeptOK' /\ SwapOK'
      BY <2>1, <3>1 DEF KeptOK, SwapOK, Claimed
    <3>3. StrayOK'
      BY <2>1, <2>3, <3>1 DEF StrayOK, KeptOK, PathInv, PlannedOK, Claimed, Exists
    <3>4. NamesOK' /\ UsedOK'
      BY <2>1, <3>1 DEF NamesOK, Gone, Suffixed, Exporting, UsedOK
    <3>5. ApartOK'
      BY <2>1, <3>1, OwnerClaims DEF ApartOK, Recovering, Pipe
    <3> QED BY <3>2, <3>3, <3>4, <3>5
  <2> QED BY <2>2, <2>3
<1>7. CASE RecSave
  <2>1. /\ UNCHANGED <<disk, man, db, clock, job>> /\ pc = "recImp" /\ pc' = "export"
        /\ ledger' = (IF q.dirty THEN man ELSE ledger) /\ q.imp = {}
        /\ q'.rekey = q.rekey /\ q'.exp = q.exp /\ q'.imp = q.imp /\ q'.dirty = FALSE
        /\ q'.snap = q.snap
    BY <1>7 DEF RecSave, TypeOK, WorkOK, Work
  <2>2. KeptOK' /\ StrayOK' /\ SwapOK'
    BY <2>1 DEF KeptOK, StrayOK, SwapOK, Claimed, Exists
  <2>3. NamesOK'
    <3>1. \A j \in Id : Gone(j) => Gone(j)' /\ j \notin DOMAIN man
      BY <2>1 DEF Gone, Exporting
    <3> QED BY <2>1, <3>1 DEF NamesOK, Suffixed
  <2>4. ApartOK' /\ UsedOK'
    BY <2>1 DEF ApartOK, UsedOK, Recovering, Pipe
  <2> QED BY <2>2, <2>3, <2>4
<1>8. CASE RecNoops
  <2>1. /\ UNCHANGED <<disk, ledger, man, db, clock, job>> /\ pc = "export"
        /\ pc' \in {"idle", "reseed"} /\ q'.snap = Nothing
        /\ q'.rekey = q.rekey /\ q'.exp = q.exp /\ q'.imp = q.imp /\ q'.dirty = q.dirty
    BY <1>8 DEF RecNoops, TypeOK, WorkOK, Work
  <2>2. KeptOK' /\ StrayOK' /\ SwapOK'
    BY <2>1 DEF KeptOK, StrayOK, SwapOK, Claimed, Exists
  <2>3. NamesOK' /\ ApartOK' /\ UsedOK'
    BY <2>1 DEF NamesOK, Gone, Suffixed, Exporting, ApartOK, UsedOK, Recovering, Pipe,
       Nothing
  <2> QED BY <2>2, <2>3
<1>9. CASE Reseed
  <2>1. /\ UNCHANGED <<disk, db, clock, job>> /\ pc = "reseed" /\ pc' = "idle"
        /\ ledger' \in {ledger, man'}
        /\ q'.rekey = q.rekey /\ q'.exp = q.exp /\ q'.imp = q.imp /\ q'.dirty = q.dirty
        /\ q'.snap = q.snap
    BY <1>9 DEF Reseed, TypeOK, WorkOK, Work
  <2>2. DOMAIN man' = DOMAIN man /\ \A i \in DOMAIN man : man'[i].path = man[i].path
    <3>1. \A i \in DOMAIN man : [man[i] EXCEPT !.stamp = db[i].stamp].path = man[i].path
      BY PartialValue DEF TypeOK, ManifestOK, Entry
    <3> QED BY <1>9, <3>1 DEF Reseed
  <2>3. KeptOK' /\ StrayOK' /\ SwapOK'
    BY <2>1, <2>2 DEF KeptOK, StrayOK, SwapOK, Claimed, PathInv, PlannedOK
  <2>4. NamesOK'
    <3>1. \A j \in Id : Gone(j) => Gone(j)' /\ j \notin DOMAIN man'
      BY <2>1, <2>2 DEF Gone, Exporting
    <3> QED BY <2>1, <2>2, <3>1 DEF NamesOK, Suffixed
  <2>5. ApartOK' /\ UsedOK'
    BY <2>1, <2>2 DEF ApartOK, UsedOK, Recovering, Pipe
  <2> QED BY <2>3, <2>4, <2>5
<1> QED BY <1>1, <1>2, <1>3, <1>4, <1>5, <1>6, <1>7, <1>8, <1>9 DEF Reconcile

\* The main loop takes up only files that have a row; a resume reloads the
\* saved manifest.
LEMMA LoopLadder ==
  ASSUME TypeOK, Control, PathInv, LadderInv, Firm, Loop
  PROVE  LadderInv'
<1> USE DEF LadderInv
<1>1. CASE HandlePause
  <2>1. /\ UNCHANGED <<disk, ledger, db, clock, job, pc, back, q>> /\ pc = "idle"
        /\ man' \in {man, ledger}
    BY <1>1 DEF HandlePause, ReloadManifest
  <2>2. KeptOK' /\ StrayOK' /\ SwapOK'
    BY <2>1 DEF KeptOK, StrayOK, SwapOK, Claimed, Exists, PathInv, PlannedOK
  <2>3. NamesOK'
    BY <2>1 DEF NamesOK, Gone, Suffixed, Exporting
  <2>4. ApartOK' /\ UsedOK'
    BY <2>1 DEF ApartOK, UsedOK, Recovering, Pipe
  <2> QED BY <2>2, <2>3, <2>4
<1>2. ASSUME NEW due \in SUBSET Ripe, PollCycle(due)
      PROVE  LadderInv'
  <2>1. /\ UNCHANGED <<disk, ledger, man, db, clock, job>> /\ pc = "idle"
        /\ pc' \in {"idle", "export"} /\ q'.snap = Restrict(db, due)
        /\ q'.rekey = q.rekey /\ q'.exp = due /\ q'.imp = q.imp /\ q'.dirty = q.dirty
    BY <1>2 DEF PollCycle, TypeOK, WorkOK, Work
  <2>2. due \subseteq DOMAIN db /\ DOMAIN q'.snap \subseteq DOMAIN db
    BY <2>1 DEF Ripe, Observed, Restrict
  <2>3. KeptOK' /\ StrayOK' /\ SwapOK'
    BY <2>1 DEF KeptOK, StrayOK, SwapOK, Claimed, Exists
  <2>4. NamesOK' /\ ApartOK' /\ UsedOK'
    BY <2>1, <2>2 DEF NamesOK, Gone, Suffixed, Exporting, ApartOK, UsedOK, Recovering,
       Pipe
  <2> QED BY <2>3, <2>4
<1>3. CASE PollDone
  <2>1. /\ UNCHANGED <<disk, ledger, man, db, clock, job>> /\ pc = "export" /\ pc' = "idle"
        /\ q'.snap = Nothing
        /\ q'.rekey = q.rekey /\ q'.exp = q.exp /\ q'.imp = q.imp /\ q'.dirty = q.dirty
    BY <1>3 DEF PollDone, TypeOK, WorkOK, Work
  <2>2. KeptOK' /\ StrayOK' /\ SwapOK'
    BY <2>1 DEF KeptOK, StrayOK, SwapOK, Claimed, Exists
  <2>3. NamesOK' /\ ApartOK' /\ UsedOK'
    BY <2>1 DEF NamesOK, Gone, Suffixed, Exporting, ApartOK, UsedOK, Recovering, Pipe,
       Nothing
  <2> QED BY <2>2, <2>3
<1>4. CASE Sweep
  <2>1. /\ UNCHANGED <<disk, ledger, man, db, clock, job>> /\ pc = "idle"
        /\ pc' = IF Rekeys = {} THEN "swept" ELSE "rekey"
        /\ q'.rekey = Rekeys /\ q'.exp = q.exp /\ q'.imp = q.imp /\ q'.dirty = q.dirty
        /\ q'.snap = q.snap
    BY <1>4 DEF Sweep, TypeOK, WorkOK, Work
  <2>2. KeptOK' /\ SwapOK'
    BY <2>1 DEF KeptOK, SwapOK, Claimed
  <2>3. StrayOK'
    BY <2>1, RekeysStray DEF StrayOK, Exists
  <2>4. NamesOK' /\ ApartOK' /\ UsedOK'
    BY <2>1 DEF NamesOK, Gone, Suffixed, Exporting, ApartOK, UsedOK, Recovering, Pipe
  <2> QED BY <2>2, <2>3, <2>4
<1>5. ASSUME NEW due \in SUBSET Armed, TakeDue(due)
      PROVE  LadderInv'
  <2>1. /\ UNCHANGED <<disk, ledger, man, db, clock, job>>
        /\ pc \in {"idle", "swept"} /\ pc' = "fs" /\ back' = "fs"
        /\ q'.rekey = q.rekey /\ q'.exp = q.exp /\ q'.imp = q.imp /\ q'.dirty = q.dirty
        /\ q'.snap = q.snap
    BY <1>5 DEF TakeDue, TypeOK, WorkOK, Work
  <2>2. KeptOK' /\ StrayOK' /\ SwapOK'
    BY <2>1 DEF KeptOK, StrayOK, SwapOK, Claimed, Exists
  <2>3. NamesOK' /\ ApartOK' /\ UsedOK'
    BY <2>1 DEF NamesOK, Gone, Suffixed, Exporting, ApartOK, UsedOK, Recovering, Pipe
  <2> QED BY <2>2, <2>3
<1>6. CASE FsDone
  <2>1. /\ UNCHANGED <<disk, ledger, man, db, clock, job, q>> /\ pc = "fs" /\ pc' = "idle"
    BY <1>6 DEF FsDone
  <2>2. KeptOK' /\ StrayOK' /\ SwapOK'
    BY <2>1 DEF KeptOK, StrayOK, SwapOK, Claimed, Exists
  <2>3. NamesOK' /\ ApartOK' /\ UsedOK'
    BY <2>1 DEF NamesOK, Gone, Suffixed, Exporting, ApartOK, UsedOK, Recovering, Pipe
  <2> QED BY <2>2, <2>3
<1> QED BY <1>1, <1>2, <1>3, <1>4, <1>5, <1>6 DEF Loop

\* A moved directory has a bare name, and so has one that is imported as new.
LEMMA FsLadder ==
  ASSUME TypeOK, Control, PathInv, LadderInv, Firm, FsChange
  PROVE  LadderInv'
<1> USE DEF LadderInv
<1>1. ASSUME NEW op \in q.rekey, RekeyMirrored(op) \/ RekeyUnmirrored(op)
      PROVE  LadderInv'
  <2>1. Rekey(op)
    BY <1>1 DEF RekeyMirrored, RekeyUnmirrored
  <2>2. /\ DOMAIN man' = DOMAIN man
        /\ \A j \in DOMAIN man : man'[j].path = IF j = op[1] THEN op[2] ELSE man[j].path
    BY <2>1 DEF Rekey, TypeOK, ManifestOK, Partial, Entry
  <2>3. /\ UNCHANGED <<disk, ledger, pc, back, job>> /\ pc = "rekey"
        /\ q'.rekey = q.rekey \ {op} /\ q'.exp = q.exp /\ q'.imp = q.imp
        /\ q'.dirty = q.dirty /\ q'.snap = q.snap
    BY <2>1 DEF Rekey, TypeOK, WorkOK, Work
  <2>4. /\ DOMAIN db' = DOMAIN db
        /\ \A j \in Id : clock[j] > 0 => clock'[j] > 0
    <3>1. CASE RekeyMirrored(op)
      <4>1. op[1] \in Id /\ op[1] \in DOMAIN db
        BY <3>1 DEF RekeyMirrored, TypeOK, BackendOK, Partial
      <4>2. \A j \in Id : clock[j] \in Nat
        BY DEF TypeOK, BackendOK
      <4>3. /\ DOMAIN db' = DOMAIN db \cup {op[1]}
            /\ clock'[op[1]] = clock[op[1]] + 1
            /\ \A j \in Id \ {op[1]} : clock'[j] = clock[j]
        BY <3>1, <4>1, WriteEffect DEF RekeyMirrored
      <4> QED BY <4>1, <4>2, <4>3
    <3>2. CASE RekeyUnmirrored(op)
      BY <3>2 DEF RekeyUnmirrored
    <3> QED BY <1>1, <3>1, <3>2
  <2>5. /\ op[1] \in DOMAIN man /\ op[2] \notin Kept /\ op[2] \in Path
        /\ man[op[1]].path \in Kept => ~Exists(man[op[1]].path)
    BY DEF StrayOK, PathInv, PlannedOK, TypeOK, WorkOK, Work
  <2>6. DOMAIN man \subseteq Id /\ DOMAIN ledger \subseteq Id /\ DOMAIN db \subseteq Id
        /\ DOMAIN q.snap \subseteq Id
    BY DEF TypeOK, ManifestOK, BackendOK, WorkOK, Partial
  <2>7. KeptOK' /\ SwapOK'
    BY <2>2, <2>3, <2>5 DEF KeptOK, SwapOK, Claimed, Exists
  <2>8. StrayOK'
    <3>1. \A o \in q'.rekey : o[1] # op[1] /\ o[1] \in DOMAIN man /\ o \in q.rekey
      BY <2>3 DEF PathInv, PlannedOK
    <3> QED BY <2>2, <2>3, <3>1 DEF StrayOK, Exists
  <2>9. NamesOK'
    <3>1. \A j \in Id : Gone(j) => Gone(j)'
      BY <2>2, <2>3, <2>4 DEF Gone, Exporting
    <3>2. \A j \in Id : ~Suffixed(op[2], j)
      <4>1. op[2][2] = Bare
        BY <2>5 DEF Kept
      <4> QED BY <4>1, VaultAssumption DEF Suffixed
    <3> QED BY <2>2, <2>3, <3>1, <3>2 DEF NamesOK, Suffixed
  <2>10. ApartOK'
    BY <2>2, <2>3 DEF ApartOK, Recovering, Pipe
  <2>11. UsedOK'
    BY <2>2, <2>3, <2>4, <2>6 DEF UsedOK
  <2> QED BY <2>7, <2>8, <2>9, <2>10, <2>11
<1>2. CASE RekeySave
  <2>1. /\ UNCHANGED <<disk, man, db, clock, job, q>> /\ pc = "rekey" /\ q.rekey = {}
        /\ pc' = back /\ back \in {"snap", "swept", "fs", "fsRoute"} /\ ledger' = man
        /\ back' = back
    BY <1>2 DEF RekeySave, Control, ReturnsOK
  <2>2. KeptOK' /\ StrayOK' /\ SwapOK'
    BY <2>1 DEF KeptOK, StrayOK, SwapOK, Claimed, Exists
  <2>3. NamesOK'
    <3>1. \A j \in Id : Gone(j) => Gone(j)' /\ j \notin DOMAIN man
      BY <2>1 DEF Gone, Exporting
    <3> QED BY <2>1, <3>1 DEF NamesOK, Suffixed
  <2>4. ApartOK' /\ UsedOK'
    BY <2>1 DEF ApartOK, UsedOK, Recovering, Pipe
  <2> QED BY <2>2, <2>3, <2>4
<1>3. ASSUME NEW p \in q.fs, FsGone(p)
      PROVE  LadderInv'
  <2>1. /\ UNCHANGED <<disk, ledger, man, db, clock, job, back>> /\ pc = "fs"
        /\ q'.rekey \in {{}, Rekeys} /\ pc' = IF q'.rekey = {} THEN "fs" ELSE "rekey"
        /\ q'.exp = q.exp /\ q'.imp = q.imp /\ q'.dirty = q.dirty /\ q'.snap = q.snap
    BY <1>3 DEF FsGone, TypeOK, WorkOK, Work
  <2>2. KeptOK' /\ SwapOK'
    BY <2>1 DEF KeptOK, SwapOK, Claimed
  <2>3. StrayOK'
    BY <2>1, RekeysStray DEF StrayOK, Exists
  <2>4. NamesOK' /\ ApartOK' /\ UsedOK'
    BY <2>1 DEF NamesOK, Gone, Suffixed, Exporting, ApartOK, UsedOK, Recovering, Pipe
  <2> QED BY <2>2, <2>3, <2>4
<1>4. ASSUME NEW p \in q.fs, FsBroken(p)
      PROVE  LadderInv'
  <2>1. /\ UNCHANGED <<disk, ledger, man, db, clock, job, back, pc>> /\ pc = "fs"
        /\ q'.rekey = q.rekey
        /\ q'.exp = q.exp /\ q'.imp = q.imp /\ q'.dirty = q.dirty /\ q'.snap = q.snap
    BY <1>4 DEF FsBroken, TypeOK, WorkOK, Work
  <2>2. KeptOK' /\ StrayOK' /\ SwapOK'
    BY <2>1 DEF KeptOK, StrayOK, SwapOK, Claimed, Exists
  <2>3. NamesOK' /\ ApartOK' /\ UsedOK'
    BY <2>1 DEF NamesOK, Gone, Suffixed, Exporting, ApartOK, UsedOK, Recovering, Pipe
  <2> QED BY <2>2, <2>3
<1>5. ASSUME NEW p \in q.fs, FsHash(p)
      PROVE  LadderInv'
  <2>1. /\ UNCHANGED <<disk, ledger, man, db, clock>> /\ pc = "fs" /\ back' = "fsRoute"
        /\ q'.rekey \in {{}, Rekeys} /\ pc' = IF q'.rekey = {} THEN "fsRoute" ELSE "rekey"
        /\ q'.exp = q.exp /\ q'.imp = q.imp /\ q'.dirty = q.dirty /\ q'.snap = q.snap
    BY <1>5 DEF FsHash, TypeOK, WorkOK, Work
  <2>2. KeptOK' /\ SwapOK'
    BY <2>1 DEF KeptOK, SwapOK, Claimed
  <2>3. StrayOK'
    BY <2>1, RekeysStray DEF StrayOK, Exists
  <2>4. NamesOK' /\ ApartOK' /\ UsedOK'
    BY <2>1 DEF NamesOK, Gone, Suffixed, Exporting, ApartOK, UsedOK, Recovering, Pipe
  <2> QED BY <2>2, <2>3, <2>4
<1>6. CASE FsRoute
  <2>1. /\ UNCHANGED <<disk, ledger, man, db, clock, q>> /\ pc = "fsRoute" /\ back' = "fs"
        /\ pc' \in {"fs", "fetch", "zipNew"}
        /\ pc' = "zipNew" => Exists(job.rel) /\ ~Claimed(job.rel) /\ job' = job
    BY <1>6 DEF FsRoute, Valid
  <2>2. job.rel \in Path
    BY DEF TypeOK, LocalsOK, Job
  <2>3. KeptOK' /\ StrayOK' /\ SwapOK'
    BY <2>1, <2>2 DEF KeptOK, StrayOK, SwapOK, Claimed, Exists, PathInv, PlannedOK
  <2>4. NamesOK' /\ ApartOK' /\ UsedOK'
    BY <2>1 DEF NamesOK, Gone, Suffixed, Exporting, ApartOK, UsedOK, Recovering, Pipe,
       Control, ListedOK, Working
  <2> QED BY <2>3, <2>4
<1>7. CASE Copy
  <2>1. /\ UNCHANGED <<disk, ledger, man, db, clock, job, back, q>>
        /\ pc = "copy" /\ pc' = "zipOver"
    BY <1>7 DEF Copy
  <2>2. KeptOK' /\ StrayOK' /\ SwapOK'
    BY <2>1 DEF KeptOK, StrayOK, SwapOK, Claimed, Exists
  <2>3. NamesOK' /\ ApartOK' /\ UsedOK'
    BY <2>1 DEF NamesOK, Gone, Suffixed, Exporting, ApartOK, UsedOK, Recovering, Pipe
  <2> QED BY <2>2, <2>3
<1>8. CASE Zip
  <2>1. /\ UNCHANGED <<disk, ledger, man, db, clock, back, q>>
        /\ (pc = "zipOver" /\ pc' = "import") \/ (pc = "zipIn" /\ pc' = "direct")
             \/ (pc = "zipNew" /\ pc' = "asNew")
        /\ job'.cur = job.cur /\ job'.rel = job.rel
    BY <1>8 DEF Zip, TypeOK, LocalsOK, Job
  <2>2. KeptOK' /\ StrayOK' /\ SwapOK'
    BY <2>1 DEF KeptOK, StrayOK, SwapOK, Claimed, Exists
  <2>3. NamesOK' /\ ApartOK' /\ UsedOK'
    BY <2>1 DEF NamesOK, Gone, Suffixed, Exporting, ApartOK, UsedOK, Recovering, Pipe
  <2> QED BY <2>2, <2>3
<1>9. ASSUME NEW moved \in BOOLEAN, Fetch(moved)
      PROVE  LadderInv'
  <2>1. /\ UNCHANGED <<disk, ledger, man, db, clock, job, back, q>>
        /\ pc = "fetch" /\ pc' \in {"zipIn", "copy", "zipOver"}
    BY <1>9 DEF Fetch
  <2>2. KeptOK' /\ StrayOK' /\ SwapOK'
    BY <2>1 DEF KeptOK, StrayOK, SwapOK, Claimed, Exists
  <2>3. NamesOK' /\ ApartOK' /\ UsedOK'
    BY <2>1 DEF NamesOK, Gone, Suffixed, Exporting, ApartOK, UsedOK, Recovering, Pipe
  <2> QED BY <2>2, <2>3
<1> QED BY <1>1, <1>2, <1>3, <1>4, <1>5, <1>6, <1>7, <1>8, <1>9 DEF FsChange

\* A write to a row that is there gives no other file a row.
LEMMA WriteLadder ==
  ASSUME TypeOK, LadderInv, NEW i \in Id, NEW v, NEW n, Write(i, v, n)
  PROVE  /\ \A j \in Id : clock[j] > 0 => clock'[j] > 0
         /\ clock'[i] > 0 /\ DOMAIN db' = DOMAIN db \cup {i}
<1>1. \A j \in Id : clock[j] \in Nat
  BY DEF TypeOK, BackendOK
<1>2. /\ DOMAIN db' = DOMAIN db \cup {i} /\ clock'[i] = clock[i] + 1
      /\ \A j \in Id \ {i} : clock'[j] = clock[j]
  BY WriteEffect
<1> QED BY <1>1, <1>2

\* An import in place, or as new, keeps what it found out about the names.
LEMMA ImportLadder ==
  ASSUME TypeOK, Control, PathInv, LadderInv, Firm, ImportStep
  PROVE  LadderInv'
<1>1. /\ DOMAIN man \subseteq Id /\ DOMAIN ledger \subseteq Id /\ DOMAIN db \subseteq Id
      /\ DOMAIN q.snap \subseteq Id /\ job.cur \in Id /\ q.exp \subseteq DOMAIN q.snap
  BY DEF TypeOK, ManifestOK, BackendOK, WorkOK, LocalsOK, Job, Partial, Control, ListedOK
<1>2. ASSUME UNCHANGED <<disk, ledger, man, job, back, q>>,
             pc \in Pipe \ {"zipNew"}, pc' \in Pipe \ {"zipNew", "asNew", "create", "asNew2"},
             DOMAIN db' = DOMAIN db, \A j \in Id : clock[j] > 0 => clock'[j] > 0,
             pc = "asNew" => pc' = "asNew"
      PROVE  LadderInv'
  <2>1. KeptOK' /\ StrayOK' /\ SwapOK'
    BY <1>2 DEF LadderInv, KeptOK, StrayOK, SwapOK, Claimed, Exists, Pipe
  <2>2. NamesOK'
    <3>1. \A j \in Id : Gone(j) => Gone(j)'
      BY <1>2 DEF Gone, Exporting, Pipe
    <3> QED BY <1>2, <3>1 DEF LadderInv, NamesOK, Suffixed, Pipe
  <2>3. ApartOK' /\ UsedOK'
    BY <1>1, <1>2 DEF LadderInv, ApartOK, UsedOK, Recovering, Pipe
  <2> QED BY <2>1, <2>2, <2>3 DEF LadderInv
<1>3. CASE Import
  <2>1. /\ UNCHANGED <<disk, ledger, man, job, back, q>> /\ pc = "import" /\ pc' = "finalize"
        /\ job.cur \in DOMAIN db
        /\ Write(job.cur, job.stage.ver, job.stage.name)
    BY <1>3 DEF Import, Importable, ImportOnto
  <2>2. DOMAIN db' = DOMAIN db /\ \A j \in Id : clock[j] > 0 => clock'[j] > 0
    BY <1>1, <2>1, WriteLadder
  <2> QED BY <1>2, <2>1, <2>2 DEF Pipe
<1>4. CASE InPlace
  <2>1. job.cur \in DOMAIN man
    BY <1>4 DEF InPlace, Control, TrackedOK
  <2>2. /\ UNCHANGED <<disk, ledger, back>> /\ pc \in {"direct", "fill"}
        /\ job.cur \in DOMAIN db /\ Adopt(job.cur)
        /\ pc' = (IF back = "fs" THEN "finalize" ELSE "recImp")
        /\ q'.rekey = q.rekey /\ q'.exp = q.exp /\ q'.imp = q.imp /\ q'.snap = q.snap
        /\ back = "fs" => q' = q
        /\ Write(job.cur, job.stage.ver, job.stage.name)
    BY <1>4 DEF InPlace, Importable, ImportOnto, Settle, TypeOK, WorkOK, Work
  <2>3. DOMAIN db' = DOMAIN db /\ \A j \in Id : clock[j] > 0 => clock'[j] > 0
    BY <1>1, <2>2, WriteLadder
  <2>4. /\ DOMAIN man' = DOMAIN man /\ job'.cur = job.cur
        /\ \A j \in DOMAIN man : man'[j].path = man[j].path
    BY <1>1, <2>1, <2>2, AdoptEffect
  <2>5. KeptOK' /\ StrayOK' /\ SwapOK'
    BY <2>2, <2>4 DEF LadderInv, KeptOK, StrayOK, SwapOK, Claimed, PathInv, PlannedOK
  <2>6. NamesOK'
    <3>1. \A j \in Id : Gone(j) => Gone(j)'
      BY <2>2, <2>3, <2>4 DEF Gone, Exporting
    <3> QED BY <2>2, <2>4, <3>1 DEF LadderInv, NamesOK, Suffixed
  <2>7. ApartOK'
    BY <2>2, <2>3, <2>4 DEF LadderInv, ApartOK, Recovering, Pipe, Control, ReturnsOK
  <2>8. UsedOK'
    BY <1>1, <2>2, <2>3, <2>4 DEF LadderInv, UsedOK
  <2> QED BY <2>5, <2>6, <2>7, <2>8 DEF LadderInv
<1>5. CASE InPlaceFails
  <2>1. /\ UNCHANGED <<disk, ledger, man, job, back, q>> /\ pc \in {"direct", "fill"}
        /\ pc' = IF pc = "direct" THEN "create" ELSE "unshell"
        /\ Importable => Spend("fault")
        /\ UNCHANGED backend \/ (Importable /\ ImportOnto)
    BY <1>5 DEF InPlaceFails
  <2>2. CASE pc = "fill"
    <3>1. DOMAIN db' = DOMAIN db /\ \A j \in Id : clock[j] > 0 => clock'[j] > 0
      BY <1>1, <2>1, WriteLadder DEF Importable, ImportOnto
    <3> QED BY <1>2, <2>1, <2>2, <3>1 DEF Pipe
  <2>3. CASE pc = "direct"
    <3>1. ~Importable
      BY <2>1, <2>3, SpendEffect DEF Firm, Kind
    <3>2. UNCHANGED <<db, clock>> /\ (job.cur \notin DOMAIN db \/ ~job.stage.ok)
      BY <2>1, <3>1 DEF Importable
    <3>3. KeptOK' /\ StrayOK' /\ SwapOK'
      BY <2>1, <2>3 DEF LadderInv, KeptOK, StrayOK, SwapOK, Claimed, Exists
    <3>4. NamesOK'
      BY <2>1, <2>3, <3>2 DEF LadderInv, NamesOK, Gone, Suffixed, Exporting
    <3>5. ApartOK' /\ UsedOK'
      BY <2>1, <2>3, <3>2 DEF LadderInv, ApartOK, UsedOK, Recovering, Pipe
    <3> QED BY <3>3, <3>4, <3>5 DEF LadderInv
  <2> QED BY <2>1, <2>2, <2>3
<1>6. CASE Create
  <2>1. job.cur \in DOMAIN man
    BY <1>6 DEF Create, Control, TrackedOK
  <2>2. /\ UNCHANGED <<disk, ledger, man, job, back, q>> /\ pc = "create" /\ pc' = "fill"
        /\ Write(job.cur, Shell, job.rel[1])
    BY <1>6 DEF Create
  <2>3. /\ DOMAIN db' = DOMAIN db \cup {job.cur} /\ clock'[job.cur] > 0
        /\ \A j \in Id : clock[j] > 0 => clock'[j] > 0
    BY <1>1, <2>2, WriteLadder
  <2>4. KeptOK' /\ StrayOK' /\ SwapOK'
    BY <2>2 DEF LadderInv, KeptOK, StrayOK, SwapOK, Claimed, Exists
  <2>5. NamesOK'
    <3>1. \A j \in Id : Gone(j) => Gone(j)'
      BY <2>1, <2>2, <2>3 DEF Gone, Exporting
    <3> QED BY <2>2, <3>1 DEF LadderInv, NamesOK, Suffixed
  <2>6. ApartOK' /\ UsedOK'
    BY <1>1, <2>2, <2>3 DEF LadderInv, ApartOK, UsedOK, Recovering, Pipe
  <2> QED BY <2>4, <2>5, <2>6 DEF LadderInv
<1>7. CASE CreateFails
  <2>1. /\ UNCHANGED <<disk, ledger, man, job, back, q>> /\ pc = "create" /\ pc' = "asNew2"
        /\ Creatable => Spend("fault")
        /\ UNCHANGED backend \/ (Creatable /\ Write(job.cur, Shell, job.rel[1]))
    BY <1>7 DEF CreateFails
  <2>2. ~Creatable
    BY <2>1, SpendEffect DEF Firm, Kind
  <2>3. UNCHANGED <<db, clock>>
    BY <2>1, <2>2
  <2>4. KeptOK' /\ StrayOK' /\ SwapOK'
    BY <2>1 DEF LadderInv, KeptOK, StrayOK, SwapOK, Claimed, Exists
  <2>5. NamesOK'
    BY <2>1, <2>3 DEF LadderInv, NamesOK, Gone, Suffixed, Exporting
  <2>6. ApartOK' /\ UsedOK'
    BY <2>1, <2>3 DEF LadderInv, ApartOK, UsedOK, Recovering, Pipe
  <2> QED BY <2>4, <2>5, <2>6 DEF LadderInv
<1>8. CASE Unshell
  <2>1. /\ UNCHANGED <<disk, ledger, man, job, back, q>> /\ pc = "unshell" /\ pc' = "asNew2"
        /\ (db' = Drop(db, {job.cur}) /\ clock' = clock) \/ Spend("fault")
    BY <1>8 DEF Unshell
  <2>2. DOMAIN db' = DOMAIN db \ {job.cur} /\ clock' = clock
    BY <2>1, SpendEffect DEF Firm, Kind, Drop, Restrict
  <2>3. KeptOK' /\ StrayOK' /\ SwapOK'
    BY <2>1 DEF LadderInv, KeptOK, StrayOK, SwapOK, Claimed, Exists
  <2>4. NamesOK'
    BY <2>1, <2>2 DEF LadderInv, NamesOK, Gone, Suffixed, Exporting
  <2>5. ApartOK' /\ UsedOK'
    BY <2>1, <2>2 DEF LadderInv, ApartOK, UsedOK, Recovering, Pipe
  <2> QED BY <2>3, <2>4, <2>5 DEF LadderInv
<1>9. ASSUME NEW i \in Id, AsNew(i)
      PROVE  LadderInv'
  <2>1. /\ UNCHANGED <<disk, ledger, back>> /\ pc \in {"asNew", "asNew2"}
        /\ clock[i] = 0 /\ job.stage.ok
        /\ pc' = (IF back = "fs" THEN "finalize" ELSE "recImp")
        /\ q'.rekey = q.rekey /\ q'.exp = q.exp /\ q'.imp = q.imp /\ q'.snap = q.snap
        /\ back = "fs" => q' = q
        /\ Write(i, job.stage.ver, job.stage.name)
        /\ pc = "asNew2" => Adopt(i)
        /\ pc = "asNew" => man' = Put(man, i, [path |-> job.rel, hash |-> job.seen,
                                               stamp |-> NoStamp])
    BY <1>9 DEF AsNew, Fresh, Settle, TypeOK, WorkOK, Work
  <2>2. /\ DOMAIN db' = DOMAIN db \cup {i} /\ clock'[i] > 0
        /\ \A j \in Id : clock[j] > 0 => clock'[j] > 0
    BY <2>1, WriteLadder
  <2>3. i \notin DOMAIN man \cup DOMAIN ledger \cup DOMAIN db \cup DOMAIN q.snap
    BY <2>1 DEF LadderInv, UsedOK
  <2>4. \A j \in Id : Gone(j) => j # i
    BY <2>1 DEF Gone
  <2>5. CASE pc = "asNew"
    <3>1. /\ DOMAIN man' = DOMAIN man \cup {i} /\ man'[i].path = job.rel
          /\ \A j \in DOMAIN man : man'[j].path = man[j].path
      BY <2>1, <2>3, <2>5 DEF Put
    <3>2. job.rel \in Path /\ job.rel \notin Kept /\ ~Claimed(job.rel)
      BY <2>5 DEF LadderInv, StrayOK, TypeOK, LocalsOK, Job, PathInv, PlacedOK
    <3>3. KeptOK' /\ StrayOK' /\ SwapOK'
      BY <2>1, <3>1 DEF LadderInv, KeptOK, StrayOK, SwapOK, Claimed, PathInv, PlannedOK
    <3>4. NamesOK'
      <4>1. \A j \in Id : Gone(j) => Gone(j)'
        BY <2>1, <2>2, <2>4, <3>1 DEF Gone, Exporting
      <4>2. \A j \in Id : ~Suffixed(job.rel, j)
        <5>1. job.rel[2] = Bare
          BY <3>2 DEF Kept
        <5> QED BY <5>1, VaultAssumption DEF Suffixed
      <4> QED BY <2>1, <3>1, <4>1, <4>2 DEF LadderInv, NamesOK, Suffixed
    <3>5. ApartOK'
      BY <1>1, <2>1, <2>3, <2>5, <3>1
      DEF LadderInv, ApartOK, Recovering, Pipe, Control, ReturnsOK
    <3>6. UsedOK'
      BY <1>1, <2>1, <2>2, <3>1 DEF LadderInv, UsedOK
    <3> QED BY <3>3, <3>4, <3>5, <3>6 DEF LadderInv
  <2>6. CASE pc = "asNew2"
    <3>1. job.cur \in DOMAIN man
      BY <2>6 DEF Control, TrackedOK
    <3>2. /\ DOMAIN man' = (DOMAIN man \ {job.cur}) \cup {i}
          /\ man'[i].path = man[job.cur].path
          /\ \A j \in DOMAIN man \ {job.cur} : man'[j].path = man[j].path
      BY <2>1, <2>3, <2>6, <3>1, AdoptEffect
    <3>3. job.cur \notin DOMAIN db /\ job.cur # i /\ job.cur \notin q.exp /\ clock[job.cur] > 0
      BY <2>1, <2>3, <2>6, <3>1
      DEF LadderInv, ApartOK, UsedOK, Control, ReturnsOK, ListedOK, Working, Pipe, Exporting
    <3>4. KeptOK' /\ StrayOK' /\ SwapOK'
      BY <2>1, <3>1, <3>2 DEF LadderInv, KeptOK, StrayOK, SwapOK, Claimed, PathInv, PlannedOK
    <3>5. NamesOK'
      <4>1. \A j \in Id : Gone(j) => Gone(j)'
        BY <2>1, <2>2, <2>4, <3>2 DEF Gone, Exporting
      <4>2. \A j \in Id : j = job.cur => Gone(j)'
        BY <1>1, <2>1, <2>2, <3>2, <3>3 DEF Gone, Exporting
      <4>3. \A j \in Id \ {i} : Suffixed(man'[i].path, j) => Gone(j)'
        BY <3>1, <3>2, <4>1, <4>2 DEF LadderInv, NamesOK
      <4>4. \A k \in DOMAIN man' \ {i} : \A j \in Id \ {k} :
              Suffixed(man'[k].path, j) => Gone(j)'
        BY <3>2, <4>1 DEF LadderInv, NamesOK
      <4>5. \A k \in DOMAIN ledger : \A j \in Id \ {k} :
              Suffixed(ledger[k].path, j) => Gone(j)' /\ j \notin DOMAIN ledger
        BY <4>1 DEF LadderInv, NamesOK
      <4> QED BY <2>1, <4>3, <4>4, <4>5 DEF NamesOK, Suffixed
    <3>6. ApartOK'
      BY <1>1, <2>1, <2>3, <2>6, <3>1, <3>2
      DEF LadderInv, ApartOK, Recovering, Pipe, Control, ReturnsOK
    <3>7. UsedOK'
      BY <1>1, <2>1, <2>2, <3>2 DEF LadderInv, UsedOK
    <3> QED BY <3>4, <3>5, <3>6, <3>7 DEF LadderInv
  <2> QED BY <2>1, <2>5, <2>6
<1>10. ASSUME NEW i \in Id, AsNewTwice(i)
       PROVE  LadderInv'
  <2>1. /\ UNCHANGED <<disk, ledger, man, job, back, q, pc>> /\ pc \in {"asNew", "asNew2"}
        /\ clock[i] = 0 /\ Write(i, job.stage.ver, job.stage.name)
    BY <1>10 DEF AsNewTwice, Fresh
  <2>2. /\ DOMAIN db' = DOMAIN db \cup {i} /\ clock'[i] > 0
        /\ \A j \in Id : clock[j] > 0 => clock'[j] > 0
    BY <2>1, WriteLadder
  <2>3. KeptOK' /\ StrayOK' /\ SwapOK'
    BY <2>1 DEF LadderInv, KeptOK, StrayOK, SwapOK, Claimed, Exists
  <2>4. NamesOK'
    <3>1. \A j \in Id : Gone(j) => Gone(j)'
      BY <2>1, <2>2 DEF Gone
    <3> QED BY <2>1, <3>1 DEF LadderInv, NamesOK, Suffixed
  <2>5. ApartOK'
    <3>1. pc = "asNew2" => job.cur # i
      BY <2>1 DEF LadderInv, UsedOK, Control, TrackedOK
    <3> QED BY <1>1, <2>1, <2>2, <3>1 DEF LadderInv, ApartOK, Recovering
  <2>6. UsedOK'
    BY <1>1, <2>1, <2>2 DEF LadderInv, UsedOK
  <2> QED BY <2>3, <2>4, <2>5, <2>6 DEF LadderInv
<1>11. CASE Finalize
  <2>1. /\ UNCHANGED <<disk, db, clock, q>> /\ pc = "finalize" /\ pc' = back /\ back' = back
        /\ back \in {"fs", "export"} /\ ledger' = man'
    BY <1>11 DEF Finalize, Return, Control, ReturnsOK
  <2>2. /\ DOMAIN man' = DOMAIN man
        /\ \A j \in DOMAIN man : man'[j].path = man[j].path
    <3>1. ASSUME job.cur \in DOMAIN man
          PROVE  [man[job.cur] EXCEPT !.stamp = db[job.cur].stamp,
                                      !.hash = job.seen].path = man[job.cur].path
      BY <3>1, PartialValue DEF TypeOK, ManifestOK, Entry
    <3> QED BY <1>11, <3>1 DEF Finalize
  <2>3. KeptOK' /\ StrayOK' /\ SwapOK'
    BY <2>1, <2>2 DEF LadderInv, KeptOK, StrayOK, SwapOK, Claimed, PathInv, PlannedOK
  <2>4. NamesOK'
    <3>1. \A j \in Id : Gone(j) => Gone(j)' /\ j \notin DOMAIN man'
      BY <2>1, <2>2 DEF Gone, Exporting
    <3> QED BY <2>1, <2>2, <3>1 DEF LadderInv, NamesOK, Suffixed
  <2>5. ApartOK' /\ UsedOK'
    BY <2>1, <2>2 DEF LadderInv, ApartOK, UsedOK, Recovering, Pipe
  <2> QED BY <2>3, <2>4, <2>5 DEF LadderInv
<1>12. CASE ImportFails
  <2>1. /\ UNCHANGED <<disk, ledger, man, back, q>> /\ pc \in Pipe /\ pc' = back
        /\ back \in {"fs", "export", "recImp"}
        /\ UNCHANGED backend
             \/ (job.cur \in DOMAIN db /\ Write(job.cur, job.stage.ver, job.stage.name))
    BY <1>12 DEF ImportFails, Fail, Return, Control, ReturnsOK, Pipe, Importable, ImportOnto
  <2>2. DOMAIN db' = DOMAIN db /\ \A j \in Id : clock[j] > 0 => clock'[j] > 0
    BY <1>1, <2>1, WriteLadder
  <2>3. KeptOK' /\ StrayOK' /\ SwapOK'
    BY <2>1 DEF LadderInv, KeptOK, StrayOK, SwapOK, Claimed, Exists, Pipe
  <2>4. NamesOK'
    <3>1. \A j \in Id : Gone(j) => Gone(j)'
      BY <2>1, <2>2 DEF Gone, Exporting
    <3> QED BY <2>1, <3>1 DEF LadderInv, NamesOK, Suffixed
  <2>5. ApartOK' /\ UsedOK'
    BY <1>1, <2>1, <2>2 DEF LadderInv, ApartOK, UsedOK, Recovering, Pipe
  <2> QED BY <2>3, <2>4, <2>5 DEF LadderInv
<1> QED BY <1>3, <1>4, <1>5, <1>6, <1>7, <1>8, <1>9, <1>10, <1>11, <1>12 DEF ImportStep

\* An export of a file that has no entry never comes to a claimed rung: the rung
\* carries the file's id, and whoever had that id is not exported any more.
LEMMA LastRung ==
  ASSUME TypeOK, Control, LadderInv
  PROVE  LastRungFree
<1> SUFFICES ASSUME pc = "export", NEW i \in q.exp \ DOMAIN man,
                    Claimed(Rung(i, q.snap[i].name, 3))
             PROVE  FALSE
  BY DEF LastRungFree
<1>1. i \in Id
  BY DEF TypeOK, WorkOK, Work
<1>2. PICK k \in DOMAIN man : man[k].path = Rung(i, q.snap[i].name, 3)
  BY DEF Claimed
<1>3. Suffixed(man[k].path, i)
  BY <1>2 DEF Rung, Suffixed
<1>4. Gone(i)
  BY <1>1, <1>3 DEF LadderInv, NamesOK
<1> QED BY <1>4 DEF Gone

\* Every rung of the ladder of file i carries its id or none.
LEMMA RungNames ==
  ASSUME NEW i \in Id, NEW n, NEW j \in Id \ {i}
  PROVE  ~Suffixed(Ladder(i, n), j)
<1>1. \A k \in 1..3 : Rung(i, n, k)[2] \in {Bare, <<i, "short">>, <<i, "full">>}
  BY DEF Rung
<1>2. Ladder(i, n)[2] \in {Bare, <<i, "short">>, <<i, "full">>}
  BY <1>1 DEF Ladder
<1> QED BY <1>2, VaultAssumption DEF Suffixed

\* An export claims its rung before a directory appears there, and saves the
\* claim before the tree is swapped in.
LEMMA ExportLadder ==
  ASSUME TypeOK, Control, PathInv, LadderInv, Firm, ExportStep
  PROVE  LadderInv'
<1>1. /\ DOMAIN man \subseteq Id /\ DOMAIN ledger \subseteq Id /\ DOMAIN db \subseteq Id
      /\ DOMAIN q.snap \subseteq Id /\ job.cur \in Id /\ job.rel \in Path
      /\ q.exp \subseteq DOMAIN q.snap
  BY DEF TypeOK, ManifestOK, BackendOK, WorkOK, LocalsOK, Job, Partial, Control, ListedOK
<1>2. ASSUME NEW i \in q.exp, Relocate(i)
      PROVE  LadderInv'
  <2>1. /\ i \in DOMAIN man /\ UNCHANGED <<ledger, db, clock, back>>
        /\ pc = "export" /\ pc' = "relocated" /\ job'.cur = i /\ job'.rel = Wanted(i)
        /\ q'.rekey = q.rekey /\ q'.exp = q.exp \ {i} /\ q'.imp = q.imp /\ q'.snap = q.snap
        /\ q'.dirty = q.dirty
    BY <1>2
    DEF Relocate, Misplaced, SetJob, TypeOK, LocalsOK, WorkOK, Work, Job
  <2>2. /\ DOMAIN man' = DOMAIN man
        /\ \A j \in DOMAIN man : man'[j].path = IF j = i THEN Wanted(i) ELSE man[j].path
    BY <1>2, <2>1 DEF Relocate, TypeOK, ManifestOK, Partial, Entry
  <2>3. \/ disk' = disk /\ ~Exists(man[i].path)
        \/ DOMAIN disk' = (DOMAIN disk \ {man[i].path}) \cup {Wanted(i)}
    BY <1>2 DEF Relocate, Put, Drop, Restrict
  <2>4. KeptOK'
    BY <2>1, <2>2, <2>3 DEF LadderInv, KeptOK, Claimed, Exists
  <2>5. StrayOK' /\ SwapOK'
    BY <2>1, <2>2 DEF LadderInv, StrayOK, SwapOK, PathInv, PlannedOK
  <2>6. NamesOK'
    <3>1. \A j \in Id : Gone(j) => Gone(j)'
      BY <2>1, <2>2 DEF Gone, Exporting
    <3>2. i \in Id /\ \A j \in Id \ {i} : ~Suffixed(Wanted(i), j)
      BY <1>1, <2>1, RungNames DEF Wanted
    <3> QED BY <2>1, <2>2, <3>1, <3>2 DEF LadderInv, NamesOK, Suffixed
  <2>7. ApartOK' /\ UsedOK'
    BY <2>1, <2>2 DEF LadderInv, ApartOK, UsedOK, Recovering, Pipe
  <2> QED BY <2>4, <2>5, <2>6, <2>7 DEF LadderInv
<1>3. ASSUME NEW i \in q.exp, Allocate(i)
      PROVE  LadderInv'
  <2>1. /\ UNCHANGED <<disk, ledger, man, db, clock, back>>
        /\ pc = "export" /\ pc' = "download" /\ job'.cur = i
        /\ i \notin DOMAIN man => job'.rel = Wanted(i)
        /\ q'.rekey = q.rekey /\ q'.exp = q.exp \ {i} /\ q'.imp = q.imp /\ q'.snap = q.snap
        /\ q'.dirty = q.dirty
    BY <1>3 DEF Allocate, SetJob, TypeOK, LocalsOK, WorkOK, Work, Job
  <2>2. KeptOK' /\ StrayOK' /\ SwapOK'
    BY <2>1 DEF LadderInv, KeptOK, StrayOK, SwapOK, Claimed, Exists
  <2>3. NamesOK'
    <3>1. \A j \in Id : Gone(j) => Gone(j)'
      BY <2>1 DEF Gone, Exporting
    <3>2. i \in Id /\ \A j \in Id \ {i} : ~Suffixed(Wanted(i), j)
      BY <1>1, RungNames DEF Wanted
    <3> QED BY <2>1, <3>1, <3>2 DEF LadderInv, NamesOK, Suffixed
  <2>4. ApartOK' /\ UsedOK'
    BY <2>1 DEF LadderInv, ApartOK, UsedOK, Recovering, Pipe
  <2> QED BY <2>2, <2>3, <2>4 DEF LadderInv
<1>4. CASE RelocateSave
  <2>1. /\ UNCHANGED <<disk, man, db, clock, back, job, q>> /\ ledger' = man
        /\ pc = "relocated" /\ pc' = "download"
    BY <1>4 DEF RelocateSave
  <2>2. KeptOK' /\ StrayOK' /\ SwapOK'
    BY <2>1 DEF LadderInv, KeptOK, StrayOK, SwapOK, Claimed, Exists
  <2>3. NamesOK'
    <3>1. \A j \in Id : Gone(j) => Gone(j)' /\ j \notin DOMAIN man
      BY <2>1 DEF Gone, Exporting
    <3> QED BY <2>1, <3>1 DEF LadderInv, NamesOK, Suffixed
  <2>4. ApartOK' /\ UsedOK'
    BY <2>1 DEF LadderInv, ApartOK, UsedOK, Recovering, Pipe
  <2> QED BY <2>2, <2>3, <2>4 DEF LadderInv
<1>5. CASE Download
  <2>1. /\ UNCHANGED <<disk, ledger, man, db, clock, back, q>>
        /\ pc = "download" /\ pc' = "guard" /\ job'.cur = job.cur /\ job'.rel = job.rel
    BY <1>5 DEF Download, TypeOK, LocalsOK, Job
  <2>2. KeptOK' /\ StrayOK' /\ SwapOK'
    BY <2>1 DEF LadderInv, KeptOK, StrayOK, SwapOK, Claimed, Exists
  <2>3. NamesOK' /\ ApartOK' /\ UsedOK'
    BY <2>1
    DEF LadderInv, NamesOK, Gone, Suffixed, Exporting, ApartOK, UsedOK, Recovering, Pipe
  <2> QED BY <2>2, <2>3 DEF LadderInv
<1>6. CASE DownloadFails \/ ExportBlocked
  <2>1. /\ UNCHANGED <<disk, ledger, man, db, clock, back, q>>
        /\ pc \in {"download", "guard"} /\ pc' = "export"
    BY <1>6 DEF DownloadFails, ExportBlocked, Fail, Return, Control, ReturnsOK, Exporting
  <2>2. KeptOK' /\ StrayOK' /\ SwapOK'
    BY <2>1 DEF LadderInv, KeptOK, StrayOK, SwapOK, Claimed, Exists
  <2>3. NamesOK' /\ ApartOK' /\ UsedOK'
    BY <2>1
    DEF LadderInv, NamesOK, Gone, Suffixed, Exporting, ApartOK, UsedOK, Recovering, Pipe
  <2> QED BY <2>2, <2>3 DEF LadderInv
<1>7. CASE ExportNoOp \/ ExportRecord
  <2>1. /\ UNCHANGED <<disk, db, clock, back, q>> /\ ledger' = man'
        /\ man' = Record(job.stage) /\ pc = "guard"
        /\ (pc' = "export") \/ (pc' = "swap" /\ job' = job)
        /\ job.cur \in DOMAIN q.snap
    BY <1>7
    DEF ExportNoOp, ExportRecord, Exportation, Return, Control, ReturnsOK, ListedOK, Exporting
  <2>2. /\ DOMAIN man' = DOMAIN man \cup {job.cur}
        /\ \A j \in DOMAIN man \ {job.cur} : man'[j].path = man[j].path
        /\ man'[job.cur].path = job.rel /\ man'[job.cur].hash = job.stage
    BY <2>1 DEF Record, Put
  <2>3. job.cur \in DOMAIN man => job.rel = man[job.cur].path
    BY <2>1 DEF PathInv, PlacedOK
  <2>4. KeptOK' /\ StrayOK' /\ SwapOK'
    BY <2>1, <2>2, <2>3
    DEF LadderInv, KeptOK, StrayOK, SwapOK, Claimed, Exists, PathInv, PlannedOK
  <2>5. NamesOK'
    <3>1. \A j \in Id : Gone(j) => Gone(j)' /\ j \notin DOMAIN man'
      BY <2>1, <2>2 DEF Gone, Exporting
    <3>2. \A j \in Id \ {job.cur} : Suffixed(job.rel, j) => Gone(j)
      BY <2>1, <2>3 DEF LadderInv, NamesOK
    <3>3. \A k \in DOMAIN man' : \A j \in Id \ {k} :
            Suffixed(man'[k].path, j) => Gone(j)' /\ j \notin DOMAIN man'
      BY <2>2, <3>1, <3>2 DEF LadderInv, NamesOK
    <3> QED BY <2>1, <3>3 DEF NamesOK, Suffixed
  <2>6. ApartOK'
    BY <2>1 DEF LadderInv, ApartOK, Recovering, Pipe
  <2>7. UsedOK'
    BY <2>1, <2>2 DEF LadderInv, UsedOK
  <2> QED BY <2>4, <2>5, <2>6, <2>7 DEF LadderInv
<1>8. CASE ExportConflict
  <2>1. /\ UNCHANGED <<disk, ledger, man, db, clock, back, q>>
        /\ pc = "guard" /\ pc' = "zipOver" /\ back = "export"
    BY <1>8 DEF ExportConflict, Control, ReturnsOK, Exporting
  <2>2. KeptOK' /\ StrayOK' /\ SwapOK'
    BY <2>1 DEF LadderInv, KeptOK, StrayOK, SwapOK, Claimed, Exists
  <2>3. NamesOK' /\ ApartOK' /\ UsedOK'
    BY <2>1
    DEF LadderInv, NamesOK, Gone, Suffixed, Exporting, ApartOK, UsedOK, Recovering, Pipe
  <2> QED BY <2>2, <2>3 DEF LadderInv
<1>9. CASE Swap
  <2>1. /\ UNCHANGED <<ledger, man, db, clock, back, q>>
        /\ pc = "swap" /\ pc' = "export" /\ DOMAIN disk' = DOMAIN disk \cup {job.rel}
    BY <1>9 DEF Swap, Put, Exportation, Return, Control, ReturnsOK, Exporting
  <2>2. KeptOK' /\ SwapOK'
    BY <2>1 DEF LadderInv, KeptOK, SwapOK, Claimed
  <2>3. StrayOK'
    BY <2>1 DEF LadderInv, StrayOK, PathInv, PlannedOK
  <2>4. NamesOK' /\ ApartOK' /\ UsedOK'
    BY <2>1
    DEF LadderInv, NamesOK, Gone, Suffixed, Exporting, ApartOK, UsedOK, Recovering, Pipe
  <2> QED BY <2>2, <2>3, <2>4 DEF LadderInv
<1> QED BY <1>2, <1>3, <1>4, <1>5, <1>6, <1>7, <1>8, <1>9 DEF ExportStep

\* A vault in step, with the application closed, has every directory on a bare
\* name, in the saved manifest.
LEMMA InitLadder == Init => LadderInv
<1> SUFFICES ASSUME Init
             PROVE  LadderInv
  OBVIOUS
<1>1. KeptOK
  BY DEF Init, KeptOK
<1>2. StrayOK /\ SwapOK /\ ApartOK
  BY DEF Init, StrayOK, SwapOK, ApartOK, Recovering, Pipe, NoWork
<1>3. NamesOK
  BY VaultAssumption DEF Init, NamesOK, Suffixed, Nothing
<1>4. UsedOK
  BY VaultAssumption DEF Init, UsedOK, NoWork, Nothing
<1> QED BY <1>1, <1>2, <1>3, <1>4 DEF LadderInv

\* The names, the paths and the control of the engine, together.
NameInv == TypeOK /\ Control /\ PathInv /\ LadderInv

\* They hold of a vault in step, with the application closed ...
LEMMA InitNames == Init => NameInv
BY InitTypes, InitControl, InitPaths, InitLadder DEF NameInv

\* ... and every step keeps them.
LEMMA NamesStep ==
  ASSUME Firm, NameInv, [Next]_vars
  PROVE  NameInv'
<1> USE DEF NameInv
<1>1. CASE Next
  <2>1. LastRungFree
    BY LastRung
  <2>2. TypeOK' /\ Control'
    BY <1>1, EnvironmentTypes, EnvironmentControl, ReconcileTypes, ReconcileControl,
       LoopTypes, LoopControl, FsTypes, FsControl, ImportTypes, ImportControl,
       ExportTypes, ExportControl DEF Next, Engine
  <2>3. PathInv'
    BY <1>1, <2>1, EnvironmentPaths, ReconcilePaths, LoopPaths, FsPaths, ImportPaths,
       ExportPaths DEF Next, Engine
  <2>4. LadderInv'
    BY <1>1, EnvironmentLadder, ReconcileLadder, LoopLadder, FsLadder, ImportLadder,
       ExportLadder DEF Next, Engine
  <2> QED BY <2>2, <2>3, <2>4
<1>2. CASE UNCHANGED vars
  <2>1. TypeOK' /\ Control' /\ PathInv'
    BY <1>2
       DEF vars, TypeOK, FolderOK, BackendOK, ManifestOK, TrackerOK, LoopOK, LocalsOK,
       WorkOK, HistoryOK, Control, ReturnsOK, ListedOK, TrackedOK, Working, Partial,
       PathInv, UniquePaths, PlannedOK, PlacedOK, Claimed
  <2>2. KeptOK' /\ StrayOK' /\ SwapOK'
    BY <1>2 DEF vars, LadderInv, KeptOK, StrayOK, SwapOK, Claimed, Exists
  <2>3. NamesOK' /\ ApartOK' /\ UsedOK'
    BY <1>2 DEF vars, LadderInv, NamesOK, Gone, Suffixed, ApartOK, Recovering, UsedOK
  <2> QED BY <2>1, <2>2, <2>3 DEF LadderInv
<1> QED BY <1>1, <1>2

\* "Unique by construction": whatever people rename, move, copy and edit, no
\* other entry has the last name an export may come to, provided the process
\* does not die between a relocation and its save, and the backend refuses no
\* import in place but for what it is asked.
THEOREM LastRungUnique == ASSUME Firm  PROVE Spec => []LastRungFree
<1>1. Init => NameInv
  BY InitNames
<1>2. NameInv /\ [Next]_vars => NameInv'
  BY NamesStep
<1>3. NameInv => LastRungFree
  BY LastRung DEF NameInv
<1> QED BY <1>1, <1>2, <1>3, PTL DEF Spec

\* There, two files never claim one directory.
THEOREM OneDirectoryAlways == ASSUME Firm  PROVE Spec => []UniquePaths
<1>1. Init => NameInv
  BY InitNames
<1>2. NameInv /\ [Next]_vars => NameInv'
  BY NamesStep
<1>3. NameInv => UniquePaths
  BY DEF NameInv, PathInv
<1> QED BY <1>1, <1>2, <1>3, PTL DEF Spec

-----------------------------------------------------------------------------
(* What the folder, the manifest and the database know of each other.      *)

\* Versions are numbered in the order they are made.
NumberedOK ==
  /\ \A p \in DOMAIN disk : disk[p].ver <= nver
  /\ \A i \in DOMAIN db : db[i].ver <= nver
  /\ \A i \in DOMAIN man : man[i].hash.ver <= nver
  /\ \A i \in DOMAIN ledger : ledger[i].hash.ver <= nver
  /\ job.seen.ver <= nver /\ job.stage.ver <= nver
  /\ \A it \in q.imp : it.seen.ver <= nver

\* Stamps are never from the future, and a row has its file's last one.
Dated(st) == \E j \in Id : \E n \in 1..clock[j] : st = <<j, n>>
StampsOK ==
  /\ \A i \in DOMAIN db : db[i].stamp = <<i, clock[i]>>
  /\ \A i \in DOMAIN man : Dated(man[i].stamp)
  /\ \A i \in DOMAIN ledger : Dated(ledger[i].stamp)
  /\ \A i \in DOMAIN q.snap : Dated(q.snap[i].stamp)

\* What a reconcile has imported and not read back is nowhere but in reconcile.
DoneOK ==
  /\ polling \/ pc \in {"down", "boot", "snap", "decide", "idle", "swept", "fs", "fsRoute"}
       \/ (pc \in Pipe /\ back = "fs") => q.done = {}
  /\ pc = "decide" => q.snap = db

\* No place in the saved manifest is free in the engine's, but while reconcile
\* has forgotten or a relocation has moved one and has not saved; and a file
\* that both know has one place in both.
SavedOK ==
  pc \notin {"down", "relocated"} =>
    /\ ~q.dirty => \A i \in DOMAIN ledger : Claimed(ledger[i].path)
    /\ \A i \in DOMAIN ledger \cap DOMAIN man : ledger[i].path = man[i].path

\* Where an import onto a tracked file is.
Onto == Pipe \ {"zipNew", "asNew"}
OntoOK == pc \in Onto => job.cur \in DOMAIN man /\ man[job.cur].path = job.rel

BookInv == NumberedOK /\ StampsOK /\ DoneOK /\ SavedOK /\ OntoOK

\* The row of file i is not the import's own empty shell.
Real(i) == i \in DOMAIN db /\ ~(pc \in Shelled /\ i = job.cur)
Is(t, i) == t.ver = db[i].ver /\ t.name = db[i].name

\* What entry e of file i says: where its directory differs from it, somebody
\* edited it; where it does not, the row has it or something newer; and where the
\* row is known, the two sides have the same design or somebody edited one.
Edited(i, e) ==
  Exists(e.path) /\ disk[e.path] # e.hash /\ ~(pc = "swap" /\ i = job.cur)
    => e.hash.ver \in superseded
Behind(i, e) ==
  Exists(e.path) /\ disk[e.path] = e.hash /\ Real(i)
    => e.hash.ver \in superseded \cup {db[i].ver}
Told(i, e, known) ==
  Exists(e.path) /\ Real(i) /\ known
    => /\ db[i].ver \in superseded \cup {e.hash.ver, disk[e.path].ver}
       /\ disk[e.path] = e.hash => Is(e.hash, i)

Known(i) == i \in q.done \/ man[i].stamp = db[i].stamp
EntriesOK ==
  /\ \A i \in DOMAIN man :
       Edited(i, man[i]) /\ Behind(i, man[i]) /\ Told(i, man[i], Known(i))
  /\ \A i \in DOMAIN ledger :
       /\ Edited(i, ledger[i]) /\ Behind(i, ledger[i])
       /\ Told(i, ledger[i], ledger[i].stamp = db[i].stamp)

\* A tree that was read is there still, or was edited.
Read(p, t) == Exists(p) /\ disk[p] # t => t.ver \in superseded

\* Reconcile imports only onto rows that had not moved.
QueuedOK ==
  \A it \in q.imp :
    /\ Read(it.rel, it.seen)
    /\ \A i \in DOMAIN man : man[i].path = it.rel /\ Real(i) => Known(i)

Looking == {"fsRoute"} \cup Pipe
SeenOK == pc \in Looking => Read(job.rel, job.seen)

\* What is zipped is what is there, or is superseded by what is, which no
\* manifest knows of.
Zipped == {"import", "direct", "create", "fill", "unshell", "asNew2", "finalize"}
Afresh(t) ==
  /\ job.seen.ver < t.ver
  /\ \A i \in DOMAIN man : man[i].hash.ver < t.ver
  /\ \A i \in DOMAIN ledger : ledger[i].hash.ver < t.ver
StagedOK ==
  pc \in Zipped /\ Exists(job.rel) /\ disk[job.rel] # job.stage =>
    job.stage.ver \in superseded /\ Afresh(disk[job.rel])

\* What an import is about to replace is kept elsewhere or superseded.
Preserved == superseded \cup {t.ver : t \in copies}
OverOK ==
  /\ pc = "zipOver" /\ job.cur \in DOMAIN db /\ Exists(job.rel) =>
       db[job.cur].ver \in Preserved \cup {disk[job.rel].ver}
  /\ pc = "zipIn" => job.cur \notin DOMAIN db
  /\ pc \in {"import", "direct"} /\ job.cur \in DOMAIN db =>
       db[job.cur].ver \in Preserved \cup {job.stage.ver}
  /\ pc \in Shelled => job.cur \in DOMAIN db /\ db[job.cur].ver = Shell

\* What a swap is about to replace is superseded by what it puts there, and what
\* an import wrote is what it zipped.
LandsOK ==
  /\ pc = "guard" => job.cur \in DOMAIN db /\ job.stage = Exported(job.cur, db[job.cur])
  /\ pc = "swap" =>
       /\ Exists(job.rel) => disk[job.rel].ver \in superseded \cup {job.stage.ver}
       /\ job.cur \in DOMAIN db =>
            /\ job.stage.ver \in superseded \cup {db[job.cur].ver}
            /\ Known(job.cur) => Is(job.stage, job.cur)
  /\ pc = "finalize" /\ job.cur \in DOMAIN db => Is(job.stage, job.cur)

HandlerOK == SeenOK /\ StagedOK /\ OverOK /\ LandsOK
TruthInv == EntriesOK /\ QueuedOK /\ HandlerOK /\ NothingLost

\* Version numbers and counts are numbers.
LEMMA VersionTypes ==
  ASSUME TypeOK
  PROVE  /\ nver \in Nat /\ job.seen.ver \in Nat /\ job.stage.ver \in Nat
         /\ \A p \in DOMAIN disk : p \in Path /\ disk[p] \in Tree /\ disk[p].ver \in Nat
         /\ \A i \in DOMAIN db : i \in Id /\ db[i].ver \in Nat
         /\ \A i \in DOMAIN man : i \in Id /\ man[i].path \in Path /\ man[i].hash \in Tree
                                  /\ man[i].hash.ver \in Nat
         /\ \A i \in DOMAIN ledger : i \in Id /\ ledger[i].path \in Path
                                  /\ ledger[i].hash \in Tree /\ ledger[i].hash.ver \in Nat
         /\ \A it \in q.imp : it.rel \in Path /\ it.seen \in Tree /\ it.seen.ver \in Nat
         /\ \A j \in Id : clock[j] \in Nat
         /\ job.cur \in Id /\ job.rel \in Path /\ job.seen \in Tree /\ job.stage \in Tree
         /\ \A i \in DOMAIN q.snap : i \in Id
<1>1. nver \in Nat
  BY DEF TypeOK, HistoryOK
<1>2. job.cur \in Id /\ job.rel \in Path /\ job.seen \in Tree /\ job.stage \in Tree
  BY DEF TypeOK, LocalsOK, Job
<1>3. \A t \in Tree : t.ver \in Nat
  BY DEF Tree
<1>4. \A p \in DOMAIN disk : p \in Path /\ disk[p] \in Tree
  BY DEF TypeOK, FolderOK, Partial
<1>5. \A i \in DOMAIN db : i \in Id /\ db[i].ver \in Nat
  BY DEF TypeOK, BackendOK, Partial, Row
<1>6. \A i \in DOMAIN man : i \in Id /\ man[i].path \in Path /\ man[i].hash \in Tree
  BY DEF TypeOK, ManifestOK, Partial, Entry
<1>7. \A i \in DOMAIN ledger : i \in Id /\ ledger[i].path \in Path /\ ledger[i].hash \in Tree
  BY DEF TypeOK, ManifestOK, Partial, Entry
<1>8. \A it \in q.imp : it.rel \in Path /\ it.seen \in Tree
  BY DEF TypeOK, WorkOK, Work
<1>9. \A j \in Id : clock[j] \in Nat
  BY DEF TypeOK, BackendOK
<1>10. \A i \in DOMAIN q.snap : i \in Id
  BY DEF TypeOK, WorkOK, Partial
<1> QED BY <1>1, <1>2, <1>3, <1>4, <1>5, <1>6, <1>7, <1>8, <1>9, <1>10

\* Where no directory is moved, every directory is claimed, and no step works on
\* an unclaimed one.
LEMMA SteadyPlaces ==
  ASSUME TypeOK, LadderInv, Steady
  PROVE  /\ pc \notin {"rekey", "zipNew", "asNew"}
         /\ pc # "down" => \A p \in DOMAIN disk : Claimed(p)
         /\ pc # "down" => Rekeys = {}
<1>1. Kept = Path
  BY DEF Kept
<1>2. job.rel \in Path /\ \A p \in DOMAIN disk : p \in Path
  BY VersionTypes
<1>3. pc # "down" => Rekeys = {}
  BY RekeysStray DEF LadderInv
<1> QED BY <1>1, <1>2, <1>3 DEF LadderInv, KeptOK, StrayOK

\* The calls that Steady keeps whole are answered as they are asked.
LEMMA SteadyCalls ==
  ASSUME TypeOK, Steady
  PROVE  /\ pc \in {"direct", "create", "fill", "unshell"} => ~Spend("fault")
         /\ Crash => pc \notin {"swap", "relocated"} \cup Shelled
<1>1. Spend("fault") => pc \in Windows["fault"]
  BY SpendEffect DEF Kind
<1>2. Crash => pc \in Windows["crash"]
  BY SpendEffect DEF Crash, Kind
<1> QED BY <1>1, <1>2 DEF Steady, Firm

\* What a stamp says of the past stays true.
LEMMA DatedKept ==
  ASSUME TypeOK, \A j \in Id : clock'[j] \in Nat /\ clock[j] <= clock'[j]
  PROVE  \A st : Dated(st) => Dated(st)'
<1> SUFFICES ASSUME NEW st, Dated(st)
             PROVE  Dated(st)'
  OBVIOUS
<1>1. PICK j \in Id : \E n \in 1..clock[j] : st = <<j, n>>
  BY DEF Dated
<1>2. PICK n \in 1..clock[j] : st = <<j, n>>
  BY <1>1
<1>3. n \in 1..clock'[j]
  BY VersionTypes
<1> QED BY <1>2, <1>3 DEF Dated

\* The next stamp of a row is of the future.
LEMMA NextStamp ==
  ASSUME TypeOK, NEW i \in Id
  PROVE  ~Dated(<<i, clock[i] + 1>>)
<1> SUFFICES ASSUME Dated(<<i, clock[i] + 1>>)
             PROVE  FALSE
  OBVIOUS
<1>1. PICK j \in Id : \E n \in 1..clock[j] : <<i, clock[i] + 1>> = <<j, n>>
  BY DEF Dated
<1>2. PICK n \in 1..clock[j] : <<i, clock[i] + 1>> = <<j, n>>
  BY <1>1
<1>3. j = i /\ n = clock[i] + 1 /\ clock[i] \in Nat
  BY <1>2, VersionTypes
<1> QED BY <1>3

\* One write: the row's content is what was written, its stamp the next.
LEMMA WriteRows ==
  ASSUME TypeOK, NEW i \in Id, NEW v, NEW n, Write(i, v, n)
  PROVE  /\ \A j \in Id : clock'[j] \in Nat /\ clock[j] <= clock'[j]
         /\ DOMAIN db' = DOMAIN db \cup {i}
         /\ clock'[i] = clock[i] + 1 /\ db'[i].ver = v /\ db'[i].name = n
         /\ db'[i].stamp = <<i, clock[i] + 1>>
         /\ \A j \in DOMAIN db \ {i} : db'[j] = db[j]
         /\ \A j \in Id \ {i} : clock'[j] = clock[j]
<1>1. /\ DOMAIN db' = DOMAIN db \cup {i}
      /\ clock'[i] = clock[i] + 1
      /\ \A j \in Id \ {i} : clock'[j] = clock[j]
      /\ db'[i] = [ver |-> v, name |-> n, stamp |-> <<i, clock[i] + 1>>]
      /\ \A j \in DOMAIN db \ {i} : db'[j] = db[j]
  BY WriteEffect
<1>2. \A j \in Id : clock[j] \in Nat
  BY VersionTypes
<1> QED BY <1>1, <1>2

\* What people do to the rows: each is left alone, or written with a new stamp,
\* where no import is in progress, and with what it held before superseded or kept.
LEMMA DbRows ==
  ASSUME TypeOK, LadderInv, Steady, DbChange
  PROVE  /\ nver' \in Nat /\ nver <= nver' /\ superseded \subseteq superseded'
         /\ \A j \in Id : clock'[j] \in Nat /\ clock[j] <= clock'[j]
         /\ \A j \in DOMAIN db' :
              \/ j \in DOMAIN db /\ db'[j] = db[j] /\ clock'[j] = clock[j]
              \/ /\ j \in DOMAIN db \cup Fresh
                 /\ clock'[j] = clock[j] + 1 /\ db'[j].stamp = <<j, clock[j] + 1>>
                 /\ db'[j].ver = nver' \/ (j \in DOMAIN db /\ db'[j].ver = db[j].ver)
                 /\ j \in DOMAIN db => db[j].ver \in superseded' \cup {db'[j].ver}
         /\ pc = "down" \/ (pc \notin Exposed /\ q.done = {})
<1> DEFINE Rows == \A j \in DOMAIN db' :
              \/ j \in DOMAIN db /\ db'[j] = db[j] /\ clock'[j] = clock[j]
              \/ /\ j \in DOMAIN db \cup Fresh
                 /\ clock'[j] = clock[j] + 1 /\ db'[j].stamp = <<j, clock[j] + 1>>
                 /\ db'[j].ver = nver' \/ (j \in DOMAIN db /\ db'[j].ver = db[j].ver)
                 /\ j \in DOMAIN db => db[j].ver \in superseded' \cup {db'[j].ver}
           Times == \A j \in Id : clock'[j] \in Nat /\ clock[j] <= clock'[j]
           Versioned == nver' \in Nat /\ nver <= nver' /\ superseded \subseteq superseded'
           Apart == pc = "down" \/ (pc \notin Exposed /\ q.done = {})
<1>1. ASSUME NEW i \in Id, NEW v, NEW n, Write(i, v, n), i \in DOMAIN db \cup Fresh,
             v = nver' \/ (i \in DOMAIN db /\ v = db[i].ver),
             i \in DOMAIN db => db[i].ver \in superseded' \cup {v}
      PROVE  Rows /\ Times
  <2>1. /\ Times /\ DOMAIN db' = DOMAIN db \cup {i}
        /\ clock'[i] = clock[i] + 1 /\ db'[i].ver = v
        /\ db'[i].stamp = <<i, clock[i] + 1>>
        /\ \A j \in DOMAIN db \ {i} : db'[j] = db[j]
        /\ \A j \in Id \ {i} : clock'[j] = clock[j]
    BY <1>1, WriteRows
  <2>2. DOMAIN db \subseteq Id
    BY VersionTypes
  <2> QED BY <1>1, <2>1, <2>2
<1>2. ASSUME NEW S, db' = Drop(db, S) \/ db' = Nothing, clock' = clock
      PROVE  Rows /\ Times
  <2>1. \A j \in DOMAIN db' : j \in DOMAIN db /\ db'[j] = db[j]
    BY <1>2 DEF Drop, Restrict, Nothing
  <2> QED BY <1>2, <2>1, VersionTypes
<1>3. ASSUME NEW k \in DbKind, Spend(k)
      PROVE  Apart
  <2>1. pc \in Windows[k]
    BY <1>3 DEF Spend
  <2>2. q.done # {} => "reseed" \in Windows[k]
    BY <1>3 DEF Spend
  <2> QED BY <2>1, <2>2 DEF Steady, Exposed
<1>4. ASSUME NEW S, NewVersion(S)
      PROVE  Versioned /\ S \subseteq superseded' /\ nver' = nver + 1
  BY <1>4, VersionTypes DEF NewVersion
<1>5. ASSUME UNCHANGED lineage \/ Discard
      PROVE  Versioned
  BY <1>5, VersionTypes DEF Discard
<1>6. ASSUME NEW i \in Id, DbEdit(i)
      PROVE  Rows /\ Times /\ Versioned /\ Apart
  <2>1. NewVersion({db[i].ver}) /\ Write(i, nver + 1, db[i].name) /\ i \in DOMAIN db
        /\ Spend("dbEdit")
    BY <1>6 DEF DbEdit
  <2>2. Versioned /\ db[i].ver \in superseded' /\ nver' = nver + 1
    BY <1>4, <2>1
  <2>3. Rows /\ Times
    BY <1>1, <2>1, <2>2
  <2> QED BY <1>3, <2>1, <2>2, <2>3 DEF DbKind
<1>7. ASSUME NEW i \in Id, DbTouch(i)
      PROVE  Rows /\ Times /\ Versioned /\ Apart
  BY <1>1, <1>3, <1>5, <1>7 DEF DbTouch, DbKind
<1>8. ASSUME NEW i \in Id, NEW n \in Name, DbRename(i, n)
      PROVE  Rows /\ Times /\ Versioned /\ Apart
  BY <1>1, <1>3, <1>5, <1>8 DEF DbRename, DbKind
<1>9. ASSUME NEW i \in Id, NEW n \in Name, DbCreate(i, n)
      PROVE  Rows /\ Times /\ Versioned /\ Apart
  <2>1. NewVersion({}) /\ Write(i, nver + 1, n) /\ i \in Fresh /\ Spend("dbCreate")
    BY <1>9 DEF DbCreate
  <2>2. Versioned /\ nver' = nver + 1
    BY <1>4, <2>1
  <2>3. i \notin DOMAIN db
    BY <2>1, VersionTypes DEF LadderInv, UsedOK, Fresh
  <2>4. Rows /\ Times
    BY <1>1, <2>1, <2>2, <2>3
  <2> QED BY <1>3, <2>1, <2>2, <2>4 DEF DbKind
<1>10. ASSUME NEW i \in Id, DbDelete(i)
       PROVE  Rows /\ Times /\ Versioned /\ Apart
  BY <1>2, <1>3, <1>5, <1>10 DEF DbDelete, DbKind
<1>11. CASE DbWipe
  <2>1. Rows /\ Times /\ Versioned
    BY <1>2, <1>5, <1>11 DEF DbWipe
  <2> QED BY <1>11, <2>1 DEF DbWipe
<1>12. Rows /\ Times /\ Versioned /\ Apart
  BY <1>6, <1>7, <1>8, <1>9, <1>10, <1>11 DEF DbChange
<1> QED BY <1>12

\* What people do to the directories: none appears, and each is left alone or has
\* a version nobody has seen, where no swap is about to land.
LEMMA DiskRows ==
  ASSUME TypeOK, Steady, DiskChange
  PROVE  /\ nver' \in Nat /\ nver <= nver' /\ superseded \subseteq superseded'
         /\ \A p \in DOMAIN disk' :
              /\ p \in DOMAIN disk
              /\ \/ disk'[p] = disk[p]
                 \/ disk'[p].ver = nver + 1 /\ nver' = nver + 1 /\ disk[p].ver \in superseded'
         /\ pc # "swap"
<1> DEFINE Rows == \A p \in DOMAIN disk' :
              /\ p \in DOMAIN disk
              /\ \/ disk'[p] = disk[p]
                 \/ disk'[p].ver = nver + 1 /\ nver' = nver + 1 /\ disk[p].ver \in superseded'
           Versioned == nver' \in Nat /\ nver <= nver' /\ superseded \subseteq superseded'
<1>1. ASSUME NEW k \in {"diskEdit", "diskBreak", "diskDelete"}, Spend(k)
      PROVE  pc # "swap"
  <2>1. pc \in Windows[k]
    BY <1>1 DEF Spend
  <2> QED BY <2>1 DEF Steady
<1>2. ASSUME NEW k \in {"diskMove", "diskCopy"}, Spend(k)
      PROVE  FALSE
  <2>1. k \in Kind
    BY DEF Kind
  <2>2. \E budget \in Budgets : budget[k] # 0
    BY <1>2, <2>1, SpendEffect
  <2> QED BY <2>2 DEF Steady
<1>3. ASSUME NEW p \in Path, NEW ok \in BOOLEAN, DiskEdit(p, ok)
      PROVE  Versioned /\ Rows /\ pc # "swap"
  <2>1. /\ p \in DOMAIN disk /\ NewVersion({disk[p].ver})
        /\ disk' = [disk EXCEPT ![p].ver = nver + 1, ![p].ok = ok]
        /\ Spend(IF ok THEN "diskEdit" ELSE "diskBreak")
    BY <1>3 DEF DiskEdit, Exists
  <2>2. pc # "swap"
    BY <1>1, <2>1
  <2>3. nver' = nver + 1 /\ superseded' = superseded \cup {disk[p].ver} /\ nver \in Nat
    BY <2>1, VersionTypes DEF NewVersion
  <2>4. DOMAIN disk' = DOMAIN disk /\ disk'[p].ver = nver + 1
        /\ \A r \in DOMAIN disk \ {p} : disk'[r] = disk[r]
    BY <2>1, VersionTypes DEF Tree
  <2> QED BY <2>2, <2>3, <2>4
<1>4. ASSUME NEW p \in Path, DiskDelete(p)
      PROVE  Versioned /\ Rows /\ pc # "swap"
  <2>1. disk' = Drop(disk, {p}) /\ Discard /\ Spend("diskDelete")
    BY <1>4 DEF DiskDelete
  <2>2. pc # "swap"
    BY <1>1, <2>1
  <2>3. Versioned
    BY <2>1, VersionTypes DEF Discard
  <2>4. Rows
    BY <2>1 DEF Drop, Restrict
  <2> QED BY <2>2, <2>3, <2>4
<1>5. ASSUME NEW p \in Path, NEW n \in Name,
             DiskMove(p, n) \/ DiskMoveUnseen(p, n) \/ DiskCopy(p, n)
      PROVE  FALSE
  BY <1>2, <1>5 DEF DiskMove, DiskMoveUnseen, DiskCopy
<1>6. Versioned /\ Rows /\ pc # "swap"
  BY <1>3, <1>4, <1>5 DEF DiskChange
<1> QED BY <1>6

\* Numbers, stamps and places survive what is done outside the engine's task.
LEMMA EnvironmentBooks ==
  ASSUME TypeOK, Control, LadderInv, Steady, BookInv,
     DbChange \/ DiskChange \/ Crash \/ \E on \in BOOLEAN : SetPaused(on)
  PROVE  BookInv'
<1> USE DEF BookInv
<1>1. CASE DbChange
  <2>1. /\ disk' = disk /\ ledger' = ledger /\ man' = man
        /\ pc' = pc /\ polling' = polling /\ back' = back /\ job' = job /\ q' = q
    BY <1>1, DbFrame
  <2>2. /\ nver' \in Nat /\ nver <= nver'
        /\ \A j \in Id : clock'[j] \in Nat /\ clock[j] <= clock'[j]
        /\ \A j \in DOMAIN db' :
             \/ j \in DOMAIN db /\ db'[j] = db[j] /\ clock'[j] = clock[j]
             \/ /\ clock'[j] = clock[j] + 1 /\ db'[j].stamp = <<j, clock[j] + 1>>
                /\ db'[j].ver = nver' \/ (j \in DOMAIN db /\ db'[j].ver = db[j].ver)
        /\ pc = "down" \/ (pc \notin Exposed /\ q.done = {})
    BY <1>1, DbRows
  <2>3. NumberedOK'
    <3>1. \A j \in DOMAIN db' : db'[j].ver <= nver'
      BY <2>2, VersionTypes DEF NumberedOK
    <3> QED BY <2>1, <2>2, <3>1, VersionTypes DEF NumberedOK
  <2>4. StampsOK'
    <3>1. \A st : Dated(st) => Dated(st)'
      BY <2>2, DatedKept
    <3>2. \A j \in DOMAIN db' : db'[j].stamp = <<j, clock'[j]>>
      BY <2>2 DEF StampsOK
    <3> QED BY <2>1, <3>1, <3>2 DEF StampsOK
  <2>5. DoneOK'
    BY <2>1, <2>2 DEF DoneOK, Exposed
  <2>6. SavedOK' /\ OntoOK'
    BY <2>1 DEF SavedOK, OntoOK, Claimed
  <2> QED BY <2>3, <2>4, <2>5, <2>6
<1>2. CASE DiskChange
  <2>1. /\ ledger' = ledger /\ man' = man /\ db' = db /\ clock' = clock
        /\ pc' = pc /\ polling' = polling /\ back' = back /\ job' = job /\ q' = q
    BY <1>2, DiskFrame
  <2>2. /\ nver' \in Nat /\ nver <= nver'
        /\ \A p \in DOMAIN disk' : p \in DOMAIN disk /\
             (disk'[p] = disk[p] \/ (disk'[p].ver = nver + 1 /\ nver' = nver + 1))
    BY <1>2, DiskRows
  <2>3. NumberedOK'
    <3>1. \A p \in DOMAIN disk' : disk'[p].ver <= nver'
      BY <2>2, VersionTypes DEF NumberedOK
    <3> QED BY <2>1, <2>2, <3>1, VersionTypes DEF NumberedOK
  <2>4. StampsOK' /\ DoneOK'
    BY <2>1 DEF StampsOK, Dated, DoneOK
  <2>5. SavedOK' /\ OntoOK'
    BY <2>1 DEF SavedOK, OntoOK, Claimed
  <2> QED BY <2>3, <2>4, <2>5
<1>3. CASE Crash
  <2>1. /\ UNCHANGED <<disk, ledger, db, clock, nver>> /\ man' = Nothing /\ pc' = "down"
        /\ polling' = FALSE /\ job' = NoJob /\ q' = NoWork
    BY <1>3 DEF Crash
  <2>2. NoJob.seen.ver = 0 /\ NoJob.stage.ver = 0
    BY DEF NoJob, Exported, Shell
  <2>3. NumberedOK'
    BY <2>1, <2>2, VersionTypes DEF NumberedOK, NoWork, Nothing
  <2>4. StampsOK' /\ DoneOK' /\ SavedOK' /\ OntoOK'
    BY <2>1 DEF StampsOK, Dated, DoneOK, SavedOK, OntoOK, Onto, Pipe, NoWork, Nothing
  <2> QED BY <2>3, <2>4
<1>4. ASSUME NEW on \in BOOLEAN, SetPaused(on)
      PROVE  BookInv'
  BY <1>4 DEF SetPaused, NumberedOK, StampsOK, Dated, DoneOK, SavedOK, OntoOK, Claimed
<1> QED BY <1>1, <1>2, <1>3, <1>4

\* A row's stamp is of the past.
LEMMA RowDated ==
  ASSUME TypeOK, LadderInv, StampsOK, NEW i \in DOMAIN db
  PROVE  Dated(db[i].stamp)
<1>1. i \in Id /\ clock[i] \in Nat /\ clock[i] > 0 /\ db[i].stamp = <<i, clock[i]>>
  BY VersionTypes DEF LadderInv, UsedOK, StampsOK
<1> QED BY <1>1 DEF Dated

\* A step that leaves the stores and the work lists alone leaves the books alone.
LEMMA BooksKept ==
  ASSUME BookInv, UNCHANGED <<disk, db, ledger, man, nver, clock>>,
         q'.snap = q.snap, q'.imp = q.imp, q'.dirty = q.dirty,
         job'.seen.ver <= nver, job'.stage.ver <= nver
  PROVE  /\ NumberedOK' /\ StampsOK'
         /\ pc \notin {"down", "relocated"} => SavedOK'
BY DEF BookInv, NumberedOK, StampsOK, Dated, SavedOK, Claimed

\* Reconcile takes its facts from what it lists.
LEMMA ReconcileBooks ==
  ASSUME NameInv, NameInv', Steady, BookInv, Reconcile
  PROVE  BookInv'
<1> USE DEF NameInv, BookInv
<1>1. CASE Start
  <2>1. /\ UNCHANGED <<disk, db, ledger, nver, clock, job, back, polling, q>>
        /\ man' = ledger /\ pc = "down" /\ pc' = "boot"
    BY <1>1 DEF Start
  <2>2. NumberedOK' /\ StampsOK' /\ SavedOK'
    BY <2>1 DEF NumberedOK, StampsOK, Dated, SavedOK, Claimed
  <2> QED BY <2>1, <2>2 DEF DoneOK, OntoOK, Onto, Pipe
<1>2. CASE Boot
  <2>1. /\ UNCHANGED <<disk, db, ledger, man, nver, clock, job, polling>>
        /\ q'.snap = q.snap /\ q'.imp = q.imp /\ q'.dirty = q.dirty /\ q'.done = q.done
        /\ pc = "boot" /\ pc' \in {"snap", "rekey"}
    BY <1>2 DEF Boot, TypeOK, WorkOK, Work
  <2> QED BY <2>1, BooksKept, SteadyPlaces DEF NumberedOK, DoneOK, OntoOK, Onto, Pipe
<1>3. CASE Snapshot
  <2>1. /\ UNCHANGED <<disk, db, ledger, man, nver, clock, job, polling, back>>
        /\ q'.snap = db /\ q'.imp = q.imp /\ q'.dirty = q.dirty /\ q'.done = q.done
        /\ pc = "snap" /\ pc' = "decide"
    BY <1>3 DEF Snapshot, TypeOK, WorkOK, Work
  <2>2. NumberedOK' /\ SavedOK'
    BY <2>1 DEF NumberedOK, SavedOK, Claimed
  <2>3. StampsOK'
    BY <2>1, RowDated DEF StampsOK, Dated
  <2> QED BY <2>1, <2>2, <2>3 DEF DoneOK, OntoOK, Onto, Pipe
<1>4. CASE SnapshotFails
  <2>1. /\ UNCHANGED <<disk, db, ledger, man, nver, clock, job, polling, back>>
        /\ q'.snap = Nothing /\ q'.imp = q.imp /\ q'.dirty = q.dirty /\ q'.done = {}
        /\ pc \in {"snap", "reseed"} /\ pc' = "boot"
    BY <1>4 DEF SnapshotFails, TypeOK, WorkOK, Work
  <2>2. NumberedOK' /\ SavedOK'
    BY <2>1 DEF NumberedOK, SavedOK, Claimed
  <2>3. StampsOK'
    BY <2>1 DEF StampsOK, Dated, Nothing
  <2> QED BY <2>1, <2>2, <2>3 DEF DoneOK, OntoOK, Onto, Pipe
<1>5. ASSUME NEW moved \in SUBSET Id, Decide(moved)
      PROVE  BookInv'
  <2> DEFINE live == {i \in DOMAIN man : Exists(man[i].path) => disk[man[i].path].ok}
             Moved(i) == IF man[i].stamp = NoStamp THEN i \in moved
                         ELSE q.snap[i].stamp # man[i].stamp
             listed == live \cap DOMAIN q.snap
             noop == {i \in listed : Clean(i) /\ ~Moved(i)}
             export == {i \in listed : ~Exists(man[i].path) \/ Moved(i)}
             import == {i \in live \ (noop \cup export) : Exists(man[i].path)}
             forget == live \ (noop \cup export \cup import)
             Item(p) == [rel |-> p, seen |-> disk[p]]
             imp == {Item(man[i].path) : i \in import} \cup {Item(p) : p \in Unclaimed}
  <2>1. /\ UNCHANGED <<disk, db, ledger, nver, clock, job, polling, back>>
        /\ man' = Drop(man, forget)
        /\ q'.snap = q.snap /\ q'.imp = imp /\ q'.dirty = (forget # {}) /\ q'.done = {}
        /\ pc = "decide" /\ pc' = "recImp"
    BY <1>5 DEF Decide, TypeOK, WorkOK, Work
  <2>2. \A it \in imp : it.rel \in DOMAIN disk /\ it.seen = disk[it.rel]
    BY DEF Exists, Unclaimed
  <2> HIDE DEF imp, forget
  <2>3. DOMAIN man' = DOMAIN man \ forget /\ \A i \in DOMAIN man' : man'[i] = man[i]
    BY <2>1 DEF Drop, Restrict
  <2>4. NumberedOK'
    BY <2>1, <2>2, <2>3 DEF NumberedOK
  <2>5. StampsOK'
    BY <2>1, <2>3 DEF StampsOK, Dated
  <2>6. SavedOK'
    <3>1. ~q.dirty
      BY <2>1 DEF LadderInv, ApartOK, Recovering, Pipe
    <3>2. ~q'.dirty => forget = {}
      BY <2>1
    <3> QED BY <2>1, <2>3, <3>1, <3>2 DEF SavedOK, Claimed
  <2>7. DoneOK' /\ OntoOK'
    BY <2>1 DEF DoneOK, OntoOK, Onto, Pipe
  <2> QED BY <2>4, <2>5, <2>6, <2>7
<1>6. ASSUME NEW it \in q.imp, RecImport(it)
      PROVE  BookInv'
  <2> DEFINE p == it.rel
             valid == Exists(p) /\ disk[p].ok /\ (Claimed(p) => disk[p].id = Owner(p))
  <2>1. /\ UNCHANGED <<disk, db, ledger, man, nver, clock, polling>>
        /\ q'.snap = q.snap /\ q'.imp = q.imp \ {it} /\ q'.dirty = q.dirty
        /\ q'.done = q.done /\ pc = "recImp" /\ ~polling
    BY <1>6 DEF RecImport, TypeOK, WorkOK, Work, Control, ReturnsOK, Exporting, Pipe
  <2>2. \/ UNCHANGED <<pc, back, job>>
        \/ /\ back' = "recImp" /\ pc' = (IF Claimed(p) THEN "direct" ELSE "asNew")
           /\ job'.rel = p /\ (Claimed(p) => job'.cur = Owner(p))
           /\ job'.seen = it.seen /\ job'.stage = disk[p] /\ p \in DOMAIN disk
    BY <1>6 DEF RecImport, Exists
  <2>3. NumberedOK' /\ StampsOK' /\ SavedOK'
    BY <2>1, <2>2 DEF NumberedOK, StampsOK, Dated, SavedOK, Claimed
  <2>4. DoneOK'
    BY <2>1, <2>2 DEF DoneOK, Pipe
  <2>5. OntoOK'
    BY <2>1, <2>2, OwnerClaims DEF OntoOK, Onto, Pipe
  <2> QED BY <2>3, <2>4, <2>5
<1>7. CASE RecSave
  <2>1. /\ UNCHANGED <<disk, db, man, nver, clock, job, polling>>
        /\ ledger' = IF q.dirty THEN man ELSE ledger
        /\ q'.snap = q.snap /\ q'.imp = q.imp /\ q'.dirty = FALSE /\ q'.done = q.done
        /\ pc = "recImp" /\ pc' = "export" /\ ~polling
    BY <1>7 DEF RecSave, TypeOK, WorkOK, Work, Control, ReturnsOK, Exporting, Pipe
  <2>2. NumberedOK' /\ StampsOK' /\ SavedOK'
    BY <2>1 DEF NumberedOK, StampsOK, Dated, SavedOK, Claimed
  <2> QED BY <2>1, <2>2 DEF DoneOK, OntoOK, Onto, Pipe
<1>8. CASE RecNoops
  <2>1. /\ UNCHANGED <<disk, db, ledger, man, nver, clock, job>> /\ ~polling /\ ~polling'
        /\ q'.snap = Nothing /\ q'.imp = q.imp /\ q'.dirty = q.dirty /\ q'.done = q.done
        /\ pc = "export" /\ pc' \in {"idle", "reseed"}
        /\ pc' = "idle" => q.done = {}
    BY <1>8 DEF RecNoops, TypeOK, WorkOK, Work
  <2>2. NumberedOK' /\ SavedOK'
    BY <2>1 DEF NumberedOK, SavedOK, Claimed
  <2>3. StampsOK'
    BY <2>1 DEF StampsOK, Dated, Nothing
  <2> QED BY <2>1, <2>2, <2>3 DEF DoneOK, OntoOK, Onto, Pipe
<1>9. CASE Reseed
  <2>1. /\ UNCHANGED <<disk, db, nver, clock, job>> /\ ~polling'
        /\ q'.snap = q.snap /\ q'.imp = q.imp /\ q'.dirty = q.dirty /\ q'.done = {}
        /\ pc = "reseed" /\ pc' = "idle" /\ ledger' \in {ledger, man'}
    BY <1>9 DEF Reseed, TypeOK, WorkOK, Work
  <2>2. DOMAIN man' = DOMAIN man /\ \A i \in DOMAIN man :
          /\ man'[i].path = man[i].path /\ man'[i].hash = man[i].hash
          /\ man'[i].stamp = man[i].stamp \/ (i \in DOMAIN db /\ man'[i].stamp = db[i].stamp)
    <3>1. \A i \in DOMAIN man : /\ [man[i] EXCEPT !.stamp = db[i].stamp].path = man[i].path
                                /\ [man[i] EXCEPT !.stamp = db[i].stamp].hash = man[i].hash
                                /\ [man[i] EXCEPT !.stamp = db[i].stamp].stamp = db[i].stamp
      BY PartialValue DEF TypeOK, ManifestOK, Entry
    <3> QED BY <1>9, <3>1 DEF Reseed
  <2>3. NumberedOK'
    BY <2>1, <2>2 DEF NumberedOK
  <2>4. StampsOK'
    <3>1. \A i \in DOMAIN man' : Dated(man'[i].stamp)
      BY <2>2, RowDated DEF StampsOK
    <3> QED BY <2>1, <3>1 DEF StampsOK, Dated
  <2>5. SavedOK'
    BY <2>1, <2>2 DEF SavedOK, Claimed
  <2> QED BY <2>1, <2>3, <2>4, <2>5 DEF DoneOK, OntoOK, Onto, Pipe
<1> QED BY <1>1, <1>2, <1>3, <1>4, <1>5, <1>6, <1>7, <1>8, <1>9 DEF Reconcile

\* What is in no job is nothing's.
LEMMA NoJobVersions == NoJob.seen.ver = 0 /\ NoJob.stage.ver = 0
BY DEF NoJob, Exported, Shell

\* The main loop takes its facts from what it lists.
LEMMA LoopBooks ==
  ASSUME NameInv, NameInv', Steady, BookInv, Loop
  PROVE  BookInv'
<1> USE DEF NameInv, BookInv
<1>1. CASE HandlePause
  <2>1. /\ UNCHANGED <<disk, db, ledger, nver, clock, job, pc, back, polling, q>>
        /\ pc = "idle" /\ man' \in {man, ledger}
    BY <1>1 DEF HandlePause, ReloadManifest
  <2>2. NumberedOK' /\ StampsOK' /\ SavedOK'
    BY <2>1 DEF NumberedOK, StampsOK, Dated, SavedOK, Claimed
  <2> QED BY <2>1, <2>2 DEF DoneOK, OntoOK, Onto, Pipe
<1>2. ASSUME NEW due \in SUBSET Ripe, PollCycle(due)
      PROVE  BookInv'
  <2>1. /\ UNCHANGED <<disk, db, ledger, man, nver, clock, job>>
        /\ q'.snap = Restrict(db, due) /\ q'.imp = q.imp /\ q'.dirty = q.dirty
        /\ q'.done = q.done /\ pc = "idle" /\ pc' \in {"idle", "export"}
    BY <1>2 DEF PollCycle, TypeOK, WorkOK, Work
  <2>2. due \subseteq DOMAIN db
    BY DEF Ripe, Observed
  <2>3. NumberedOK' /\ SavedOK'
    BY <2>1 DEF NumberedOK, SavedOK, Claimed
  <2>4. StampsOK'
    <3>1. \A i \in DOMAIN q'.snap : i \in DOMAIN db /\ q'.snap[i] = db[i]
      BY <2>1, <2>2 DEF Restrict
    <3>2. \A i \in DOMAIN q'.snap : Dated(q'.snap[i].stamp)
      BY <3>1, RowDated
    <3> QED BY <2>1, <3>2 DEF StampsOK, Dated
  <2> QED BY <2>1, <2>3, <2>4 DEF DoneOK, OntoOK, Onto, Pipe
<1>3. CASE PollDone
  <2>1. /\ UNCHANGED <<disk, db, ledger, man, nver, clock, job>>
        /\ q'.snap = Nothing /\ q'.imp = q.imp /\ q'.dirty = q.dirty
        /\ q'.done = q.done /\ pc = "export" /\ pc' = "idle" /\ polling
    BY <1>3 DEF PollDone, TypeOK, WorkOK, Work
  <2>2. NumberedOK' /\ SavedOK'
    BY <2>1 DEF NumberedOK, SavedOK, Claimed
  <2>3. StampsOK'
    BY <2>1 DEF StampsOK, Dated, Nothing
  <2> QED BY <2>1, <2>2, <2>3 DEF DoneOK, OntoOK, Onto, Pipe
<1>4. CASE Sweep \/ FsDone \/ \E due \in SUBSET Armed : TakeDue(due)
  <2>1. /\ UNCHANGED <<disk, db, ledger, man, nver, clock, job>>
        /\ q'.snap = q.snap /\ q'.imp = q.imp /\ q'.dirty = q.dirty /\ q'.done = q.done
        /\ pc \in {"idle", "swept", "fs"} /\ pc' \in {"idle", "swept", "fs", "rekey"}
    BY <1>4 DEF Sweep, FsDone, TakeDue, TypeOK, WorkOK, Work
  <2> QED BY <2>1, BooksKept, SteadyPlaces DEF NumberedOK, DoneOK, OntoOK, Onto, Pipe
<1> QED BY <1>1, <1>2, <1>3, <1>4 DEF Loop

\* A directory that changed is looked at, and its file found.
LEMMA FsBooks ==
  ASSUME NameInv, NameInv', Steady, BookInv, FsChange
  PROVE  BookInv'
<1> USE DEF NameInv, BookInv
<1>1. CASE \/ \E op \in q.rekey : RekeyMirrored(op) \/ RekeyUnmirrored(op)
           \/ RekeySave
  BY <1>1, SteadyPlaces DEF RekeyMirrored, RekeyUnmirrored, Rekey, RekeySave
<1>2. CASE \E p \in q.fs : FsGone(p) \/ FsBroken(p)
  <2>1. /\ UNCHANGED <<disk, db, ledger, man, nver, clock, job, back, polling>>
        /\ q'.snap = q.snap /\ q'.imp = q.imp /\ q'.dirty = q.dirty /\ q'.done = q.done
        /\ pc = "fs" /\ pc' \in {"fs", "rekey"}
    BY <1>2 DEF FsGone, FsBroken, TypeOK, WorkOK, Work
  <2> QED BY <2>1, BooksKept, SteadyPlaces DEF NumberedOK, DoneOK, OntoOK, Onto, Pipe
<1>3. ASSUME NEW p \in q.fs, FsHash(p)
      PROVE  BookInv'
  <2>1. /\ UNCHANGED <<disk, db, ledger, man, nver, clock, polling>>
        /\ q'.snap = q.snap /\ q'.imp = q.imp /\ q'.dirty = q.dirty /\ q'.done = q.done
        /\ pc = "fs" /\ pc' \in {"fsRoute", "rekey"} /\ p \in DOMAIN disk
        /\ job'.seen = disk[p] /\ job'.stage = job.stage
    BY <1>3 DEF FsHash, SetJob, Exists, TypeOK, WorkOK, Work, LocalsOK, Job
  <2> QED BY <2>1, BooksKept, SteadyPlaces DEF NumberedOK, DoneOK, OntoOK, Onto, Pipe
<1>4. CASE FsRoute
  <2>1. /\ UNCHANGED <<disk, db, ledger, man, nver, clock, q, polling>>
        /\ pc = "fsRoute" /\ back' = "fs" /\ pc' \in {"fs", "fetch", "zipNew"}
        /\ job'.seen \in {job.seen, NoJob.seen} /\ job'.stage \in {job.stage, NoJob.stage}
        /\ pc' = "fetch" => /\ Claimed(job.rel) /\ job'.rel = job.rel
                            /\ job'.cur = Owner(job.rel)
    BY <1>4 DEF FsRoute, TypeOK, LocalsOK, Job
  <2>2. nver \in Nat
    BY VersionTypes
  <2>3. NumberedOK' /\ StampsOK' /\ SavedOK'
    BY <2>1, <2>2, BooksKept, NoJobVersions DEF NumberedOK
  <2>4. OntoOK'
    BY <2>1, <2>3, SteadyPlaces, OwnerClaims DEF OntoOK, Onto, Pipe
  <2> QED BY <2>1, <2>3, <2>4 DEF DoneOK, Pipe
<1>5. CASE Copy \/ Zip \/ \E moved \in BOOLEAN : Fetch(moved)
  <2>1. /\ UNCHANGED <<disk, db, ledger, man, nver, clock, q, back, polling>>
        /\ pc \in {"fetch", "copy", "zipOver", "zipIn", "zipNew"}
        /\ pc' \in {"copy", "zipOver", "zipIn", "import", "direct", "asNew"}
        /\ pc = "zipNew" \/ pc' # "asNew"
        /\ job'.cur = job.cur /\ job'.rel = job.rel /\ job'.seen = job.seen
        /\ job'.stage = job.stage \/ (Exists(job.rel) /\ job'.stage = disk[job.rel])
    BY <1>5 DEF Copy, Zip, Fetch, TypeOK, LocalsOK, Job
  <2>2. NumberedOK' /\ StampsOK' /\ SavedOK'
    BY <2>1, BooksKept DEF NumberedOK, Exists
  <2>3. OntoOK' /\ DoneOK'
    BY <2>1, SteadyPlaces DEF OntoOK, Onto, DoneOK, Pipe
  <2> QED BY <2>2, <2>3
<1> QED BY <1>1, <1>2, <1>3, <1>4, <1>5 DEF FsChange

\* Numbers and stamps after a write to row i, the rest as it was.
LEMMA WriteBooks ==
  ASSUME TypeOK, BookInv, NEW i \in Id, NEW v \in Nat, NEW n, Write(i, v, n), v <= nver,
         UNCHANGED <<disk, ledger, nver>>, q'.snap = q.snap, q'.imp = q.imp,
         job'.seen.ver <= nver, job'.stage.ver <= nver,
         \A j \in DOMAIN man' : /\ man'[j].hash.ver <= nver
                               /\ \E k \in DOMAIN man : man'[j].stamp = man[k].stamp
  PROVE  NumberedOK' /\ StampsOK'
<1>1. /\ \A j \in Id : clock'[j] \in Nat /\ clock[j] <= clock'[j]
      /\ DOMAIN db' = DOMAIN db \cup {i}
      /\ clock'[i] = clock[i] + 1 /\ db'[i].ver = v
      /\ db'[i].stamp = <<i, clock[i] + 1>>
      /\ \A j \in DOMAIN db \ {i} : db'[j] = db[j]
      /\ \A j \in Id \ {i} : clock'[j] = clock[j]
  BY WriteRows
<1>2. NumberedOK'
  BY <1>1 DEF BookInv, NumberedOK
<1>3. \A st : Dated(st) => Dated(st)'
  BY <1>1, DatedKept
<1>4. \A j \in DOMAIN db' : db'[j].stamp = <<j, clock'[j]>>
  BY <1>1, VersionTypes DEF BookInv, StampsOK
<1>5. \A j \in DOMAIN man' : \A st : st = man'[j].stamp => Dated(st)'
  BY <1>3 DEF BookInv, StampsOK
<1>6. StampsOK'
  BY <1>3, <1>4, <1>5 DEF BookInv, StampsOK
<1> QED BY <1>2, <1>6

\* An import writes what it zipped, and records it under the place it has.
LEMMA ImportBooks ==
  ASSUME NameInv, NameInv', Steady, BookInv, ImportStep
  PROVE  BookInv'
<1> USE DEF NameInv, BookInv
<1>1. /\ job.cur \in Id /\ job.stage.ver \in Nat /\ nver \in Nat
      /\ job.seen.ver <= nver /\ job.stage.ver <= nver /\ Shell \in Nat /\ Shell <= nver
  BY VersionTypes DEF NumberedOK, Shell
<1>2. CASE Import
  <2>1. /\ UNCHANGED <<disk, ledger, man, nver, job, q, back, polling>>
        /\ pc = "import" /\ pc' = "finalize"
        /\ Write(job.cur, job.stage.ver, job.stage.name)
    BY <1>2 DEF Import, ImportOnto
  <2>2. NumberedOK' /\ StampsOK'
    BY <1>1, <2>1, WriteBooks DEF NumberedOK
  <2> QED BY <2>1, <2>2 DEF SavedOK, Claimed, DoneOK, OntoOK, Onto, Pipe
<1>3. CASE InPlace
  <2>1. job.cur \in DOMAIN man
    BY <1>3 DEF InPlace, Control, TrackedOK
  <2>2. /\ UNCHANGED <<disk, ledger, nver, back, polling>> /\ pc \in {"direct", "fill"}
        /\ Adopt(job.cur) /\ Write(job.cur, job.stage.ver, job.stage.name)
        /\ q'.imp = q.imp /\ q'.snap = q.snap
        /\ \/ back = "fs" /\ pc' = "finalize" /\ q' = q
           \/ back = "recImp" /\ pc' = "recImp" /\ q'.dirty
    BY <1>3 DEF InPlace, Importable, ImportOnto, Settle, TypeOK, WorkOK, Work, Control,
       ReturnsOK
  <2>3. /\ DOMAIN man' = DOMAIN man /\ job'.cur = job.cur /\ job'.rel = job.rel
        /\ job'.seen = job.seen /\ job'.stage = job.stage
        /\ \A j \in DOMAIN man : /\ man'[j].path = man[j].path
                                 /\ man'[j].stamp = man[j].stamp
                                 /\ man'[j].hash \in {man[j].hash, job.seen}
    BY <1>1, <2>1, <2>2, AdoptEffect
  <2>4. NumberedOK' /\ StampsOK'
    BY <1>1, <2>2, <2>3, WriteBooks DEF NumberedOK
  <2>5. SavedOK' /\ OntoOK'
    BY <2>2, <2>3 DEF SavedOK, Claimed, OntoOK, Onto, Pipe
  <2>6. DoneOK'
    BY <2>2 DEF DoneOK, Control, ReturnsOK, Pipe
  <2> QED BY <2>4, <2>5, <2>6
<1>4. CASE InPlaceFails \/ CreateFails \/ Unshell
  <2>1. /\ UNCHANGED <<disk, ledger, man, nver, job, q, back, polling>>
        /\ pc \in Fallback /\ pc' \in {"create", "unshell", "asNew2"}
        /\ \/ UNCHANGED backend
           \/ Write(job.cur, job.stage.ver, job.stage.name)
           \/ Write(job.cur, Shell, job.rel[1])
           \/ db' = Drop(db, {job.cur}) /\ clock' = clock
    BY <1>4 DEF InPlaceFails, CreateFails, Unshell, ImportOnto, Fallback
  <2>2. NumberedOK' /\ StampsOK'
    <3>1. CASE UNCHANGED backend
      BY <2>1, <3>1, BooksKept DEF NumberedOK
    <3>2. CASE Write(job.cur, job.stage.ver, job.stage.name)
      BY <1>1, <2>1, <3>2, WriteBooks DEF NumberedOK
    <3>3. CASE Write(job.cur, Shell, job.rel[1])
      BY <1>1, <2>1, <3>3, WriteBooks DEF NumberedOK
    <3>4. CASE db' = Drop(db, {job.cur}) /\ clock' = clock
      BY <2>1, <3>4 DEF NumberedOK, StampsOK, Dated, Drop, Restrict
    <3> QED BY <2>1, <3>1, <3>2, <3>3, <3>4
  <2>3. SavedOK' /\ OntoOK' /\ DoneOK'
    BY <2>1 DEF SavedOK, Claimed, OntoOK, Onto, DoneOK, Pipe, Fallback
  <2> QED BY <2>2, <2>3
<1>5. CASE Create
  <2>1. /\ UNCHANGED <<disk, ledger, man, nver, job, q, back, polling>>
        /\ pc = "create" /\ pc' = "fill" /\ Write(job.cur, Shell, job.rel[1])
    BY <1>5 DEF Create
  <2>2. NumberedOK' /\ StampsOK'
    BY <1>1, <2>1, WriteBooks DEF NumberedOK
  <2> QED BY <2>1, <2>2 DEF SavedOK, Claimed, DoneOK, OntoOK, Onto, Pipe
<1>6. ASSUME NEW i \in Id, AsNew(i)
      PROVE  BookInv'
  <2>1. pc = "asNew2" /\ job.cur \in DOMAIN man
    BY <1>6, SteadyPlaces DEF AsNew, Control, TrackedOK
  <2>2. /\ UNCHANGED <<disk, ledger, nver, back, polling>> /\ clock[i] = 0
        /\ Adopt(i) /\ Write(i, job.stage.ver, job.stage.name)
        /\ q'.imp = q.imp /\ q'.snap = q.snap
        /\ \/ back = "fs" /\ pc' = "finalize" /\ q' = q
           \/ back = "recImp" /\ pc' = "recImp" /\ q'.dirty
    BY <1>6, <2>1 DEF AsNew, Fresh, Settle, TypeOK, WorkOK, Work, Control, ReturnsOK
  <2>3. i \notin DOMAIN man \cup DOMAIN ledger
    BY <2>2 DEF LadderInv, UsedOK
  <2>4. /\ DOMAIN man' = (DOMAIN man \ {job.cur}) \cup {i}
        /\ man'[i].path = man[job.cur].path /\ man'[i].stamp = man[job.cur].stamp
        /\ man'[i].hash = job.seen
        /\ \A j \in DOMAIN man \ {job.cur, i} : man'[j] = man[j]
        /\ job'.cur = i /\ job'.rel = job.rel
        /\ job'.seen = job.seen /\ job'.stage = job.stage
    BY <1>1, <2>1, <2>2, AdoptEffect
  <2>5. NumberedOK' /\ StampsOK'
    BY <1>1, <2>1, <2>2, <2>4, WriteBooks DEF NumberedOK
  <2>6. SavedOK' /\ OntoOK'
    BY <2>1, <2>2, <2>3, <2>4 DEF SavedOK, Claimed, OntoOK, Onto, Pipe
  <2>7. DoneOK'
    BY <2>1, <2>2 DEF DoneOK, Control, ReturnsOK, Pipe
  <2> QED BY <2>5, <2>6, <2>7
<1>7. ASSUME NEW i \in Id, AsNewTwice(i)
      PROVE  BookInv'
  <2>1. /\ UNCHANGED <<disk, ledger, man, nver, job, q, back, polling, pc>>
        /\ Write(i, job.stage.ver, job.stage.name)
    BY <1>7 DEF AsNewTwice
  <2>2. NumberedOK' /\ StampsOK'
    BY <1>1, <2>1, WriteBooks DEF NumberedOK
  <2>3. pc # "decide"
    BY <1>7 DEF AsNewTwice
  <2> QED BY <2>1, <2>2, <2>3 DEF SavedOK, Claimed, DoneOK, OntoOK
<1>8. CASE Finalize
  <2>1. /\ UNCHANGED <<disk, db, clock, nver, q, polling, back>> /\ ledger' = man'
        /\ pc = "finalize" /\ pc' = back /\ back \in {"fs", "export"} /\ job' = NoJob
    BY <1>8 DEF Finalize, Return, Control, ReturnsOK
  <2>2. /\ DOMAIN man' = DOMAIN man
        /\ \A j \in DOMAIN man : /\ man'[j].path = man[j].path
                                 /\ man'[j].hash \in {man[j].hash, job.seen}
                                 /\ \/ man'[j].stamp = man[j].stamp
                                    \/ job.cur \in DOMAIN db /\ man'[j].stamp = db[job.cur].stamp
    <3> DEFINE e == [man[job.cur] EXCEPT !.stamp = db[job.cur].stamp, !.hash = job.seen]
    <3>1. job.cur \in DOMAIN man => /\ e.path = man[job.cur].path /\ e.hash = job.seen
                                    /\ e.stamp = db[job.cur].stamp
      BY PartialValue DEF TypeOK, ManifestOK, Entry
    <3>2. \/ man' = man
          \/ job.cur \in DOMAIN db /\ man' = [man EXCEPT ![job.cur] = e]
      BY <1>8 DEF Finalize
    <3> HIDE DEF e
    <3> QED BY <3>1, <3>2
  <2>3. NumberedOK'
    BY <1>1, <2>1, <2>2, NoJobVersions DEF NumberedOK
  <2>4. StampsOK'
    <3>1. \A j \in DOMAIN man' : Dated(man'[j].stamp)
      BY <2>2, RowDated DEF StampsOK
    <3> QED BY <2>1, <3>1 DEF StampsOK, Dated
  <2>5. SavedOK' /\ DoneOK' /\ OntoOK'
    BY <2>1 DEF SavedOK, Claimed, DoneOK, OntoOK, Onto, Pipe
  <2> QED BY <2>3, <2>4, <2>5
<1>9. CASE ImportFails
  <2>1. /\ UNCHANGED <<disk, ledger, man, nver, q, polling, back>>
        /\ pc \in Pipe /\ pc' = back /\ back \in {"fs", "export", "recImp"}
        /\ job' = NoJob
        /\ polling => back = "export"
        /\ UNCHANGED backend \/ Write(job.cur, job.stage.ver, job.stage.name)
    BY <1>9 DEF ImportFails, Fail, Return, Control, ReturnsOK, Pipe, ImportOnto
  <2>2. NumberedOK' /\ StampsOK'
    <3>1. CASE UNCHANGED backend
      BY <1>1, <2>1, <3>1, BooksKept, NoJobVersions
    <3>2. CASE Write(job.cur, job.stage.ver, job.stage.name)
      BY <1>1, <2>1, <3>2, WriteBooks, NoJobVersions DEF NumberedOK
    <3> QED BY <2>1, <3>1, <3>2
  <2>3. SavedOK' /\ OntoOK' /\ DoneOK'
    BY <2>1 DEF SavedOK, Claimed, OntoOK, Onto, DoneOK, Pipe
  <2> QED BY <2>2, <2>3
<1> QED BY <1>2, <1>3, <1>4, <1>5, <1>6, <1>7, <1>8, <1>9 DEF ImportStep

\* An export records what it exported, under the stamp it was listed with.
LEMMA ExportBooks ==
  ASSUME NameInv, NameInv', Steady, BookInv, ExportStep
  PROVE  BookInv'
<1> USE DEF NameInv, BookInv
<1>1. nver \in Nat
  BY VersionTypes
<1>2. ASSUME NEW i \in q.exp, Relocate(i)
      PROVE  BookInv'
  <2>1. /\ i \in DOMAIN man /\ UNCHANGED <<ledger, db, clock, nver, back, polling>>
        /\ pc = "export" /\ pc' = "relocated" /\ back = "export"
        /\ job'.seen = NoJob.seen /\ job'.stage = job.stage
        /\ q'.imp = q.imp /\ q'.snap = q.snap /\ q'.done = q.done
    BY <1>2
    DEF Relocate, Misplaced, SetJob, TypeOK, LocalsOK, WorkOK, Work, Job, Control, ReturnsOK,
        Exporting
  <2>2. /\ DOMAIN man' = DOMAIN man
        /\ \A j \in DOMAIN man : man'[j].hash = man[j].hash /\ man'[j].stamp = man[j].stamp
    BY <1>2, <2>1 DEF Relocate, TypeOK, ManifestOK, Partial, Entry
  <2>3. \A p \in DOMAIN disk' : \E r \in DOMAIN disk : disk'[p] = disk[r]
    <3> DEFINE t == disk[man[i].path]
    <3>1. \/ disk' = disk
          \/ Exists(man[i].path) /\ disk' = Put(Drop(disk, {man[i].path}), Wanted(i), t)
      BY <1>2 DEF Relocate
    <3> HIDE DEF t
    <3>2. \A p \in DOMAIN disk' : disk'[p] = t \/ (p \in DOMAIN disk /\ disk'[p] = disk[p])
      BY <3>1 DEF Put, Drop, Restrict
    <3>3. Exists(man[i].path) => \E r \in DOMAIN disk : t = disk[r]
      BY DEF t, Exists
    <3> QED BY <3>1, <3>2, <3>3
  <2>4. NumberedOK'
    BY <1>1, <2>1, <2>2, <2>3, NoJobVersions DEF NumberedOK
  <2>5. StampsOK'
    BY <2>1, <2>2 DEF StampsOK, Dated
  <2> QED BY <2>1, <2>4, <2>5 DEF SavedOK, DoneOK, OntoOK, Onto, Pipe
<1>3. ASSUME NEW i \in q.exp, Allocate(i)
      PROVE  BookInv'
  <2>1. /\ UNCHANGED <<disk, db, ledger, man, nver, clock, back, polling>>
        /\ q'.snap = q.snap /\ q'.imp = q.imp /\ q'.dirty = q.dirty /\ q'.done = q.done
        /\ pc = "export" /\ pc' = "download" /\ back = "export"
        /\ job'.seen = NoJob.seen /\ job'.stage = job.stage
    BY <1>3 DEF Allocate, SetJob, TypeOK, WorkOK, Work, LocalsOK, Job, Control, ReturnsOK,
        Exporting
  <2> QED BY <1>1, <2>1, BooksKept, NoJobVersions DEF NumberedOK, DoneOK, OntoOK, Onto, Pipe
<1>4. CASE RelocateSave
  <2>1. /\ UNCHANGED <<disk, db, man, nver, clock, job, q, back, polling>> /\ ledger' = man
        /\ pc = "relocated" /\ pc' = "download" /\ back = "export"
    BY <1>4 DEF RelocateSave, Control, ReturnsOK, Exporting
  <2>2. NumberedOK' /\ StampsOK' /\ SavedOK'
    BY <2>1 DEF NumberedOK, StampsOK, Dated, SavedOK, Claimed
  <2> QED BY <2>1, <2>2 DEF DoneOK, OntoOK, Onto, Pipe
<1>5. CASE Download
  <2>1. /\ UNCHANGED <<disk, db, ledger, man, nver, clock, q, back, polling>>
        /\ pc = "download" /\ pc' = "guard" /\ job.cur \in DOMAIN db
        /\ job'.seen = job.seen /\ job'.stage.ver = db[job.cur].ver
    BY <1>5 DEF Download, Exported, TypeOK, LocalsOK, Job
  <2> QED BY <2>1, BooksKept DEF NumberedOK, DoneOK, OntoOK, Onto, Pipe
<1>6. CASE DownloadFails \/ ExportBlocked
  <2>1. /\ UNCHANGED <<disk, db, ledger, man, nver, clock, q, back, polling>>
        /\ pc \in {"download", "guard"} /\ pc' = "export" /\ job' = NoJob
    BY <1>6 DEF DownloadFails, ExportBlocked, Fail, Return, Control, ReturnsOK, Exporting
  <2> QED BY <1>1, <2>1, BooksKept, NoJobVersions DEF DoneOK, OntoOK, Onto, Pipe
<1>7. CASE ExportNoOp \/ ExportRecord
  <2>1. /\ UNCHANGED <<disk, db, nver, clock, q, back, polling>> /\ ledger' = man'
        /\ man' = Record(job.stage) /\ pc = "guard"
        /\ (pc' = "export" /\ job' = NoJob) \/ (pc' = "swap" /\ job' = job)
        /\ job.cur \in DOMAIN q.snap
    BY <1>7
    DEF ExportNoOp, ExportRecord, Exportation, Return, Control, ReturnsOK, ListedOK, Exporting
  <2>2. /\ DOMAIN man' = DOMAIN man \cup {job.cur}
        /\ \A j \in DOMAIN man \ {job.cur} : man'[j] = man[j]
        /\ man'[job.cur].stamp = q.snap[job.cur].stamp /\ man'[job.cur].hash = job.stage
    BY <2>1 DEF Record, Put
  <2>3. NumberedOK'
    BY <1>1, <2>1, <2>2, NoJobVersions DEF NumberedOK
  <2>4. StampsOK'
    <3>1. \A j \in DOMAIN man' : Dated(man'[j].stamp)
      BY <2>1, <2>2 DEF StampsOK
    <3> QED BY <2>1, <3>1 DEF StampsOK, Dated
  <2>5. SavedOK' /\ DoneOK' /\ OntoOK'
    BY <2>1 DEF SavedOK, Claimed, DoneOK, OntoOK, Onto, Pipe
  <2> QED BY <2>3, <2>4, <2>5
<1>8. CASE ExportConflict
  <2>1. /\ UNCHANGED <<disk, db, ledger, man, nver, clock, q, back, polling>>
        /\ pc = "guard" /\ pc' = "zipOver" /\ back = "export"
        /\ job.cur \in DOMAIN man /\ job.rel \in DOMAIN disk
        /\ job'.seen = disk[job.rel] /\ job'.stage = job.stage
        /\ job'.cur = job.cur /\ job'.rel = job.rel
    BY <1>8 DEF ExportConflict, Dirty, Guarded, Exists, TypeOK, LocalsOK, Job, Control,
       ReturnsOK, Exporting
  <2>2. NumberedOK' /\ StampsOK' /\ SavedOK'
    BY <2>1, BooksKept DEF NumberedOK
  <2>3. OntoOK'
    BY <2>1 DEF OntoOK, PathInv, PlacedOK
  <2> QED BY <2>1, <2>2, <2>3 DEF DoneOK, Pipe
<1>9. CASE Swap
  <2>1. /\ UNCHANGED <<db, ledger, man, nver, clock, q, back, polling>>
        /\ pc = "swap" /\ pc' = "export" /\ job' = NoJob
        /\ disk' = Put(disk, job.rel, job.stage)
    BY <1>9 DEF Swap, Exportation, Return, Control, ReturnsOK, Exporting
  <2>2. \A p \in DOMAIN disk' : disk'[p] = job.stage \/ (p \in DOMAIN disk /\ disk'[p] = disk[p])
    BY <2>1 DEF Put
  <2>3. NumberedOK'
    BY <1>1, <2>1, <2>2, NoJobVersions DEF NumberedOK
  <2>4. StampsOK' /\ SavedOK' /\ DoneOK' /\ OntoOK'
    BY <2>1 DEF StampsOK, Dated, SavedOK, Claimed, DoneOK, OntoOK, Onto, Pipe
  <2> QED BY <2>3, <2>4
<1> QED BY <1>2, <1>3, <1>4, <1>5, <1>6, <1>7, <1>8, <1>9 DEF ExportStep

\* A vault in step has its first versions and its first stamps.
LEMMA InitBooks == Init => BookInv
<1> SUFFICES ASSUME Init
             PROVE  BookInv
  OBVIOUS
<1>1. NumberedOK
  <2>1. Cardinality(DOMAIN Vault) \in Nat
    BY FS_CardinalityType, VaultAssumption
  <2>2. \A i \in DOMAIN Vault : Vault[i].ver <= Cardinality(DOMAIN Vault)
    BY <2>1, VaultAssumption
  <2>3. \A p \in DOMAIN disk : \E i \in DOMAIN Vault : disk[p].ver = Vault[i].ver
    <3> DEFINE Of(p) == CHOOSE i \in DOMAIN Vault : Vault[i].name = p[1]
    <3>1. /\ DOMAIN disk = {<<Vault[i].name, Bare>> : i \in DOMAIN Vault}
          /\ \A p \in DOMAIN disk : disk[p] = Exported(Of(p), Vault[Of(p)])
      BY DEF Init
    <3>2. \A p \in DOMAIN disk : Of(p) \in DOMAIN Vault
      <4>1. \A p \in DOMAIN disk : \E i \in DOMAIN Vault : Vault[i].name = p[1]
        BY <3>1
      <4> QED BY <4>1
    <3> SUFFICES ASSUME NEW p \in DOMAIN disk
                 PROVE  \E i \in DOMAIN Vault : disk[p].ver = Vault[i].ver
      OBVIOUS
    <3>3. Of(p) \in DOMAIN Vault /\ disk[p] = Exported(Of(p), Vault[Of(p)])
      BY <3>1, <3>2
    <3> HIDE DEF Of
    <3>4. disk[p].ver = Vault[Of(p)].ver
      BY <3>3 DEF Exported
    <3> QED BY <3>3, <3>4
  <2>4. /\ \A i \in DOMAIN db : i \in DOMAIN Vault /\ db[i].ver = Vault[i].ver
        /\ \A i \in DOMAIN ledger : i \in DOMAIN Vault /\ ledger[i].hash.ver = Vault[i].ver
    BY DEF Init, Exported
  <2>5. DOMAIN man = {} /\ q.imp = {} /\ job = NoJob /\ nver = Cardinality(DOMAIN Vault)
    BY DEF Init, Nothing, NoWork
  <2> QED BY <2>1, <2>2, <2>3, <2>4, <2>5, NoJobVersions DEF NumberedOK
<1>2. StampsOK
  BY VaultAssumption DEF Init, StampsOK, Dated, Nothing, NoWork
<1>3. DoneOK /\ SavedOK /\ OntoOK
  BY DEF Init, DoneOK, SavedOK, OntoOK, Onto, Pipe, NoWork
<1> QED BY <1>1, <1>2, <1>3 DEF BookInv

-----------------------------------------------------------------------------
(* What the manifests say stays true.                                      *)

\* Nothing is lost by a step that keeps each stored version, or supersedes it.
LEMMA LostKept ==
  ASSUME NothingLost, nver \in Nat, superseded \subseteq superseded',
         \A v \in Stored(disk, db) : v > 0 => v \in superseded' \cup Stored(disk, db)',
         nver' = nver \/ (nver' = nver + 1 /\ nver' \in Stored(disk, db)')
  PROVE  NothingLost'
<1> SUFFICES ASSUME NEW v \in (1..nver') \ superseded'
             PROVE  v \in Stored(disk, db)'
  BY DEF NothingLost
<1>1. CASE v \in 1..nver
  <2>1. v \in Stored(disk, db) /\ v > 0
    BY <1>1 DEF NothingLost
  <2> QED BY <2>1
<1>2. CASE v \notin 1..nver
  <2>1. nver' = nver + 1 /\ v = nver'
    BY <1>2
  <2> QED BY <2>1
<1> QED BY <1>1, <1>2

\* A handler that looks at nothing has nothing to hold.
LEMMA Plain ==
  ASSUME pc' \notin Looking \cup {"guard", "swap"}
  PROVE  HandlerOK'
BY DEF HandlerOK, SeenOK, StagedOK, OverOK, LandsOK, Looking, Zipped, Pipe, Shelled

\* Imports wait only in reconcile.
LEMMA NoImports ==
  ASSUME LadderInv, ~Recovering
  PROVE  q.imp = {}
BY DEF LadderInv, ApartOK

\* A step of control: the stores are as they were.
LEMMA ControlStep ==
  ASSUME EntriesOK, QueuedOK, NothingLost,
         UNCHANGED <<disk, copies, db, man, ledger, lineage>>,
         q'.done \subseteq q.done, q'.imp \subseteq q.imp, q'.imp = {} \/ q'.done = q.done,
         \/ pc \notin Shelled \cup {"swap"} /\ pc' \notin Shelled \cup {"swap"}
         \/ pc \in Shelled /\ pc' \in Shelled /\ job'.cur = job.cur
  PROVE  EntriesOK' /\ QueuedOK' /\ NothingLost'
<1>1. EntriesOK'
  BY DEF EntriesOK, Edited, Behind, Told, Known, Real, Is, Exists, Shelled
<1>2. QueuedOK'
  BY DEF QueuedOK, Read, Known, Real, Exists
<1>3. NothingLost'
  BY DEF NothingLost, Stored, Versions
<1> QED BY <1>1, <1>2, <1>3

\* What people do to the rows leaves each version where it was, or superseded.
LEMMA DbStored ==
  ASSUME TypeOK, LadderInv, NothingLost, DbChange
  PROVE  NothingLost'
<1>1. disk' = disk /\ copies' = copies
  BY DbFrame
<1>2. nver \in Nat
  BY VersionTypes
<1>3. ASSUME NEW i \in Id, NEW v, NEW n, Write(i, v, n), superseded \subseteq superseded',
             nver' = nver \/ (nver' = nver + 1 /\ nver' = v),
             i \in DOMAIN db => db[i].ver \in superseded' \cup {v}
      PROVE  NothingLost'
  <2>1. /\ DOMAIN db' = DOMAIN db \cup {i} /\ db'[i].ver = v
        /\ \A j \in DOMAIN db \ {i} : db'[j] = db[j]
    BY <1>3, WriteRows
  <2>2. \A u \in Versions(db) : u \in superseded' \/ u \in Versions(db')
    BY <1>3, <2>1 DEF Versions
  <2>3. v \in Versions(db')
    BY <2>1 DEF Versions
  <2>4. /\ \A u \in Stored(disk, db) : u \in superseded' \cup Stored(disk, db)'
        /\ v \in Stored(disk, db)'
    BY <1>1, <2>2, <2>3 DEF Stored, Versions
  <2> QED BY <1>2, <1>3, <2>4, LostKept
<1>4. ASSUME Discard
      PROVE  NothingLost'
  <2>1. /\ nver' = nver /\ superseded \subseteq superseded'
        /\ \A u \in Stored(disk, db) : u \in superseded' \cup Stored(disk, db)'
    BY <1>1, <1>4 DEF Discard, Stored, Versions
  <2> QED BY <1>2, <2>1, LostKept
<1>5. ASSUME NEW i \in Id, DbEdit(i) \/ DbTouch(i) \/ DbDelete(i)
      PROVE  NothingLost'
  BY <1>3, <1>4, <1>5 DEF DbEdit, DbTouch, DbDelete, NewVersion
<1>6. ASSUME NEW i \in Id, NEW n \in Name, DbRename(i, n)
      PROVE  NothingLost'
  BY <1>3, <1>6 DEF DbRename
<1>7. ASSUME NEW i \in Id, NEW n \in Name, DbCreate(i, n)
      PROVE  NothingLost'
  <2>1. i \notin DOMAIN db
    BY <1>7, VersionTypes DEF DbCreate, LadderInv, UsedOK, Fresh
  <2> QED BY <1>3, <1>7, <2>1 DEF DbCreate, NewVersion
<1>8. CASE DbWipe
  BY <1>4, <1>8 DEF DbWipe
<1> QED BY <1>5, <1>6, <1>7, <1>8 DEF DbChange

\* ... and so does what they do to the directories.
LEMMA DiskStored ==
  ASSUME TypeOK, Steady, NothingLost, DiskChange
  PROVE  NothingLost'
<1>1. db' = db /\ copies' = copies
  BY DiskFrame
<1>2. nver \in Nat
  BY VersionTypes
<1>3. ASSUME NEW p \in Path, NEW ok \in BOOLEAN, DiskEdit(p, ok)
      PROVE  NothingLost'
  <2>1. /\ p \in DOMAIN disk /\ NewVersion({disk[p].ver})
        /\ disk' = [disk EXCEPT ![p].ver = nver + 1, ![p].ok = ok]
    BY <1>3 DEF DiskEdit, Exists
  <2>2. DOMAIN disk' = DOMAIN disk /\ disk'[p].ver = nver + 1
        /\ \A r \in DOMAIN disk \ {p} : disk'[r] = disk[r]
    BY <2>1, VersionTypes DEF Tree
  <2>3. nver' = nver + 1 /\ superseded' = superseded \cup {disk[p].ver}
    BY <2>1 DEF NewVersion
  <2>4. /\ \A u \in Versions(disk) : u \in superseded' \/ u \in Versions(disk')
        /\ nver + 1 \in Versions(disk')
    BY <2>1, <2>2, <2>3 DEF Versions
  <2>5. /\ \A u \in Stored(disk, db) : u \in superseded' \cup Stored(disk, db)'
        /\ nver' \in Stored(disk, db)'
    BY <1>1, <2>3, <2>4 DEF Stored, Versions
  <2> QED BY <1>2, <2>3, <2>5, LostKept
<1>4. ASSUME NEW p \in Path, DiskDelete(p)
      PROVE  NothingLost'
  <2>1. Discard
    BY <1>4 DEF DiskDelete
  <2>2. /\ nver' = nver /\ superseded \subseteq superseded'
        /\ \A u \in Stored(disk, db) : u \in superseded' \cup Stored(disk, db)'
    BY <1>1, <2>1 DEF Discard, Stored, Versions
  <2> QED BY <1>2, <2>2, LostKept
<1>5. ASSUME NEW p \in Path, NEW n \in Name,
             DiskMove(p, n) \/ DiskMoveUnseen(p, n) \/ DiskCopy(p, n)
      PROVE  NothingLost'
  <2>1. PICK k \in {"diskMove", "diskCopy"} : Spend(k)
    BY <1>5 DEF DiskMove, DiskMoveUnseen, DiskCopy
  <2>2. \E budget \in Budgets : budget[k] # 0
    BY <2>1, SpendEffect DEF Kind
  <2> QED BY <2>2 DEF Steady
<1> QED BY <1>3, <1>4, <1>5 DEF DiskChange

\* Truth survives what is done outside the engine's task: a row that is written
\* has a stamp no entry has, a directory that is edited a version none has.
LEMMA EnvironmentTruth ==
  ASSUME NameInv, BookInv, TruthInv, Steady,
     DbChange \/ DiskChange \/ Crash \/ \E on \in BOOLEAN : SetPaused(on)
  PROVE  TruthInv'
<1> USE DEF NameInv, TruthInv
<1>1. CASE DbChange
  <2>1. /\ disk' = disk /\ copies' = copies /\ ledger' = ledger /\ man' = man
        /\ pc' = pc /\ back' = back /\ job' = job /\ q' = q
    BY <1>1, DbFrame
  <2>2. /\ superseded \subseteq superseded'
        /\ \A j \in DOMAIN db' :
             \/ j \in DOMAIN db /\ db'[j] = db[j]
             \/ /\ j \in DOMAIN db \cup Fresh
                /\ db'[j].stamp = <<j, clock[j] + 1>>
                /\ j \in DOMAIN db => db[j].ver \in superseded' \cup {db'[j].ver}
        /\ pc = "down" \/ pc \notin Exposed
        /\ q.done = {}
    BY <1>1, DbRows DEF BookInv, DoneOK
  <2>3. \A j \in DOMAIN db' : \A i \in DOMAIN man \cup DOMAIN ledger : j = i =>
          \/ j \in DOMAIN db /\ db'[j] = db[j]
          \/ /\ j \in DOMAIN db /\ db[j].ver \in superseded' \cup {db'[j].ver}
             /\ ~Dated(db'[j].stamp)
    <3>1. \A j \in DOMAIN man \cup DOMAIN ledger : j \in Id /\ j \notin Fresh
      BY VersionTypes DEF LadderInv, UsedOK, Fresh
    <3>2. \A j \in Id : ~Dated(<<j, clock[j] + 1>>)
      BY NextStamp
    <3> QED BY <2>2, <3>1, <3>2
  <2>4. EntriesOK'
    <3>1. \A i \in DOMAIN man : Edited(i, man[i])' /\ Behind(i, man[i])'
      BY <2>1, <2>2, <2>3 DEF EntriesOK, Edited, Behind, Exists, Real
    <3>2. \A i \in DOMAIN man : Told(i, man[i], Known(i))'
      <4>1. \A i \in DOMAIN man : Dated(man[i].stamp)
        BY DEF BookInv, StampsOK
      <4> QED BY <2>1, <2>2, <2>3, <4>1 DEF EntriesOK, Told, Known, Is, Exists, Real
    <3>3. \A i \in DOMAIN ledger : Edited(i, ledger[i])' /\ Behind(i, ledger[i])'
      BY <2>1, <2>2, <2>3 DEF EntriesOK, Edited, Behind, Exists, Real
    <3>4. \A i \in DOMAIN ledger : Told(i, ledger[i], ledger[i].stamp = db[i].stamp)'
      <4>1. \A i \in DOMAIN ledger : Dated(ledger[i].stamp)
        BY DEF BookInv, StampsOK
      <4> QED BY <2>1, <2>2, <2>3, <4>1 DEF EntriesOK, Told, Is, Exists, Real
    <3> QED BY <2>1, <3>1, <3>2, <3>3, <3>4 DEF EntriesOK
  <2>5. QueuedOK'
    <3>1. q.imp = {}
      BY <2>2, NoImports DEF Recovering, Exposed, Control, ReturnsOK, Pipe
    <3> QED BY <2>1, <3>1 DEF QueuedOK
  <2>6. HandlerOK'
    <3>1. SeenOK' /\ StagedOK'
      BY <2>1, <2>2 DEF HandlerOK, SeenOK, Read, StagedOK, Afresh, Exists
    <3>2. OverOK'
      BY <2>1, <2>2 DEF OverOK, Exposed, Shelled
    <3>3. LandsOK'
      <4>1. pc = "swap" => job.cur \in DOMAIN man
        BY DEF LadderInv, SwapOK
      <4>2. pc = "swap" => Dated(man[job.cur].stamp)
        BY <4>1 DEF BookInv, StampsOK
      <4> QED BY <2>1, <2>2, <2>3, <4>1, <4>2 DEF HandlerOK, LandsOK, Known, Is, Exists, Exposed
    <3> QED BY <3>1, <3>2, <3>3 DEF HandlerOK
  <2> QED BY <1>1, <2>4, <2>5, <2>6, DbStored
<1>2. CASE DiskChange
  <2>1. /\ db' = db /\ copies' = copies /\ ledger' = ledger /\ man' = man
        /\ pc' = pc /\ back' = back /\ job' = job /\ q' = q
    BY <1>2, DiskFrame
  <2>2. /\ superseded \subseteq superseded' /\ pc # "swap"
        /\ \A p \in DOMAIN disk' : p \in DOMAIN disk /\
             (disk'[p] = disk[p] \/ (disk'[p].ver = nver + 1 /\ disk[p].ver \in superseded'))
    BY <1>2, DiskRows
  <2>3. EntriesOK'
    <3>1. \A i \in DOMAIN man : Edited(i, man[i])'
      BY <2>1, <2>2 DEF EntriesOK, Edited, Exists
    <3>2. \A i \in DOMAIN man : Behind(i, man[i])' /\ Told(i, man[i], Known(i))'
      <4>1. nver \in Nat /\ \A i \in DOMAIN man : man[i].hash.ver \in Nat /\ man[i].hash.ver <= nver
        BY VersionTypes DEF BookInv, NumberedOK
      <4> QED BY <2>1, <2>2, <4>1 DEF EntriesOK, Behind, Told, Known, Is, Exists, Real
    <3>3. \A i \in DOMAIN ledger : Edited(i, ledger[i])'
      BY <2>1, <2>2 DEF EntriesOK, Edited, Exists
    <3>4. \A i \in DOMAIN ledger : Behind(i, ledger[i])'
                                 /\ Told(i, ledger[i], ledger[i].stamp = db[i].stamp)'
      <4>1. nver \in Nat /\ \A i \in DOMAIN ledger : ledger[i].hash.ver \in Nat /\ ledger[i].hash.ver <= nver
        BY VersionTypes DEF BookInv, NumberedOK
      <4> QED BY <2>1, <2>2, <4>1 DEF EntriesOK, Behind, Told, Is, Exists, Real
    <3> QED BY <2>1, <3>1, <3>2, <3>3, <3>4 DEF EntriesOK
  <2>4. QueuedOK'
    BY <2>1, <2>2 DEF QueuedOK, Read, Exists, Real, Known
  <2>5. HandlerOK'
    <3>1. SeenOK'
      BY <2>1, <2>2 DEF HandlerOK, SeenOK, Read, Exists
    <3>2. StagedOK'
      <4>1. /\ nver \in Nat /\ job.seen.ver \in Nat /\ job.seen.ver <= nver
            /\ \A i \in DOMAIN man : man[i].hash.ver \in Nat /\ man[i].hash.ver <= nver
            /\ \A i \in DOMAIN ledger : ledger[i].hash.ver \in Nat /\ ledger[i].hash.ver <= nver
        BY VersionTypes DEF BookInv, NumberedOK
      <4> QED BY <2>1, <2>2, <4>1 DEF HandlerOK, StagedOK, Afresh, Exists
    <3>3. OverOK'
      BY <2>1, <2>2 DEF HandlerOK, OverOK, Preserved, Exists
    <3>4. LandsOK'
      BY <2>1, <2>2 DEF HandlerOK, LandsOK, Is
    <3> QED BY <3>1, <3>2, <3>3, <3>4 DEF HandlerOK
  <2> QED BY <1>2, <2>3, <2>4, <2>5, DiskStored
<1>3. CASE Crash
  <2>1. /\ UNCHANGED <<folder, ledger, db, lineage>> /\ man' = Nothing /\ pc' = "down"
        /\ q' = NoWork
    BY <1>3 DEF Crash
  <2>2. pc \notin {"swap"} \cup Shelled
    BY <1>3, SteadyCalls
  <2>3. EntriesOK'
    BY <2>1, <2>2 DEF EntriesOK, Edited, Behind, Told, Is, Exists, Real, Shelled, Nothing
  <2>4. QueuedOK' /\ HandlerOK' /\ NothingLost'
    BY <2>1, Plain DEF QueuedOK, NoWork, Looking, Pipe, NothingLost, Stored, Versions
  <2> QED BY <2>3, <2>4
<1>4. ASSUME NEW on \in BOOLEAN, SetPaused(on)
      PROVE  TruthInv'
  <2>1. UNCHANGED <<folder, ledger, db, lineage, man, pc, job, q>>
    BY <1>4 DEF SetPaused
  <2>2. EntriesOK' /\ QueuedOK' /\ NothingLost'
    BY <2>1 DEF EntriesOK, Edited, Behind, Told, Known, Is, Exists, Real, QueuedOK, Read,
       NothingLost, Stored, Versions
  <2>3. HandlerOK'
    BY <2>1 DEF HandlerOK, SeenOK, Read, StagedOK, Afresh, OverOK, Preserved, LandsOK, Known,
       Is, Exists
  <2> QED BY <2>2, <2>3
<1> QED BY <1>1, <1>2, <1>3, <1>4

\* Reconcile imports an edit onto a row that has nothing else to lose.
LEMMA ReconcileTruth ==
  ASSUME NameInv, NameInv', BookInv, TruthInv, Steady, Reconcile
  PROVE  TruthInv'
<1> USE DEF NameInv, TruthInv
<1>1. CASE Start
  <2>1. /\ UNCHANGED <<folder, ledger, db, lineage, job, q>>
        /\ man' = ledger /\ pc = "down" /\ pc' = "boot" /\ q.done = {}
    BY <1>1 DEF Start, BookInv, DoneOK
  <2>2. EntriesOK'
    BY <2>1 DEF EntriesOK, Edited, Behind, Told, Known, Is, Exists, Real, Shelled
  <2>3. q.imp = {}
    BY <2>1, NoImports DEF Recovering, Pipe
  <2>4. QueuedOK' /\ NothingLost'
    BY <2>1, <2>3 DEF QueuedOK, NothingLost, Stored, Versions
  <2> QED BY <2>1, <2>2, <2>4, Plain DEF Looking, Pipe
<1>2. CASE Boot \/ Snapshot \/ SnapshotFails
  <2>1. /\ UNCHANGED <<folder, ledger, man, db, lineage, job>>
        /\ pc \in {"boot", "snap", "reseed"} /\ pc' \in {"boot", "snap", "rekey", "decide"}
        /\ q'.imp = q.imp /\ q'.done \subseteq q.done
    BY <1>2 DEF Boot, Snapshot, SnapshotFails, TypeOK, WorkOK, Work
  <2>2. q.imp = {}
    BY <2>1, NoImports DEF Recovering, Pipe
  <2> QED BY <2>1, <2>2, ControlStep, Plain DEF Looking, Pipe, Shelled
<1>3. ASSUME NEW moved \in SUBSET Id, Decide(moved)
      PROVE  TruthInv'
  <2> DEFINE live == {i \in DOMAIN man : Exists(man[i].path) => disk[man[i].path].ok}
             Moved(i) == IF man[i].stamp = NoStamp THEN i \in moved
                         ELSE q.snap[i].stamp # man[i].stamp
             listed == live \cap DOMAIN q.snap
             noop == {i \in listed : Clean(i) /\ ~Moved(i)}
             export == {i \in listed : ~Exists(man[i].path) \/ Moved(i)}
             import == {i \in live \ (noop \cup export) : Exists(man[i].path)}
             forget == live \ (noop \cup export \cup import)
             Item(p) == [rel |-> p, seen |-> disk[p]]
             imp == {Item(man[i].path) : i \in import} \cup {Item(p) : p \in Unclaimed}
  <2>1. /\ UNCHANGED <<folder, db, ledger, lineage, job>>
        /\ man' = Drop(man, forget)
        /\ q'.imp = imp /\ q'.done = {} /\ pc = "decide" /\ pc' = "recImp"
    BY <1>3 DEF Decide, TypeOK, WorkOK, Work
  <2>2. q.done = {} /\ q.snap = db
    BY <2>1 DEF BookInv, DoneOK
  <2>3. \A it \in imp : it.rel \in DOMAIN disk /\ it.seen = disk[it.rel]
    BY DEF Exists, Unclaimed
  <2>4. \A i \in import : i \in DOMAIN db => man[i].stamp = db[i].stamp
    <3>1. \A i \in DOMAIN man : man[i].stamp # NoStamp
      BY DEF BookInv, StampsOK, Dated, NoStamp
    <3> QED BY <2>2, <3>1
  <2>5. \A it \in imp : \A i \in DOMAIN man : man[i].path = it.rel => i \in import
    BY DEF PathInv, UniquePaths, Injective, Unclaimed, Claimed
  <2> HIDE DEF imp, import, forget
  <2>6. DOMAIN man' = DOMAIN man \ forget /\ \A i \in DOMAIN man' : man'[i] = man[i]
    BY <2>1 DEF Drop, Restrict
  <2>7. EntriesOK'
    BY <2>1, <2>2, <2>6 DEF EntriesOK, Edited, Behind, Told, Known, Is, Exists, Real, Shelled
  <2>8. QueuedOK'
    BY <2>1, <2>3, <2>4, <2>5, <2>6 DEF QueuedOK, Read, Known, Exists, Real
  <2>9. NothingLost'
    BY <2>1 DEF NothingLost, Stored, Versions
  <2> QED BY <2>1, <2>7, <2>8, <2>9, Plain DEF Looking, Pipe
<1>4. ASSUME NEW it \in q.imp, RecImport(it)
      PROVE  TruthInv'
  <2> DEFINE p == it.rel
  <2>1. /\ UNCHANGED <<folder, ledger, man, db, lineage>> /\ pc = "recImp"
        /\ q'.imp \subseteq q.imp /\ q'.done = q.done
    BY <1>4 DEF RecImport, TypeOK, WorkOK, Work
  <2>2. \/ pc' = "recImp"
        \/ /\ pc' = (IF Claimed(p) THEN "direct" ELSE "asNew") /\ Exists(p)
           /\ job'.rel = p /\ (Claimed(p) => job'.cur = Owner(p))
           /\ job'.seen = it.seen /\ job'.stage = disk[p]
    BY <1>4, <2>1 DEF RecImport
  <2>3. EntriesOK' /\ QueuedOK' /\ NothingLost'
    BY <2>1, <2>2, ControlStep DEF Shelled
  <2>4. CASE pc' = "recImp"
    BY <2>3, <2>4, Plain DEF Looking, Pipe
  <2>5. CASE pc' # "recImp"
    <3>1. Claimed(p) /\ pc' = "direct" /\ job'.cur = Owner(p) /\ Exists(p)
          /\ job'.rel = p /\ job'.seen = it.seen /\ job'.stage = disk[p]
      BY <2>1, <2>2, <2>5, SteadyPlaces DEF Exists
    <3>2. Owner(p) \in DOMAIN man /\ man[Owner(p)].path = p
      BY <3>1, OwnerClaims
    <3>3. SeenOK'
      BY <2>1, <3>1 DEF QueuedOK, SeenOK, Read, Exists
    <3>4. StagedOK' /\ LandsOK'
      BY <2>1, <3>1 DEF StagedOK, LandsOK, Exists
    <3>5. OverOK'
      <4>1. SUFFICES ASSUME Owner(p) \in DOMAIN db
                     PROVE  db[Owner(p)].ver \in superseded \cup {disk[p].ver}
        BY <2>1, <3>1 DEF OverOK, Preserved, Shelled
      <4>2. Real(Owner(p)) /\ Known(Owner(p))
        BY <2>1, <3>2, <4>1 DEF QueuedOK, Real, Shelled
      <4> QED BY <2>1, <3>1, <3>2, <4>2 DEF EntriesOK, Edited, Told
    <3> QED BY <2>3, <3>3, <3>4, <3>5 DEF HandlerOK
  <2> QED BY <2>4, <2>5
<1>5. CASE RecSave
  <2>1. /\ UNCHANGED <<folder, man, db, lineage, job>> /\ ledger' \in {man, ledger}
        /\ q'.imp = q.imp /\ q'.done = q.done /\ q.imp = {}
        /\ pc = "recImp" /\ pc' = "export"
    BY <1>5 DEF RecSave, TypeOK, WorkOK, Work
  <2>2. EntriesOK'
    BY <2>1 DEF EntriesOK, Edited, Behind, Told, Known, Is, Exists, Real, Shelled
  <2>3. QueuedOK' /\ NothingLost'
    BY <2>1 DEF QueuedOK, NothingLost, Stored, Versions
  <2> QED BY <2>1, <2>2, <2>3, Plain DEF Looking, Pipe
<1>6. CASE RecNoops
  <2>1. /\ UNCHANGED <<folder, ledger, man, db, lineage, job>>
        /\ pc = "export" /\ pc' \in {"idle", "reseed"}
        /\ q'.imp = q.imp /\ q'.done = q.done
    BY <1>6 DEF RecNoops, TypeOK, WorkOK, Work
  <2> QED BY <2>1, ControlStep, Plain DEF Looking, Pipe, Shelled
<1>7. CASE Reseed
  <2>1. /\ UNCHANGED <<folder, db, lineage, job>>
        /\ pc = "reseed" /\ pc' = "idle" /\ ledger' \in {ledger, man'}
        /\ q'.imp = q.imp /\ q'.done = {}
    BY <1>7 DEF Reseed, TypeOK, WorkOK, Work
  <2>2. DOMAIN man' = DOMAIN man /\ \A i \in DOMAIN man :
          /\ man'[i].path = man[i].path /\ man'[i].hash = man[i].hash
          /\ man'[i].stamp = man[i].stamp \/ i \in q.done
    <3>1. \A i \in DOMAIN man : /\ [man[i] EXCEPT !.stamp = db[i].stamp].path = man[i].path
                                /\ [man[i] EXCEPT !.stamp = db[i].stamp].hash = man[i].hash
      BY PartialValue DEF TypeOK, ManifestOK, Entry
    <3> QED BY <1>7, <3>1 DEF Reseed
  <2>3. q.imp = {}
    BY <2>1, NoImports DEF Recovering, Pipe
  <2>4. EntriesOK'
    BY <2>1, <2>2 DEF EntriesOK, Edited, Behind, Told, Known, Is, Exists, Real, Shelled
  <2>5. QueuedOK' /\ NothingLost'
    BY <2>1, <2>3 DEF QueuedOK, NothingLost, Stored, Versions
  <2> QED BY <2>1, <2>4, <2>5, Plain DEF Looking, Pipe
<1> QED BY <1>1, <1>2, <1>3, <1>4, <1>5, <1>6, <1>7 DEF Reconcile

\* The main loop writes neither side, and a resume takes the saved manifest.
LEMMA LoopTruth ==
  ASSUME NameInv, NameInv', BookInv, TruthInv, Steady, Loop
  PROVE  TruthInv'
<1> USE DEF NameInv, TruthInv
<1>1. CASE HandlePause
  <2>1. /\ UNCHANGED <<folder, ledger, db, lineage, job, q>>
        /\ man' \in {man, ledger} /\ pc = "idle" /\ pc' = pc /\ q.done = {}
    BY <1>1 DEF HandlePause, ReloadManifest, BookInv, DoneOK
  <2>2. EntriesOK'
    BY <2>1 DEF EntriesOK, Edited, Behind, Told, Known, Is, Exists, Real, Shelled
  <2>3. q.imp = {}
    BY <2>1, NoImports DEF Recovering, Pipe
  <2>4. QueuedOK' /\ NothingLost'
    BY <2>1, <2>3 DEF QueuedOK, NothingLost, Stored, Versions
  <2> QED BY <2>1, <2>2, <2>4, Plain DEF Looking, Pipe
<1>2. CASE \/ PollDone \/ Sweep \/ FsDone
           \/ \E due \in SUBSET Ripe : PollCycle(due)
           \/ \E due \in SUBSET Armed : TakeDue(due)
  <2>1. /\ UNCHANGED <<folder, ledger, man, db, lineage, job>>
        /\ pc \in {"idle", "swept", "fs", "export"}
        /\ pc' \in {"idle", "swept", "fs", "rekey", "export"}
        /\ q'.imp = q.imp /\ q'.done = q.done
    BY <1>2 DEF PollDone, Sweep, FsDone, PollCycle, TakeDue, TypeOK, WorkOK, Work
  <2> QED BY <2>1, ControlStep, Plain DEF Looking, Pipe, Shelled
<1> QED BY <1>1, <1>2 DEF Loop

\* Before an edit is imported the row is known, kept as a copy, or gone.
LEMMA FsTruth ==
  ASSUME NameInv, NameInv', BookInv, TruthInv, Steady, FsChange
  PROVE  TruthInv'
<1> USE DEF NameInv, TruthInv
<1>1. CASE \/ \E op \in q.rekey : RekeyMirrored(op) \/ RekeyUnmirrored(op)
           \/ RekeySave
  BY <1>1, SteadyPlaces DEF RekeyMirrored, RekeyUnmirrored, Rekey, RekeySave
<1>2. CASE \E p \in q.fs : FsGone(p) \/ FsBroken(p)
  <2>1. /\ UNCHANGED <<folder, ledger, man, db, lineage, job>>
        /\ pc = "fs" /\ pc' \in {"fs", "rekey"} /\ q'.imp = q.imp /\ q'.done = q.done
    BY <1>2 DEF FsGone, FsBroken, TypeOK, WorkOK, Work
  <2> QED BY <2>1, ControlStep, Plain DEF Looking, Pipe, Shelled
<1>3. ASSUME NEW p \in q.fs, FsHash(p)
      PROVE  TruthInv'
  <2>1. /\ UNCHANGED <<folder, ledger, man, db, lineage>>
        /\ pc = "fs" /\ pc' \in {"fsRoute", "rekey"} /\ q'.imp = q.imp /\ q'.done = q.done
        /\ job'.rel = p /\ job'.seen = disk[p]
    BY <1>3 DEF FsHash, SetJob, TypeOK, WorkOK, Work, LocalsOK, Job
  <2>2. EntriesOK' /\ QueuedOK' /\ NothingLost'
    BY <2>1, ControlStep DEF Shelled
  <2>3. HandlerOK'
    BY <2>1 DEF HandlerOK, SeenOK, Read, StagedOK, OverOK, LandsOK, Zipped, Shelled
  <2> QED BY <2>2, <2>3
<1>4. CASE FsRoute
  <2>1. /\ UNCHANGED <<folder, ledger, man, db, lineage, q>>
        /\ pc = "fsRoute" /\ pc' \in {"fs", "fetch", "zipNew"}
        /\ pc' # "fs" => job'.rel = job.rel /\ job'.seen = job.seen
    BY <1>4 DEF FsRoute, TypeOK, LocalsOK, Job
  <2>2. EntriesOK' /\ QueuedOK' /\ NothingLost'
    BY <2>1, ControlStep DEF Shelled
  <2>3. HandlerOK'
    BY <2>1 DEF HandlerOK, SeenOK, Read, StagedOK, OverOK, LandsOK, Zipped, Shelled, Looking,
       Pipe, Exists
  <2> QED BY <2>2, <2>3
<1>5. ASSUME NEW moved \in BOOLEAN, Fetch(moved)
      PROVE  TruthInv'
  <2>1. /\ UNCHANGED <<folder, ledger, man, db, lineage, job, q>>
        /\ pc = "fetch" /\ pc' \in {"zipIn", "copy", "zipOver"}
        /\ pc' = "zipIn" => job.cur \notin DOMAIN db
        /\ pc' = "zipOver" => man[job.cur].stamp \in {NoStamp, db[job.cur].stamp}
    BY <1>5 DEF Fetch
  <2>2. EntriesOK' /\ QueuedOK' /\ NothingLost'
    BY <2>1, ControlStep DEF Shelled
  <2>3. SeenOK' /\ StagedOK' /\ LandsOK'
    BY <2>1 DEF HandlerOK, SeenOK, Read, StagedOK, LandsOK, Zipped, Looking, Pipe, Exists
  <2>4. OverOK'
    <3>1. SUFFICES ASSUME pc' = "zipOver", job.cur \in DOMAIN db, Exists(job.rel)
                   PROVE  db[job.cur].ver \in superseded \cup {disk[job.rel].ver}
      BY <2>1 DEF OverOK, Preserved, Shelled, Exists
    <3>2. job.cur \in DOMAIN man /\ man[job.cur].path = job.rel
      BY <2>1 DEF BookInv, OntoOK, Onto, Pipe
    <3>3. man[job.cur].stamp # NoStamp
      BY <3>2 DEF BookInv, StampsOK, Dated, NoStamp
    <3>4. Known(job.cur) /\ Real(job.cur)
      BY <2>1, <3>1, <3>3 DEF Known, Real, Shelled
    <3> QED BY <2>1, <3>1, <3>2, <3>4 DEF EntriesOK, Edited, Told
  <2> QED BY <2>2, <2>3, <2>4 DEF HandlerOK
<1>6. CASE Copy
  <2>1. /\ UNCHANGED <<disk, ledger, man, db, lineage, job, q>>
        /\ pc = "copy" /\ pc' = "zipOver"
        /\ copies' = copies \cup {Exported(job.cur, db[job.cur])}
    BY <1>6 DEF Copy
  <2>2. EntriesOK' /\ QueuedOK'
    BY <2>1 DEF EntriesOK, Edited, Behind, Told, Known, Is, Exists, Real, Shelled,
       QueuedOK, Read
  <2>3. NothingLost'
    BY <2>1 DEF NothingLost, Stored, Versions
  <2>4. SeenOK' /\ StagedOK' /\ LandsOK'
    BY <2>1 DEF HandlerOK, SeenOK, Read, StagedOK, LandsOK, Zipped, Looking, Pipe, Exists
  <2>5. OverOK'
    <3>1. Exported(job.cur, db[job.cur]).ver = db[job.cur].ver
      BY DEF Exported
    <3>2. db[job.cur].ver \in {t.ver : t \in copies'}
      BY <2>1, <3>1
    <3> QED BY <2>1, <3>2 DEF OverOK, Preserved, Shelled
  <2> QED BY <2>2, <2>3, <2>4, <2>5 DEF HandlerOK
<1>7. CASE Zip
  <2>1. /\ UNCHANGED <<folder, ledger, man, db, lineage, q>>
        /\ \/ pc = "zipOver" /\ pc' = "import"
           \/ pc = "zipIn" /\ pc' = "direct"
        /\ job'.cur = job.cur /\ job'.rel = job.rel /\ job'.seen = job.seen
        /\ Exists(job.rel) /\ job'.stage = disk[job.rel]
    BY <1>7, SteadyPlaces DEF Zip, TypeOK, LocalsOK, Job
  <2>2. EntriesOK' /\ QueuedOK' /\ NothingLost'
    BY <2>1, ControlStep DEF Shelled
  <2>3. SeenOK' /\ StagedOK' /\ LandsOK'
    BY <2>1 DEF HandlerOK, SeenOK, Read, StagedOK, LandsOK, Zipped, Looking, Pipe, Exists
  <2>4. OverOK'
    BY <2>1 DEF HandlerOK, OverOK, Preserved, Shelled, Exists
  <2> QED BY <2>2, <2>3, <2>4 DEF HandlerOK
<1> QED BY <1>1, <1>2, <1>3, <1>4, <1>5, <1>6, <1>7 DEF FsChange

\* Where the directory is not what was zipped, no manifest knows what it is.
LEMMA Staged ==
  ASSUME TypeOK, StagedOK, pc \in Zipped, Exists(job.rel)
  PROVE  /\ disk[job.rel] # job.stage => job.stage.ver \in superseded
         /\ disk[job.rel] = job.seen => job.stage = job.seen
         /\ \A i \in DOMAIN man : disk[job.rel] = man[i].hash => job.stage = man[i].hash
         /\ \A i \in DOMAIN ledger : disk[job.rel] = ledger[i].hash => job.stage = ledger[i].hash
<1>1. /\ job.seen.ver \in Nat /\ \A i \in DOMAIN man : man[i].hash.ver \in Nat
      /\ \A i \in DOMAIN ledger : ledger[i].hash.ver \in Nat
  BY VersionTypes
<1> QED BY <1>1 DEF StagedOK, Afresh

\* A row is written over only where what it held is elsewhere, or superseded.
LEMMA WriteStored ==
  ASSUME TypeOK, NothingLost, NEW i \in Id, NEW v, NEW n, Write(i, v, n),
         UNCHANGED <<disk, copies, lineage>>,
         i \in DOMAIN db => db[i].ver \in Preserved \cup {v, Shell}
  PROVE  NothingLost'
<1>1. /\ DOMAIN db' = DOMAIN db \cup {i} /\ db'[i].ver = v
      /\ \A j \in DOMAIN db \ {i} : db'[j] = db[j]
  BY WriteRows
<1>2. nver \in Nat
  BY VersionTypes
<1>3. \A u \in Versions(db) : u > 0 =>
        u \in Versions(db') \/ u \in superseded \/ u \in {t.ver : t \in copies}
  BY <1>1 DEF Versions, Preserved, Shell
<1>4. \A u \in Stored(disk, db) : u > 0 => u \in superseded' \cup Stored(disk, db)'
  BY <1>3 DEF Stored, Versions
<1> QED BY <1>2, <1>4, LostKept

\* The row an archive is imported onto has what was zipped; no other changes.
LEMMA OntoRows ==
  ASSUME TypeOK, job.cur \in DOMAIN db, ImportOnto
  PROVE  /\ DOMAIN db' = DOMAIN db
         /\ db'[job.cur].ver = job.stage.ver /\ db'[job.cur].name = job.stage.name
         /\ \A j \in DOMAIN db \ {job.cur} : db'[j] = db[j]
<1> DEFINE i == job.cur  v == job.stage.ver  n == job.stage.name
<1>1. i \in Id /\ i \in DOMAIN db /\ Write(i, v, n)
  BY VersionTypes DEF ImportOnto
<1> SUFFICES /\ DOMAIN db' = DOMAIN db /\ db'[i].ver = v /\ db'[i].name = n
             /\ \A j \in DOMAIN db \ {i} : db'[j] = db[j]
  OBVIOUS
<1> HIDE DEF i, v, n
<1>2. /\ DOMAIN db' = DOMAIN db \cup {i} /\ db'[i].ver = v /\ db'[i].name = n
      /\ \A j \in DOMAIN db \ {i} : db'[j] = db[j]
  BY <1>1, WriteRows
<1> QED BY <1>1, <1>2

\* Every entry of a file is right about the row its directory was imported onto.
LEMMA ImportedOnto ==
  ASSUME NameInv, BookInv, TruthInv, pc = "import", pc' \notin Shelled \cup {"swap"},
         UNCHANGED <<disk, copies, man, ledger, lineage>>,
         q'.done = q.done, q'.imp = q.imp, job.cur \in DOMAIN db,
         ImportOnto
  PROVE  EntriesOK' /\ QueuedOK' /\ NothingLost'
<1> USE DEF NameInv, TruthInv
<1>1. job.cur \in Id /\ job.cur \in DOMAIN man /\ man[job.cur].path = job.rel
  BY VersionTypes DEF BookInv, OntoOK, Onto, Pipe
<1>2. /\ DOMAIN db' = DOMAIN db
      /\ db'[job.cur].ver = job.stage.ver /\ db'[job.cur].name = job.stage.name
      /\ \A j \in DOMAIN db \ {job.cur} : db'[j] = db[j]
  BY OntoRows
<1>3. job.cur \in DOMAIN ledger => ledger[job.cur].path = job.rel
  BY <1>1 DEF BookInv, SavedOK
<1>4. Exists(job.rel) =>
        /\ disk[job.rel] # job.stage => job.stage.ver \in superseded
        /\ \A i \in DOMAIN man : disk[job.rel] = man[i].hash => job.stage = man[i].hash
        /\ \A i \in DOMAIN ledger : disk[job.rel] = ledger[i].hash => job.stage = ledger[i].hash
  BY Staged DEF HandlerOK, Zipped
<1>5. \A i \in DOMAIN man : (Edited(i, man[i]) /\ Behind(i, man[i]) /\ Told(i, man[i], Known(i)))'
  BY <1>1, <1>2, <1>4 DEF EntriesOK, Edited, Behind, Told, Known, Is, Exists, Real, Shelled
<1>6. \A i \in DOMAIN ledger :
        (/\ Edited(i, ledger[i]) /\ Behind(i, ledger[i])
         /\ Told(i, ledger[i], ledger[i].stamp = db[i].stamp))'
  BY <1>1, <1>2, <1>3, <1>4 DEF EntriesOK, Edited, Behind, Told, Is, Exists, Real, Shelled
<1>7. q.imp = {}
  BY NoImports DEF Recovering, Control, ReturnsOK
<1>8. NothingLost'
  BY <1>1, WriteStored DEF HandlerOK, OverOK, ImportOnto
<1> QED BY <1>5, <1>6, <1>7, <1>8 DEF EntriesOK, QueuedOK

\* An import leaves row and directory with what it zipped, or with what the
\* directory has become since.
LEMMA ImportTruth ==
  ASSUME NameInv, NameInv', BookInv, TruthInv, Steady, ImportStep
  PROVE  TruthInv'
<1> USE DEF NameInv, TruthInv
<1>1. job.cur \in Id /\ (pc \in Onto => job.cur \in DOMAIN man /\ man[job.cur].path = job.rel)
  BY VersionTypes DEF BookInv, OntoOK
<1>2. pc \in Onto /\ job.cur \in DOMAIN ledger => ledger[job.cur].path = job.rel
  BY <1>1 DEF BookInv, SavedOK, Onto, Pipe
<1>3. pc \in Zipped /\ Exists(job.rel) =>
        /\ disk[job.rel] # job.stage => job.stage.ver \in superseded
        /\ disk[job.rel] = job.seen => job.stage = job.seen
        /\ \A i \in DOMAIN man : disk[job.rel] = man[i].hash => job.stage = man[i].hash
        /\ \A i \in DOMAIN ledger : disk[job.rel] = ledger[i].hash => job.stage = ledger[i].hash
  BY Staged DEF HandlerOK
<1>4. pc \in Looking => Read(job.rel, job.seen)
  BY DEF HandlerOK, SeenOK
<1>5. back # "recImp" /\ pc # "recImp" => q.imp = {}
  BY NoImports DEF Recovering
<1>6. CASE Import
  <2>1. /\ UNCHANGED <<disk, copies, ledger, man, lineage, job, q>>
        /\ pc = "import" /\ pc' = "finalize" /\ job.cur \in DOMAIN db
        /\ ImportOnto
    BY <1>6 DEF Import, Importable
  <2>2. EntriesOK' /\ QueuedOK' /\ NothingLost'
    BY <2>1, ImportedOnto DEF Shelled
  <2>3. SeenOK' /\ StagedOK'
    BY <2>1 DEF HandlerOK, SeenOK, Read, StagedOK, Afresh, Zipped, Looking, Pipe, Exists
  <2>4. OverOK' /\ LandsOK'
    <3>1. db'[job.cur].ver = job.stage.ver /\ db'[job.cur].name = job.stage.name
      BY <2>1, OntoRows
    <3> QED BY <2>1, <3>1 DEF OverOK, LandsOK, Is, Shelled
  <2> QED BY <2>2, <2>3, <2>4 DEF HandlerOK
<1>7. CASE InPlace
  <2>1. job.cur \in DOMAIN man /\ man[job.cur].path = job.rel
    BY <1>1, <1>7 DEF InPlace, Onto, Pipe
  <2>2. /\ UNCHANGED <<disk, copies, ledger, lineage>> /\ pc \in {"direct", "fill"}
        /\ job.cur \in DOMAIN db
        /\ Adopt(job.cur) /\ ImportOnto
        /\ q'.imp = q.imp
        /\ \/ back = "fs" /\ pc' = "finalize" /\ q' = q
           \/ back = "recImp" /\ pc' = "recImp" /\ q'.done = q.done \cup {job.cur}
    BY <1>7 DEF InPlace, Importable, Settle, TypeOK, WorkOK, Work, Control,
       ReturnsOK
  <2>3. /\ DOMAIN man' = DOMAIN man /\ job'.cur = job.cur /\ job'.rel = job.rel
        /\ job'.seen = job.seen /\ job'.stage = job.stage
        /\ man'[job.cur].path = job.rel /\ man'[job.cur].hash = job.seen
        /\ \A j \in DOMAIN man \ {job.cur} : man'[j] = man[j]
    BY <1>1, <2>1, <2>2, AdoptEffect
  <2>4. /\ DOMAIN db' = DOMAIN db
        /\ db'[job.cur].ver = job.stage.ver /\ db'[job.cur].name = job.stage.name
        /\ \A j \in DOMAIN db \ {job.cur} : db'[j] = db[j]
    BY <2>2, OntoRows
  <2>5. pc \in Zipped /\ pc \in Looking /\ pc \in Onto
    BY <2>2 DEF Zipped, Looking, Onto, Pipe
  <2>6. EntriesOK'
    <3>1. \A i \in DOMAIN man \ {job.cur} :
            (Edited(i, man[i]) /\ Behind(i, man[i]) /\ Told(i, man[i], Known(i)))'
      BY <2>2, <2>3, <2>4 DEF EntriesOK, Edited, Behind, Told, Known, Is, Exists, Real, Shelled
    <3>2. \A i \in {job.cur} :
            (Edited(i, man[i]) /\ Behind(i, man[i]) /\ Told(i, man[i], Known(i)))'
      BY <1>3, <1>4, <2>2, <2>3, <2>4, <2>5
      DEF Edited, Behind, Told, Read, Is, Exists
    <3>3. \A i \in DOMAIN ledger :
            (/\ Edited(i, ledger[i]) /\ Behind(i, ledger[i])
             /\ Told(i, ledger[i], ledger[i].stamp = db[i].stamp))'
      BY <1>2, <1>3, <2>2, <2>3, <2>4, <2>5
      DEF EntriesOK, Edited, Behind, Told, Is, Exists, Real, Shelled
    <3> QED BY <2>1, <2>2, <2>3, <3>1, <3>2, <3>3 DEF EntriesOK
  <2>7. QueuedOK'
    <3>1. back = "fs" => q'.imp = {}
      BY <1>5, <2>2
    <3> QED BY <2>2, <2>3, <2>4, <3>1 DEF QueuedOK, Read, Real, Known, Exists, Shelled
  <2>8. HandlerOK'
    <3>1. SeenOK'
      BY <1>4, <2>2, <2>3, <2>5 DEF SeenOK, Read, Exists, Looking, Pipe
    <3>2. StagedOK'
      BY <2>2, <2>3, <2>5 DEF HandlerOK, StagedOK, Afresh, Exists
    <3>3. OverOK' /\ LandsOK'
      BY <2>2, <2>3, <2>4 DEF OverOK, LandsOK, Is, Shelled
    <3> QED BY <3>1, <3>2, <3>3 DEF HandlerOK
  <2>9. NothingLost'
    BY <1>1, <2>2, WriteStored DEF HandlerOK, OverOK, Shelled, ImportOnto
  <2> QED BY <2>6, <2>7, <2>8, <2>9
<1>8. CASE InPlaceFails \/ CreateFails
  <2>1. /\ UNCHANGED <<folder, ledger, man, db, lineage, job, q>>
        /\ \/ pc = "direct" /\ pc' = "create"
           \/ pc = "fill" /\ pc' = "unshell"
           \/ pc = "create" /\ pc' = "asNew2"
    BY <1>8, SteadyCalls DEF InPlaceFails, CreateFails
  <2>2. EntriesOK' /\ QueuedOK' /\ NothingLost'
    BY <2>1, ControlStep DEF Shelled
  <2>3. SeenOK' /\ StagedOK'
    BY <2>1 DEF HandlerOK, SeenOK, Read, StagedOK, Afresh, Zipped, Looking, Pipe, Exists
  <2>4. OverOK' /\ LandsOK'
    BY <2>1 DEF HandlerOK, OverOK, LandsOK, Is, Shelled
  <2> QED BY <2>2, <2>3, <2>4 DEF HandlerOK
<1>9. CASE Create
  <2>1. /\ UNCHANGED <<disk, copies, ledger, man, lineage, job, q>> /\ job.cur \notin DOMAIN db
        /\ pc = "create" /\ pc' = "fill" /\ Write(job.cur, Shell, job.rel[1])
    BY <1>9 DEF Create, Creatable
  <2>2. /\ DOMAIN db' = DOMAIN db \cup {job.cur} /\ db'[job.cur].ver = Shell
        /\ \A j \in DOMAIN db \ {job.cur} : db'[j] = db[j]
    BY <1>1, <2>1, WriteRows
  <2>3. EntriesOK' /\ QueuedOK'
    BY <2>1, <2>2 DEF EntriesOK, Edited, Behind, Told, Known, Is, Exists, Real, Shelled,
       QueuedOK, Read
  <2>4. SeenOK' /\ StagedOK'
    BY <2>1 DEF HandlerOK, SeenOK, Read, StagedOK, Afresh, Zipped, Looking, Pipe, Exists
  <2>5. OverOK' /\ LandsOK'
    BY <2>1, <2>2 DEF OverOK, LandsOK
  <2>6. NothingLost'
    BY <1>1, <2>1, WriteStored
  <2> QED BY <2>3, <2>4, <2>5, <2>6 DEF HandlerOK
<1>10. CASE Unshell
  <2>1. /\ UNCHANGED <<disk, copies, ledger, man, lineage, job, q>>
        /\ pc = "unshell" /\ pc' = "asNew2" /\ db' = Drop(db, {job.cur})
    BY <1>10, SteadyCalls DEF Unshell
  <2>2. DOMAIN db' = DOMAIN db \ {job.cur} /\ \A j \in DOMAIN db' : db'[j] = db[j]
    BY <2>1 DEF Drop, Restrict
  <2>3. EntriesOK' /\ QueuedOK'
    <3>1. \A i : Real(i)' => Real(i) /\ db'[i] = db[i]
      BY <2>1, <2>2 DEF Real, Shelled
    <3>2. \A i \in DOMAIN man :
            (Edited(i, man[i]) /\ Behind(i, man[i]) /\ Told(i, man[i], Known(i)))'
      BY <2>1, <3>1 DEF EntriesOK, Edited, Behind, Told, Known, Is, Exists
    <3>3. \A i \in DOMAIN ledger :
            (/\ Edited(i, ledger[i]) /\ Behind(i, ledger[i])
             /\ Told(i, ledger[i], ledger[i].stamp = db[i].stamp))'
      BY <2>1, <3>1 DEF EntriesOK, Edited, Behind, Told, Is, Exists
    <3>4. QueuedOK'
      BY <2>1, <3>1 DEF QueuedOK, Read, Known, Exists
    <3> QED BY <2>1, <3>2, <3>3, <3>4 DEF EntriesOK
  <2>4. SeenOK' /\ StagedOK'
    BY <2>1 DEF HandlerOK, SeenOK, Read, StagedOK, Afresh, Zipped, Looking, Pipe, Exists
  <2>5. OverOK' /\ LandsOK'
    BY <2>1 DEF OverOK, LandsOK, Shelled
  <2>6. NothingLost'
    <3>1. nver \in Nat
      BY VersionTypes
    <3>2. db[job.cur].ver = 0
      BY <2>1 DEF HandlerOK, OverOK, Shelled, Shell
    <3>3. \A u \in Versions(db) : u > 0 => u \in Versions(db')
      BY <2>2, <3>2 DEF Versions
    <3>4. \A u \in Stored(disk, db) : u > 0 => u \in superseded' \cup Stored(disk, db)'
      BY <2>1, <3>3 DEF Stored, Versions
    <3> QED BY <2>1, <3>1, <3>4, LostKept
  <2> QED BY <2>3, <2>4, <2>5, <2>6 DEF HandlerOK
<1>11. ASSUME NEW i \in Id, AsNew(i)
       PROVE  TruthInv'
  <2>1. pc = "asNew2"
    BY <1>11, SteadyPlaces DEF AsNew
  <2>2. job.cur \in DOMAIN man /\ man[job.cur].path = job.rel
    BY <1>1, <2>1 DEF Onto, Pipe
  <2>3. /\ UNCHANGED <<disk, copies, ledger, lineage>> /\ i \in Fresh
        /\ Adopt(i) /\ Write(i, job.stage.ver, job.stage.name)
        /\ q'.imp = q.imp
        /\ \/ back = "fs" /\ pc' = "finalize" /\ q' = q
           \/ back = "recImp" /\ pc' = "recImp" /\ q'.done = q.done \cup {i}
    BY <1>11, <2>1 DEF AsNew, Settle, TypeOK, WorkOK, Work, Control, ReturnsOK
  <2>4. i \notin DOMAIN man /\ i \notin DOMAIN ledger /\ i \notin DOMAIN db
    BY <2>3, VersionTypes DEF LadderInv, UsedOK, Fresh
  <2>5. /\ DOMAIN man' = (DOMAIN man \ {job.cur}) \cup {i}
        /\ job'.cur = i /\ job'.rel = job.rel
        /\ job'.seen = job.seen /\ job'.stage = job.stage
        /\ man'[i].path = job.rel /\ man'[i].hash = job.seen
        /\ \A j \in DOMAIN man \ {job.cur} : man'[j] = man[j]
    <3>1. /\ DOMAIN man' = (DOMAIN man \ {job.cur}) \cup {i}
          /\ man'[i].path = man[job.cur].path /\ man'[i].hash = job.seen
          /\ \A j \in DOMAIN man \ {job.cur, i} : man'[j] = man[j]
          /\ job'.cur = i /\ job'.rel = job.rel
          /\ job'.seen = job.seen /\ job'.stage = job.stage
      BY <2>2, <2>3, AdoptEffect
    <3> QED BY <2>2, <2>4, <3>1
  <2>6. /\ DOMAIN db' = DOMAIN db \cup {i}
        /\ db'[i].ver = job.stage.ver /\ db'[i].name = job.stage.name
        /\ \A j \in DOMAIN db : db'[j] = db[j]
    BY <2>3, <2>4, WriteRows
  <2>7. pc \in Zipped /\ pc \in Looking
    BY <2>1 DEF Zipped, Looking, Pipe
  <2>8. EntriesOK'
    <3>1. \A j \in DOMAIN man \ {job.cur} :
            (Edited(j, man[j]) /\ Behind(j, man[j]) /\ Told(j, man[j], Known(j)))'
      BY <2>1, <2>3, <2>4, <2>5, <2>6
      DEF EntriesOK, Edited, Behind, Told, Known, Is, Exists, Real, Shelled
    <3>2. (Edited(i, man[i]) /\ Behind(i, man[i]) /\ Told(i, man[i], Known(i)))'
      BY <1>3, <1>4, <2>3, <2>5, <2>6, <2>7 DEF Edited, Behind, Told, Read, Is, Exists
    <3>3. \A j \in DOMAIN ledger :
            (/\ Edited(j, ledger[j]) /\ Behind(j, ledger[j])
             /\ Told(j, ledger[j], ledger[j].stamp = db[j].stamp))'
      BY <2>1, <2>3, <2>4, <2>6 DEF EntriesOK, Edited, Behind, Told, Is, Exists, Real, Shelled
    <3> QED BY <2>3, <2>5, <3>1, <3>2, <3>3 DEF EntriesOK
  <2>9. QueuedOK'
    <3>1. back = "fs" => q'.imp = {}
      BY <1>5, <2>1, <2>3
    <3> QED BY <2>1, <2>3, <2>4, <2>5, <2>6, <3>1 DEF QueuedOK, Read, Real, Known, Exists, Shelled
  <2>10. HandlerOK'
    <3>1. SeenOK'
      BY <1>4, <2>3, <2>5, <2>7 DEF SeenOK, Read, Exists, Looking, Pipe
    <3>2. StagedOK'
      BY <2>3, <2>5, <2>7 DEF HandlerOK, StagedOK, Afresh, Exists
    <3>3. OverOK' /\ LandsOK'
      BY <2>3, <2>5, <2>6 DEF OverOK, LandsOK, Is, Shelled
    <3> QED BY <3>1, <3>2, <3>3 DEF HandlerOK
  <2>11. NothingLost'
    BY <2>3, <2>4, WriteStored
  <2> QED BY <2>8, <2>9, <2>10, <2>11
<1>12. ASSUME NEW i \in Id, AsNewTwice(i)
       PROVE  TruthInv'
  <2>1. /\ UNCHANGED <<disk, copies, ledger, man, lineage, job, q, pc>> /\ i \in Fresh
        /\ pc = "asNew2" /\ Write(i, job.stage.ver, job.stage.name)
    BY <1>12, SteadyPlaces DEF AsNewTwice
  <2>2. i \notin DOMAIN man /\ i \notin DOMAIN ledger /\ i \notin DOMAIN db
    BY <2>1, VersionTypes DEF LadderInv, UsedOK, Fresh
  <2>3. DOMAIN db' = DOMAIN db \cup {i} /\ \A j \in DOMAIN db : db'[j] = db[j]
    <3>1. DOMAIN db' = DOMAIN db \cup {i} /\ \A j \in DOMAIN db \ {i} : db'[j] = db[j]
      BY <2>1, WriteRows
    <3> QED BY <2>2, <3>1
  <2>4. EntriesOK' /\ QueuedOK'
    BY <2>1, <2>2, <2>3 DEF EntriesOK, Edited, Behind, Told, Known, Is, Exists, Real, Shelled,
       QueuedOK, Read
  <2>5. HandlerOK'
    BY <2>1 DEF HandlerOK, SeenOK, Read, StagedOK, Afresh, OverOK, LandsOK, Exists, Shelled
  <2>6. NothingLost'
    BY <2>1, <2>2, WriteStored
  <2> QED BY <2>4, <2>5, <2>6
<1>13. CASE Finalize
  <2>1. /\ UNCHANGED <<disk, copies, db, lineage, q>> /\ ledger' = man'
        /\ pc = "finalize" /\ pc' = back /\ back \in {"fs", "export"}
    BY <1>13 DEF Finalize, Return, Control, ReturnsOK
  <2>2. job.cur \in DOMAIN man /\ man[job.cur].path = job.rel
    BY <1>1, <2>1 DEF Onto, Pipe
  <2>3. /\ DOMAIN man' = DOMAIN man /\ \A j \in DOMAIN man \ {job.cur} : man'[j] = man[j]
        /\ man'[job.cur].path = job.rel
        /\ job.cur \notin DOMAIN db => man' = man
        /\ job.cur \in DOMAIN db => man'[job.cur].hash = job.seen
    <3> DEFINE e == [man[job.cur] EXCEPT !.stamp = db[job.cur].stamp, !.hash = job.seen]
    <3>1. e.path = job.rel /\ e.hash = job.seen
      BY <2>2, PartialValue DEF TypeOK, ManifestOK, Entry
    <3>2. man' = IF job.cur \in DOMAIN db THEN [man EXCEPT ![job.cur] = e] ELSE man
      BY <1>13 DEF Finalize
    <3> HIDE DEF e
    <3> QED BY <2>2, <3>1, <3>2
  <2>4. job.cur \in DOMAIN db => job.stage.ver = db[job.cur].ver
                              /\ job.stage.name = db[job.cur].name
    BY <2>1 DEF HandlerOK, LandsOK, Is
  <2>5. pc \in Zipped /\ pc \in Looking
    BY <2>1 DEF Zipped, Looking, Pipe
  <2>6. \A j \in DOMAIN man :
          (Edited(j, man[j]) /\ Behind(j, man[j]) /\ Told(j, man[j], Known(j)))'
    <3>1. \A j \in DOMAIN man \ {job.cur} :
            (Edited(j, man[j]) /\ Behind(j, man[j]) /\ Told(j, man[j], Known(j)))'
      BY <2>1, <2>3 DEF EntriesOK, Edited, Behind, Told, Known, Is, Exists, Real, Shelled
    <3>2. CASE job.cur \notin DOMAIN db
      BY <2>1, <2>3, <3>2 DEF EntriesOK, Edited, Behind, Told, Known, Is, Exists, Real, Shelled
    <3>3. CASE job.cur \in DOMAIN db
      <4>1. \A j \in {job.cur} :
              (Edited(j, man[j]) /\ Behind(j, man[j]) /\ Told(j, man[j], Known(j)))'
        BY <1>3, <1>4, <2>1, <2>3, <2>4, <2>5, <3>3 DEF Edited, Behind, Told, Read, Is, Exists
      <4> QED BY <3>1, <4>1
    <3> QED BY <3>1, <3>2, <3>3
  <2>7. EntriesOK'
    BY <2>1, <2>3, <2>6 DEF EntriesOK, Known, Told
  <2>8. QueuedOK' /\ NothingLost'
    <3>1. q'.imp = {}
      BY <1>5, <2>1
    <3> QED BY <2>1, <3>1 DEF QueuedOK, NothingLost, Stored, Versions
  <2> QED BY <2>1, <2>7, <2>8, Plain DEF Looking, Pipe
<1>14. CASE ImportFails
  <2>1. /\ UNCHANGED <<disk, copies, ledger, man, lineage, q>> /\ pc' = back
        /\ pc \in Pipe \ Shelled
        /\ \/ db' = db
           \/ pc = "import" /\ job.cur \in DOMAIN db /\ ImportOnto
    BY <1>14 DEF ImportFails, Fail, Return, Importable, Pipe, Shelled
  <2>2. pc' \in {"fs", "export", "recImp"}
    BY <2>1 DEF Control, ReturnsOK, Pipe, Shelled
  <2>3. CASE db' = db
    BY <2>1, <2>2, <2>3, ControlStep, Plain DEF Looking, Pipe, Shelled
  <2>4. CASE db' # db
    BY <2>1, <2>2, <2>4, ImportedOnto, Plain DEF Looking, Pipe, Shelled
  <2> QED BY <2>3, <2>4
<1> QED BY <1>6, <1>7, <1>8, <1>9, <1>10, <1>11, <1>12, <1>13, <1>14 DEF ImportStep

\* An export puts the row's design where the row's last export was, or where
\* nobody's directory is.
LEMMA ExportTruth ==
  ASSUME NameInv, NameInv', BookInv, TruthInv, Steady, ExportStep
  PROVE  TruthInv'
<1> USE DEF NameInv, TruthInv
<1>1. pc \in Exporting => q.imp = {} /\ ~q.dirty
  BY DEF LadderInv, ApartOK, Recovering, Exporting, Pipe
<1>2. pc \in Exporting => back = "export"
  BY DEF Control, ReturnsOK
<1>3. job.cur \in DOMAIN man /\ pc = "guard" => man[job.cur].path = job.rel
  BY DEF PathInv, PlacedOK
<1>4. ASSUME NEW i \in q.exp, Relocate(i)
      PROVE  TruthInv'
  <2>0. PICK old, new : old = man[i].path /\ new = Wanted(i)
    OBVIOUS
  <2>1. /\ UNCHANGED <<copies, ledger, db, lineage>> /\ pc = "export" /\ pc' = "relocated"
        /\ q'.imp = q.imp /\ q'.done = q.done
        /\ i \in DOMAIN man /\ ~Taken(i, new) /\ old # new
    <3>1. /\ UNCHANGED <<copies, ledger, db, lineage>> /\ pc = "export" /\ pc' = "relocated"
          /\ q'.imp = q.imp /\ q'.done = q.done
          /\ i \in DOMAIN man /\ ~Taken(i, new) /\ old \notin Candidates(i, q.snap[i].name)
      BY <1>4, <2>0 DEF Relocate, Misplaced, TypeOK, WorkOK, Work
    <3>2. new \in Candidates(i, q.snap[i].name)
      BY <2>0 DEF Wanted, Ladder, Candidates
    <3> QED BY <3>1, <3>2
  <2>2. /\ DOMAIN man' = DOMAIN man
        /\ \A j \in DOMAIN man : /\ man'[j].path = IF j = i THEN new ELSE man[j].path
                                 /\ man'[j].hash = man[j].hash
                                 /\ man'[j].stamp = man[j].stamp
    BY <1>4, <2>0, <2>1 DEF Relocate, TypeOK, ManifestOK, Partial, Entry
  <2>3. ~Exists(new) /\ \A j \in DOMAIN man : man[j].path # new /\ (j # i => man[j].path # old)
    BY <2>0, <2>1 DEF Taken, PathInv, UniquePaths, Injective
  <2>4. \A j \in DOMAIN ledger : ledger[j].path # new
    BY <1>1, <2>1, <2>3 DEF BookInv, SavedOK, Claimed, Exporting
  <2> DEFINE t == disk[old]
  <2>5. \/ ~Exists(old) /\ disk' = disk
        \/ Exists(old) /\ disk' = Put(Drop(disk, {old}), new, t)
    BY <1>4, <2>0 DEF Relocate
  <2> HIDE DEF t
  <2>6. /\ \A p : Exists(p)' /\ p # new => Exists(p) /\ disk'[p] = disk[p]
        /\ Exists(new)' => Exists(old) /\ disk'[new] = t
        /\ \A p \in DOMAIN disk : \E r \in DOMAIN disk' : disk'[r] = IF p = old THEN t ELSE disk[p]
    BY <2>3, <2>5 DEF Put, Drop, Restrict, Exists
  <2>7. \A j \in DOMAIN man :
          Exists(man[j].path)' => /\ Exists(man[j].path)
                                   /\ disk'[man'[j].path] = disk[man[j].path]
    BY <2>0, <2>2, <2>3, <2>6 DEF Exists, t
  <2>8. EntriesOK'
    <3>1. \A j \in DOMAIN man :
            (Edited(j, man[j]) /\ Behind(j, man[j]) /\ Told(j, man[j], Known(j)))'
      BY <2>1, <2>2, <2>7 DEF EntriesOK, Edited, Behind, Told, Known, Is, Exists, Real, Shelled
    <3>2. \A j \in DOMAIN ledger :
            (/\ Edited(j, ledger[j]) /\ Behind(j, ledger[j])
             /\ Told(j, ledger[j], ledger[j].stamp = db[j].stamp))'
      BY <2>1, <2>4, <2>6 DEF EntriesOK, Edited, Behind, Told, Is, Exists, Real, Shelled
    <3> QED BY <2>1, <2>2, <3>1, <3>2 DEF EntriesOK
  <2>9. QueuedOK'
    BY <1>1, <2>1 DEF QueuedOK, Exporting
  <2>10. NothingLost'
    <3>1. Versions(disk) \subseteq Versions(disk')
      BY <2>6 DEF Versions, t
    <3> QED BY <2>1, <3>1 DEF NothingLost, Stored
  <2> QED BY <2>1, <2>8, <2>9, <2>10, Plain DEF Looking, Pipe
<1>5. ASSUME NEW i \in q.exp, Allocate(i)
      PROVE  TruthInv'
  <2>1. /\ UNCHANGED <<folder, ledger, man, db, lineage>>
        /\ pc = "export" /\ pc' = "download" /\ q'.imp = q.imp /\ q'.done = q.done
    BY <1>5 DEF Allocate, TypeOK, WorkOK, Work
  <2> QED BY <2>1, ControlStep, Plain DEF Looking, Pipe, Shelled
<1>6. CASE RelocateSave
  <2>1. /\ UNCHANGED <<folder, man, db, lineage, q>> /\ ledger' = man
        /\ pc = "relocated" /\ pc' = "download"
    BY <1>6 DEF RelocateSave
  <2>2. EntriesOK'
    BY <2>1 DEF EntriesOK, Edited, Behind, Told, Known, Is, Exists, Real, Shelled
  <2>3. QueuedOK' /\ NothingLost'
    BY <1>1, <2>1 DEF QueuedOK, NothingLost, Stored, Versions, Exporting
  <2> QED BY <2>1, <2>2, <2>3, Plain DEF Looking, Pipe
<1>7. CASE Download
  <2>1. /\ UNCHANGED <<folder, ledger, man, db, lineage, q>>
        /\ pc = "download" /\ pc' = "guard" /\ job.cur \in DOMAIN db
        /\ job'.cur = job.cur /\ job'.stage = Exported(job.cur, db[job.cur])
    BY <1>7 DEF Download, TypeOK, LocalsOK, Job
  <2>2. EntriesOK' /\ QueuedOK' /\ NothingLost'
    BY <2>1, ControlStep DEF Shelled
  <2>3. SeenOK' /\ StagedOK' /\ OverOK'
    BY <2>1 DEF SeenOK, StagedOK, OverOK, Looking, Zipped, Pipe, Shelled
  <2>4. LandsOK'
    BY <2>1 DEF LandsOK
  <2> QED BY <2>2, <2>3, <2>4 DEF HandlerOK
<1>8. CASE DownloadFails \/ ExportBlocked
  <2>1. /\ UNCHANGED <<folder, ledger, man, db, lineage, q>>
        /\ pc \in {"download", "guard"} /\ pc' = "export"
    BY <1>2, <1>8 DEF DownloadFails, ExportBlocked, Fail, Return, Exporting
  <2> QED BY <2>1, ControlStep, Plain DEF Looking, Pipe, Shelled
<1>9. CASE ExportNoOp \/ ExportRecord
  <2>0. PICK i : i = job.cur
    OBVIOUS
  <2>1. /\ UNCHANGED <<folder, db, lineage, q>> /\ ledger' = man' /\ pc = "guard"
        /\ man' = Record(job.stage)
        /\ \/ pc' = "export" /\ Guarded /\ disk[job.rel] = job.stage
           \/ pc' = "swap" /\ job' = job /\ ~Dirty
    BY <2>0, <1>2, <1>9 DEF ExportNoOp, ExportRecord, Exportation, Return, Dirty, Exporting
  <2>2. /\ DOMAIN man' = DOMAIN man \cup {i}
        /\ \A j \in DOMAIN man \ {i} : man'[j] = man[j]
        /\ man'[i].path = job.rel /\ man'[i].hash = job.stage
    BY <2>0, <2>1 DEF Record, Put
  <2>3. /\ i \in DOMAIN db /\ job.stage = Exported(i, db[i])
        /\ job.stage.ver = db[i].ver /\ job.stage.name = db[i].name
    BY <2>0, <2>1 DEF HandlerOK, LandsOK, Exported
  <2>4. EntriesOK'
    <3>1. \A j \in DOMAIN man \ {i} :
            (Edited(j, man[j]) /\ Behind(j, man[j]) /\ Told(j, man[j], Known(j)))'
      BY <2>0, <2>1, <2>2 DEF EntriesOK, Edited, Behind, Told, Known, Is, Exists, Real, Shelled
    <3>2. (Edited(i, man[i]) /\ Behind(i, man[i]) /\ Told(i, man[i], Known(i)))'
      BY <2>0, <2>1, <2>2, <2>3 DEF Edited, Behind, Told, Is, Exists
    <3>3. \A j \in DOMAIN man \cup {i} :
            (Edited(j, man[j]) /\ Behind(j, man[j]) /\ Told(j, man[j], Known(j)))'
      BY <2>0, <2>2, <3>1, <3>2
    <3> QED BY <2>0, <2>1, <2>2, <3>3 DEF EntriesOK, Known, Told
  <2>5. QueuedOK' /\ NothingLost'
    BY <2>0, <1>1, <2>1 DEF QueuedOK, NothingLost, Stored, Versions, Exporting
  <2>6. HandlerOK'
    <3>1. CASE pc' = "export"
      BY <2>0, <3>1, Plain DEF Looking, Pipe
    <3>2. CASE pc' = "swap"
      <4>1. job' = job /\ ~Dirty
        BY <2>0, <2>1, <3>2
      <4>2. Exists(job.rel) => disk[job.rel].ver \in superseded \cup {job.stage.ver}
        <5>1. CASE i \in DOMAIN man
          <6>1. man[i].path = job.rel /\ Real(i)
            BY <2>0, <1>3, <2>1, <2>3, <5>1 DEF Real, Shelled
          <6>2. Exists(job.rel) => disk[job.rel] = man[i].hash
            BY <2>0, <4>1, <5>1 DEF Dirty, Guarded
          <6> QED BY <2>0, <2>3, <5>1, <6>1, <6>2 DEF EntriesOK, Behind
        <5>2. CASE i \notin DOMAIN man
          <6>1. ~Claimed(job.rel)
            BY <2>0, <2>1, <5>2 DEF PathInv, PlannedOK, PlacedOK
          <6> QED BY <2>0, <2>1, <6>1, SteadyPlaces DEF Exists
        <5> QED BY <2>0, <5>1, <5>2
      <4>3. LandsOK'
        BY <2>0, <2>1, <2>3, <3>2, <4>1, <4>2 DEF LandsOK, Is, Exists
      <4>4. SeenOK' /\ StagedOK' /\ OverOK'
        BY <2>0, <3>2 DEF SeenOK, StagedOK, OverOK, Looking, Zipped, Pipe, Shelled
      <4> QED BY <2>0, <4>3, <4>4 DEF HandlerOK
    <3> QED BY <2>0, <2>1, <3>1, <3>2
  <2> QED BY <2>0, <2>4, <2>5, <2>6
<1>10. CASE ExportConflict
  <2>1. /\ UNCHANGED <<disk, ledger, man, db, lineage, q>>
        /\ pc = "guard" /\ pc' = "zipOver" /\ copies' = copies \cup {job.stage}
        /\ job'.cur = job.cur /\ job'.rel = job.rel /\ job'.seen = disk[job.rel]
    BY <1>10 DEF ExportConflict, TypeOK, LocalsOK, Job
  <2>2. EntriesOK'
    BY <2>1 DEF EntriesOK, Edited, Behind, Told, Known, Is, Exists, Real, Shelled
  <2>3. QueuedOK' /\ NothingLost'
    BY <1>1, <2>1 DEF QueuedOK, NothingLost, Stored, Versions, Exporting
  <2>4. SeenOK' /\ StagedOK' /\ LandsOK'
    BY <2>1 DEF SeenOK, Read, StagedOK, LandsOK, Zipped, Exists
  <2>5. OverOK'
    <3>1. db[job.cur].ver = job.stage.ver
      BY <2>1 DEF HandlerOK, LandsOK, Exported
    <3> QED BY <2>1, <3>1 DEF OverOK, Preserved, Shelled
  <2> QED BY <2>2, <2>3, <2>4, <2>5 DEF HandlerOK
<1>11. CASE Swap
  <2>0. PICK i : i = job.cur
    OBVIOUS
  <2>1. /\ UNCHANGED <<copies, ledger, man, db, lineage, q>> /\ pc = "swap" /\ pc' = "export"
        /\ disk' = Put(disk, job.rel, job.stage)
    BY <2>0, <1>2, <1>11 DEF Swap, Exportation, Return, Exporting
  <2>2. /\ i \in DOMAIN man /\ man[i].path = job.rel /\ ledger = man /\ man[i].hash = job.stage
        /\ \A j \in DOMAIN man : man[j].path = job.rel => j = i
    BY <2>0, <2>1 DEF LadderInv, SwapOK, PathInv, UniquePaths, Injective
  <2>3. /\ disk'[job.rel] = job.stage /\ job.rel \in DOMAIN disk'
        /\ \A p : p # job.rel /\ Exists(p)' => Exists(p) /\ disk'[p] = disk[p]
        /\ \A p \in DOMAIN disk \ {job.rel} : p \in DOMAIN disk' /\ disk'[p] = disk[p]
    BY <2>0, <2>1 DEF Put, Exists
  <2>4. /\ Exists(job.rel) => disk[job.rel].ver \in superseded \cup {job.stage.ver}
        /\ i \in DOMAIN db =>
             /\ job.stage.ver \in superseded \cup {db[i].ver}
             /\ Known(i) => job.stage.ver = db[i].ver /\ job.stage.name = db[i].name
    BY <2>0, <2>1 DEF HandlerOK, LandsOK, Is
  <2>5. EntriesOK'
    <3>1. \A j \in DOMAIN man \ {i} :
            (Edited(j, man[j]) /\ Behind(j, man[j]) /\ Told(j, man[j], Known(j)))'
      BY <2>0, <2>1, <2>2, <2>3 DEF EntriesOK, Edited, Behind, Told, Known, Is, Exists, Real, Shelled
    <3>2. (Edited(i, man[i]) /\ Behind(i, man[i]) /\ Told(i, man[i], Known(i)))'
      BY <2>0, <2>1, <2>2, <2>3, <2>4 DEF Edited, Behind, Told, Known, Is, Exists, Real
    <3>3. \A j \in DOMAIN man \cup {i} :
            (Edited(j, man[j]) /\ Behind(j, man[j]) /\ Told(j, man[j], Known(j)))'
      BY <2>0, <2>1, <2>2, <3>1, <3>2
    <3> QED BY <2>0, <2>1, <2>2, <3>3 DEF EntriesOK, Known, Told
  <2>6. QueuedOK'
    BY <2>0, <1>1, <2>1 DEF QueuedOK, Exporting
  <2>7. NothingLost'
    <3>1. \A v \in Versions(disk) : v \in superseded \/ v \in Versions(disk')
      BY <2>0, <2>3, <2>4 DEF Versions, Exists
    <3> QED BY <2>0, <2>1, <3>1 DEF NothingLost, Stored
  <2> QED BY <2>0, <2>1, <2>5, <2>6, <2>7, Plain DEF Looking, Pipe
<1> QED BY <1>4, <1>5, <1>6, <1>7, <1>8, <1>9, <1>10, <1>11 DEF ExportStep

\* The vault's files have the first versions, one each.
LEMMA FirstVersions ==
  \A v \in 1..Cardinality(DOMAIN Vault) : \E i \in DOMAIN Vault : Vault[i].ver = v
<1> DEFINE N == Cardinality(DOMAIN Vault)
<1> SUFFICES ASSUME NEW v \in 1..N, \A i \in DOMAIN Vault : Vault[i].ver # v
             PROVE  FALSE
  OBVIOUS
<1>1. IsFiniteSet(DOMAIN Vault) /\ N \in Nat
  BY FS_CardinalityType, VaultAssumption
<1> DEFINE f == [i \in DOMAIN Vault |-> Vault[i].ver]
           S == (1..N) \ {v}
<1>2. IsFiniteSet(1..N) /\ Cardinality(1..N) = N
  BY <1>1, FS_Interval
<1>3. IsFiniteSet(S) /\ Cardinality(S) = N - 1
  BY <1>1, <1>2, FS_RemoveElement
<1>4. f \in [DOMAIN Vault -> S]
  <2>1. \A i \in DOMAIN Vault : Vault[i].ver \in S
    BY VaultAssumption
  <2> HIDE DEF S
  <2> QED BY <2>1
<1>5. \A i, j \in DOMAIN Vault : i # j => f[i] # f[j]
  BY VaultAssumption
<1>6. Cardinality(S) < N
  BY <1>1, <1>3
<1> HIDE DEF f, S
<1>7. \E i, j \in DOMAIN Vault : i # j /\ f[i] = f[j]
  BY <1>1, <1>3, <1>4, <1>6, FS_PigeonHole
<1> QED BY <1>5, <1>7

\* A vault in step is what its manifest says, with every version there is.
LEMMA InitTruth == Init => TruthInv
<1> SUFFICES ASSUME Init
             PROVE  TruthInv
  OBVIOUS
<1>1. /\ DOMAIN man = {} /\ q.imp = {} /\ pc = "down"
      /\ nver = Cardinality(DOMAIN Vault)
  BY DEF Init, Nothing, NoWork
<1>2. /\ DOMAIN db = DOMAIN Vault /\ DOMAIN ledger = DOMAIN Vault
      /\ \A i \in DOMAIN Vault :
           /\ db[i].ver = Vault[i].ver /\ db[i].name = Vault[i].name
           /\ ledger[i].path = <<Vault[i].name, Bare>>
           /\ ledger[i].hash = Exported(i, Vault[i])
  BY DEF Init
<1>3. \A i \in DOMAIN ledger :
        Exists(ledger[i].path) => disk[ledger[i].path] = ledger[i].hash
  <2> DEFINE Of(p) == CHOOSE i \in DOMAIN Vault : Vault[i].name = p[1]
  <2>1. \A p \in DOMAIN disk : disk[p] = Exported(Of(p), Vault[Of(p)])
    BY DEF Init
  <2>2. \A i \in DOMAIN Vault : Of(<<Vault[i].name, Bare>>) = i
    BY VaultAssumption
  <2> HIDE DEF Of
  <2> QED BY <1>2, <2>1, <2>2 DEF Exists
<1>4. EntriesOK
  <2>1. \A i \in DOMAIN ledger : /\ ledger[i].hash.ver = db[i].ver
                                 /\ ledger[i].hash.name = db[i].name
    <3>1. \A i \in DOMAIN ledger : /\ Exported(i, Vault[i]).ver = Vault[i].ver
                                   /\ Exported(i, Vault[i]).name = Vault[i].name
      BY DEF Exported
    <3> QED BY <1>2, <3>1
  <2>2. \A i \in DOMAIN ledger : Edited(i, ledger[i])
    BY <1>3 DEF Edited
  <2>3. \A i \in DOMAIN ledger : Behind(i, ledger[i])
    BY <2>1 DEF Behind
  <2>4. \A i \in DOMAIN ledger : Told(i, ledger[i], ledger[i].stamp = db[i].stamp)
    BY <2>1 DEF Told, Is
  <2> QED BY <1>1, <2>2, <2>3, <2>4 DEF EntriesOK
<1>5. QueuedOK /\ HandlerOK
  BY <1>1 DEF QueuedOK, HandlerOK, SeenOK, StagedOK, OverOK, LandsOK, Looking, Zipped, Pipe,
     Shelled
<1>6. NothingLost
  BY <1>1, <1>2, FirstVersions DEF NothingLost, Stored, Versions
<1> QED BY <1>4, <1>5, <1>6 DEF TruthInv

\* Names, books and truth, together: they hold of a vault in step, ...
SyncInv == NameInv /\ BookInv /\ TruthInv

LEMMA InitSync == Init => SyncInv
BY InitNames, InitBooks, InitTruth DEF SyncInv

\* ... and every step keeps them.
LEMMA SyncStep ==
  ASSUME Steady, SyncInv, [Next]_vars
  PROVE  SyncInv'
<1> USE DEF SyncInv
<1>1. NameInv'
  BY NamesStep DEF Steady
<1>2. CASE Next
  <2>1. BookInv'
    BY <1>1, <1>2, EnvironmentBooks, ReconcileBooks, LoopBooks, FsBooks, ImportBooks,
       ExportBooks DEF Next, Engine, NameInv
  <2>2. TruthInv'
    BY <1>1, <1>2, EnvironmentTruth, ReconcileTruth, LoopTruth, FsTruth, ImportTruth,
       ExportTruth DEF Next, Engine
  <2> QED BY <1>1, <2>1, <2>2
<1>3. CASE UNCHANGED vars
  <2>1. BookInv'
    BY <1>3 DEF vars, BookInv, NumberedOK, StampsOK, Dated, DoneOK, SavedOK, OntoOK, Claimed
  <2>2. EntriesOK' /\ QueuedOK' /\ NothingLost'
    BY <1>3 DEF vars, TruthInv, EntriesOK, Edited, Behind, Told, Known, Is, Exists, Real,
       QueuedOK, Read, NothingLost, Stored, Versions
  <2>3. HandlerOK'
    BY <1>3 DEF vars, TruthInv, HandlerOK, SeenOK, Read, StagedOK, Afresh, OverOK, Preserved,
       LandsOK, Known, Is, Exists
  <2> QED BY <1>1, <2>1, <2>2, <2>3 DEF TruthInv
<1> QED BY <1>2, <1>3

\* "Nothing is ever silently overwritten": where directories stay where they are
\* and nobody works in Penpot on what an import is about to write, every version
\* nobody edited over or threw away is on disk, in the database or in a copy.
THEOREM NothingIsLost == ASSUME Steady  PROVE Spec => []NothingLost
<1>1. Init => SyncInv
  BY InitSync
<1>2. SyncInv /\ [Next]_vars => SyncInv'
  BY SyncStep
<1>3. SyncInv => NothingLost
  BY DEF SyncInv, TruthInv
<1> QED BY <1>1, <1>2, <1>3, PTL DEF Spec

\* There, at rest, a file whose directory and row are both what the manifest
\* recorded holds the same design on both sides.
THEOREM BaselineTrue == ASSUME Steady  PROVE Spec => []Baseline
<1>1. Init => SyncInv
  BY InitSync
<1>2. SyncInv /\ [Next]_vars => SyncInv'
  BY SyncStep
<1>3. SyncInv => Baseline
  BY DEF SyncInv, TruthInv, EntriesOK, Told, Known, Real, Is, Clean, Baseline, Shelled
<1> QED BY <1>1, <1>2, <1>3, PTL DEF Spec

-----------------------------------------------------------------------------
(* Conflict copies: what the engine's own writes look like to itself.      *)

\* An event that happens is counted: what is quiet after it was quiet before,
\* and is about other events.
LEMMA Counted ==
  ASSUME TypeOK, NEW k \in Kind, Spend(k), NEW K \in SUBSET Kind, Quiet(K)'
  PROVE  k \notin K /\ Quiet(K)
<1>1. /\ spent \in [Kind -> Nat]
      /\ spent' = [spent EXCEPT ![k] = @ + 1]
  BY DEF TypeOK, HistoryOK, Spend
<1>2. \A j \in Kind : spent[j] \in Nat /\ spent'[j] = IF j = k THEN spent[j] + 1 ELSE spent[j]
  BY <1>1
<1>3. \A j \in K : j \in Kind /\ ~(spent'[j] > 0)
  BY DEF Quiet, Happened
<1> QED BY <1>2, <1>3 DEF Quiet, Happened

\* The kinds of events.
LEMMA Kinds ==
  /\ DbKind \subseteq Kind /\ DiskKind \subseteq Kind
  /\ {"crash", "fault", "wipe", "pause", "diskBreak"} \subseteq Kind
BY DEF Kind, DbKind, DiskKind

\* The engine's own steps are counted only where a call fails.
LEMMA EngineCounts ==
  ASSUME Engine
  PROVE  spent' = spent \/ Spend("fault")
<1>1. CASE Reconcile
  BY <1>1 DEF Reconcile, Start, Boot, Snapshot, SnapshotFails, Decide, RecImport, RecSave,
     RecNoops, Reseed
<1>2. CASE Loop
  BY <1>2 DEF Loop, HandlePause, PollDone, Sweep, FsDone, PollCycle, TakeDue
<1>3. CASE FsChange
  BY <1>3 DEF FsChange, RekeyMirrored, RekeyUnmirrored, RekeySave, FsGone, FsBroken, FsHash,
     FsRoute, Copy, Zip, Fetch
<1>4. CASE ImportStep
  BY <1>4 DEF ImportStep, Import, InPlace, InPlaceFails, Create, CreateFails, Unshell, AsNew,
     AsNewTwice, Finalize, ImportFails
<1>5. CASE ExportStep
  BY <1>5 DEF ExportStep, Relocate, Allocate, RelocateSave, Download, DownloadFails,
     ExportNoOp, ExportBlocked, ExportConflict, ExportRecord, Swap
<1> QED BY <1>1, <1>2, <1>3, <1>4, <1>5 DEF Engine

\* Every step is counted at most once.
LEMMA StepCounts ==
  ASSUME [Next]_vars
  PROVE  spent' = spent \/ \E k \in Kind : Spend(k)
<1>1. CASE Engine
  BY <1>1, EngineCounts, Kinds
<1>2. CASE DbChange
  BY <1>2, Kinds DEF DbChange, DbEdit, DbTouch, DbRename, DbCreate, DbDelete, DbWipe, DbKind
<1>3. CASE DiskChange
  <2>1. ASSUME NEW p \in Path, NEW ok \in BOOLEAN, DiskEdit(p, ok)
        PROVE  \E k \in Kind : Spend(k)
    BY <2>1, Kinds DEF DiskEdit, DiskKind
  <2> QED BY <1>3, <2>1, Kinds
       DEF DiskChange, DiskDelete, DiskMove, DiskMoveUnseen, DiskCopy, DiskKind
<1>4. CASE Crash
  BY <1>4, Kinds DEF Crash
<1>5. ASSUME NEW on \in BOOLEAN, SetPaused(on)
      PROVE  Spend("pause")
  BY <1>5 DEF SetPaused
<1>6. CASE UNCHANGED vars
  BY <1>6 DEF vars
<1> QED BY <1>1, <1>2, <1>3, <1>4, <1>5, <1>6, Kinds DEF Next

\* What has not happened yet had not happened before.
LEMMA QuietBefore ==
  ASSUME TypeOK, [Next]_vars, NEW K \in SUBSET Kind, Quiet(K)'
  PROVE  Quiet(K)
<1>1. CASE spent' = spent
  BY <1>1 DEF Quiet, Happened
<1>2. ASSUME NEW k \in Kind, Spend(k)
      PROVE  Quiet(K)
  BY <1>2, Counted
<1> QED BY <1>1, <1>2, StepCounts

\* Where nothing crashed and no call failed, none does in the step to there.
LEMMA NoFault ==
  ASSUME TypeOK, Unforced'
  PROVE  ~Spend("fault") /\ ~Spend("crash") /\ ~Crash
<1>1. {"crash", "fault"} \in SUBSET Kind /\ Quiet({"crash", "fault"})'
  BY Kinds DEF Unforced
<1>2. ~Spend("fault") /\ ~Spend("crash")
  BY <1>1, Counted, Kinds
<1> QED BY <1>2 DEF Crash

\* Where no call fails, the saved manifest is the engine's own, but while
\* reconcile, a relocation or an import has changed it and has not saved.
InBook == pc \notin {"down", "relocated", "finalize"} /\ ~q.dirty => ledger = man

LEMMA BookStep ==
  ASSUME Steady, NameInv, InBook, ~Spend("fault"), [Next]_vars
  PROVE  InBook'
<1> USE DEF NameInv
<1>0. CASE Crash
  BY <1>0 DEF Crash, InBook
<1>1. ~Recovering => ~q.dirty
  BY DEF LadderInv, ApartOK
<1>2. pc \notin {"rekey", "zipNew", "asNew"}
  BY SteadyPlaces
<1>3. CASE DbChange \/ DiskChange
  <2>1. UNCHANGED <<ledger, man, pc, q>>
    BY <1>3, DbFrame, DiskFrame
  <2> QED BY <2>1 DEF InBook
<1>4. ASSUME NEW on \in BOOLEAN, SetPaused(on)
      PROVE  InBook'
  BY <1>4 DEF SetPaused, InBook
<1>5. CASE Reconcile
  <2>1. CASE Start
    BY <2>1 DEF Start, InBook
  <2>2. CASE Boot \/ Snapshot
    <3>1. UNCHANGED <<ledger, man>> /\ q'.dirty = q.dirty /\ pc \in {"boot", "snap"}
      BY <2>2 DEF Boot, Snapshot, TypeOK, WorkOK, Work
    <3> QED BY <3>1 DEF InBook
  <2>3. CASE SnapshotFails
    BY <2>3 DEF SnapshotFails
  <2>4. ASSUME NEW moved \in SUBSET Id, Decide(moved)
        PROVE  InBook'
    <3>1. PICK forget :
             /\ man' = Drop(man, forget) /\ q'.dirty = (forget # {}) /\ ledger' = ledger
             /\ pc = "decide"
      BY <2>4 DEF Decide, TypeOK, WorkOK, Work
    <3>2. ledger = man
      BY <1>1, <3>1 DEF InBook, Recovering, Pipe
    <3>3. forget = {} => man' = man
      BY <3>1 DEF Drop, Restrict, TypeOK, ManifestOK, Partial
    <3> QED BY <3>1, <3>2, <3>3 DEF InBook
  <2>5. ASSUME NEW it \in q.imp, RecImport(it)
        PROVE  InBook'
    <3>1. UNCHANGED <<ledger, man>> /\ q'.dirty = q.dirty /\ pc = "recImp"
      BY <2>5 DEF RecImport, TypeOK, WorkOK, Work
    <3> QED BY <3>1 DEF InBook
  <2>6. CASE RecSave
    BY <2>6 DEF RecSave, InBook
  <2>7. CASE RecNoops
    <3>1. UNCHANGED <<ledger, man>> /\ q'.dirty = q.dirty /\ pc = "export"
      BY <2>7 DEF RecNoops, TypeOK, WorkOK, Work
    <3> QED BY <3>1 DEF InBook
  <2>8. CASE Reseed
    <3>1. ledger' = (IF man' = man THEN ledger ELSE man') /\ pc = "reseed"
      BY <2>8 DEF Reseed
    <3>2. ledger = man
      BY <1>1, <3>1 DEF InBook, Recovering, Pipe
    <3> QED BY <3>1, <3>2 DEF InBook
  <2> QED BY <1>5, <2>1, <2>2, <2>3, <2>4, <2>5, <2>6, <2>7, <2>8 DEF Reconcile
<1>6. CASE Loop
  <2>1. CASE HandlePause
    BY <1>1, <2>1 DEF HandlePause, ReloadManifest, InBook
  <2>2. CASE \/ PollDone \/ Sweep \/ FsDone
             \/ \E due \in SUBSET Ripe : PollCycle(due)
             \/ \E due \in SUBSET Armed : TakeDue(due)
    <3>1. UNCHANGED <<ledger, man>> /\ q'.dirty = q.dirty /\ pc \in {"export", "idle", "fs", "swept"}
      BY <2>2 DEF PollDone, Sweep, FsDone, PollCycle, TakeDue, TypeOK, WorkOK, Work
    <3> QED BY <3>1 DEF InBook
  <2> QED BY <1>6, <2>1, <2>2 DEF Loop
<1>7. CASE FsChange
  <2>1. UNCHANGED <<ledger, man>> /\ q'.dirty = q.dirty
        /\ pc \in {"fs", "fsRoute", "copy", "zipOver", "zipIn", "zipNew", "fetch"}
    BY <1>2, <1>7 DEF FsChange, RekeyMirrored, RekeyUnmirrored, Rekey, RekeySave, FsGone,
       FsBroken, FsHash, FsRoute, Copy, Zip, Fetch, TypeOK, WorkOK, Work
  <2> QED BY <2>1 DEF InBook
<1>8. CASE ImportStep
  <2>1. ASSUME NEW i \in Id, Settle(i)
        PROVE  pc' = "finalize" \/ q'.dirty
    BY <2>1 DEF Settle, TypeOK, WorkOK, Work
  <2>2. CASE InPlace \/ \E i \in Id : AsNew(i)
    <3>1. job.cur \in Id
      BY VersionTypes
    <3> QED BY <2>1, <2>2, <3>1 DEF InPlace, AsNew, InBook
  <2>3. CASE Import
    BY <2>3 DEF Import, InBook
  <2>4. CASE Finalize
    BY <2>4 DEF Finalize, InBook
  <2>5. CASE InPlaceFails \/ Create \/ CreateFails \/ Unshell
             \/ (\E i \in Id : AsNewTwice(i)) \/ ImportFails
    <3>1. UNCHANGED <<ledger, man, q>> /\ pc \in Pipe \ {"finalize"}
      BY <2>5 DEF InPlaceFails, Create, CreateFails, Unshell, AsNewTwice, ImportFails, Pipe
    <3> QED BY <3>1 DEF InBook, Pipe
  <2> QED BY <1>8, <2>2, <2>3, <2>4, <2>5 DEF ImportStep
<1>9. CASE ExportStep
  <2>1. CASE \E i \in q.exp : Relocate(i)
    BY <2>1 DEF Relocate, InBook
  <2>2. CASE RelocateSave \/ ExportNoOp \/ ExportRecord
    BY <2>2 DEF RelocateSave, ExportNoOp, ExportRecord, InBook
  <2>3. CASE \/ \E i \in q.exp : Allocate(i)
             \/ Download \/ DownloadFails \/ ExportBlocked \/ ExportConflict \/ Swap
    <3>1. UNCHANGED <<ledger, man>> /\ q'.dirty = q.dirty
          /\ pc \in {"export", "download", "guard", "swap"}
      BY <2>3 DEF Allocate, Download, DownloadFails, ExportBlocked, ExportConflict, Swap,
         TypeOK, WorkOK, Work
    <3> QED BY <3>1 DEF InBook
  <2> QED BY <1>9, <2>1, <2>2, <2>3 DEF ExportStep
<1>10. CASE UNCHANGED vars
  BY <1>10 DEF vars, InBook
<1> QED BY <1>0, <1>3, <1>4, <1>5, <1>6, <1>7, <1>8, <1>9, <1>10 DEF Next, Engine

\* Where, besides, nobody works in the folder, every directory is as the manifest
\* says and as it was last read, and an import is one of reconcile's.
HandsOff == Unforced /\ Quiet(DiskKind)
AsKept(e) == Exists(e.path) /\ disk[e.path] = e.hash
BackIn == Fallback \cup {"asNew2"}
FolderKept ==
  /\ copies = {}
  /\ pc = "down" => \A i \in DOMAIN ledger : AsKept(ledger[i])
  /\ pc # "down" => \A i \in DOMAIN man : AsKept(man[i]) \/ (pc = "swap" /\ i = job.cur)
  /\ \A it \in q.imp : Exists(it.rel) /\ disk[it.rel] = it.seen
  /\ pc \in Looking => Exists(job.rel) /\ disk[job.rel] = job.seen
  /\ pc \in Pipe => pc \in BackIn /\ back = "recImp"

\* A step of control keeps that.
LEMMA FolderControl ==
  ASSUME FolderKept, UNCHANGED <<disk, copies, man>>, q'.imp \subseteq q.imp,
         pc \notin {"down", "swap"}, pc' \notin {"down"} \cup Looking
  PROVE  FolderKept'
BY DEF FolderKept, AsKept, Exists, Looking

\* People who work in the database leave the folder as it is.
LEMMA EnvironmentFolder ==
  ASSUME NameInv, FolderKept, HandsOff',
     DbChange \/ DiskChange \/ Crash \/ \E on \in BOOLEAN : SetPaused(on)
  PROVE  FolderKept'
<1> USE DEF NameInv
<1>1. ~Crash
  BY NoFault DEF HandsOff
<1>2. ~DiskChange
  <2>1. \A k \in DiskKind : ~Spend(k)
    BY Counted, Kinds DEF HandsOff
  <2> QED BY <2>1 DEF DiskKind, DiskChange, DiskEdit, DiskDelete, DiskMove, DiskMoveUnseen, DiskCopy
<1>3. CASE DbChange
  <2>1. UNCHANGED <<disk, copies, ledger, man, pc, back, job, q>>
    BY <1>3, DbFrame
  <2> QED BY <2>1 DEF FolderKept, AsKept, Exists
<1>4. ASSUME NEW on \in BOOLEAN, SetPaused(on)
      PROVE  FolderKept'
  BY <1>4 DEF SetPaused, FolderKept, AsKept, Exists
<1> QED BY <1>1, <1>2, <1>3, <1>4

\* Reconcile reads what is there.
LEMMA ReconcileFolder ==
  ASSUME NameInv, Steady, FolderKept, HandsOff', Reconcile
  PROVE  FolderKept'
<1> USE DEF NameInv
<1>0. ~Spend("fault")
  BY NoFault DEF HandsOff
<1>1. CASE Start
  <2>1. UNCHANGED <<disk, copies, ledger, q>> /\ man' = ledger /\ pc = "down" /\ pc' = "boot"
    BY <1>1 DEF Start
  <2> QED BY <2>1 DEF FolderKept, AsKept, Exists, Looking, Pipe
<1>2. CASE Boot \/ Snapshot \/ RecNoops
  <2>1. /\ UNCHANGED <<disk, copies, man>> /\ q'.imp = q.imp
        /\ pc \in {"boot", "snap", "export"} /\ pc' \in {"snap", "rekey", "decide", "idle", "reseed"}
    BY <1>2 DEF Boot, Snapshot, RecNoops, TypeOK, WorkOK, Work
  <2> QED BY <2>1, FolderControl DEF Looking, Pipe
<1>3. CASE SnapshotFails
  BY <1>0, <1>3 DEF SnapshotFails
<1>4. ASSUME NEW moved \in SUBSET Id, Decide(moved)
      PROVE  FolderKept'
  <2>1. PICK forget, import \in SUBSET DOMAIN man :
          /\ man' = Drop(man, forget)
          /\ q'.imp = {[rel |-> man[i].path, seen |-> disk[man[i].path]] : i \in import}
                        \cup {[rel |-> p, seen |-> disk[p]] : p \in Unclaimed}
          /\ \A i \in import : Exists(man[i].path)
    <3> DEFINE live == {i \in DOMAIN man : Exists(man[i].path) => disk[man[i].path].ok}
             Moved(i) == IF man[i].stamp = NoStamp THEN i \in moved
                         ELSE q.snap[i].stamp # man[i].stamp
             listed == live \cap DOMAIN q.snap
             noop == {i \in listed : Clean(i) /\ ~Moved(i)}
             export == {i \in listed : ~Exists(man[i].path) \/ Moved(i)}
             import == {i \in live \ (noop \cup export) : Exists(man[i].path)}
             forget == live \ (noop \cup export \cup import)
             Item(p) == [rel |-> p, seen |-> disk[p]]
    <3>1. /\ man' = Drop(man, forget)
          /\ q'.imp = {Item(man[i].path) : i \in import} \cup {Item(p) : p \in Unclaimed}
      BY <1>4 DEF Decide, TypeOK, WorkOK, Work
    <3>2. import \in SUBSET DOMAIN man /\ forget \in SUBSET DOMAIN man
          /\ \A i \in import : Exists(man[i].path)
      OBVIOUS
    <3> HIDE DEF import, forget
    <3> QED BY <3>1, <3>2
  <2>2. UNCHANGED <<disk, copies, ledger>> /\ pc = "decide" /\ pc' = "recImp"
    BY <1>4 DEF Decide
  <2>3. \A it \in q'.imp : Exists(it.rel) /\ it.seen = disk[it.rel]
    BY <2>1 DEF Unclaimed, Exists
  <2>4. DOMAIN man' \subseteq DOMAIN man /\ \A i \in DOMAIN man' : man'[i] = man[i]
    BY <2>1 DEF Drop, Restrict
  <2> QED BY <2>2, <2>3, <2>4 DEF FolderKept, AsKept, Exists, Looking, Pipe
<1>5. ASSUME NEW it \in q.imp, RecImport(it)
      PROVE  FolderKept'
  <2>1. /\ UNCHANGED <<disk, copies, man>> /\ q'.imp \subseteq q.imp /\ pc = "recImp"
        /\ \/ pc' = "recImp"
           \/ /\ pc' = (IF Claimed(it.rel) THEN "direct" ELSE "asNew") /\ back' = "recImp"
              /\ job'.rel = it.rel /\ job'.seen = it.seen /\ Exists(it.rel)
    BY <1>5 DEF RecImport, TypeOK, WorkOK, Work
  <2>2. CASE pc' = "recImp"
    BY <2>1, <2>2, FolderControl DEF Looking, Pipe
  <2>3. CASE pc' # "recImp"
    <3>1. pc' = "direct"
      BY <2>1, <2>3, SteadyPlaces DEF Exists
    <3> QED BY <2>1, <2>3, <3>1 DEF FolderKept, AsKept, Exists, BackIn, Fallback
  <2> QED BY <2>2, <2>3
<1>6. CASE RecSave
  <2>1. /\ UNCHANGED <<disk, copies, man>> /\ q'.imp = q.imp /\ pc = "recImp" /\ pc' = "export"
    BY <1>6 DEF RecSave, TypeOK, WorkOK, Work
  <2> QED BY <2>1, FolderControl DEF Looking, Pipe
<1>7. CASE Reseed
  <2>1. UNCHANGED <<disk, copies>> /\ q'.imp = q.imp /\ pc = "reseed" /\ pc' = "idle"
    BY <1>7 DEF Reseed, TypeOK, WorkOK, Work
  <2>2. DOMAIN man' = DOMAIN man /\ \A i \in DOMAIN man :
          man'[i].path = man[i].path /\ man'[i].hash = man[i].hash
    <3>1. \A i \in DOMAIN man : /\ [man[i] EXCEPT !.stamp = db[i].stamp].path = man[i].path
                                /\ [man[i] EXCEPT !.stamp = db[i].stamp].hash = man[i].hash
      BY PartialValue DEF TypeOK, ManifestOK, Entry
    <3> QED BY <1>7, <3>1 DEF Reseed
  <2> QED BY <2>1, <2>2 DEF FolderKept, AsKept, Exists, Looking, Pipe
<1> QED BY <1>1, <1>2, <1>3, <1>4, <1>5, <1>6, <1>7 DEF Reconcile

\* The main loop looks at nothing yet.
LEMMA LoopFolder ==
  ASSUME NameInv, InBook, FolderKept, Loop
  PROVE  FolderKept'
<1> USE DEF NameInv
<1>1. CASE HandlePause
  <2>1. UNCHANGED <<disk, copies, q, pc>> /\ man' \in {man, ledger} /\ pc = "idle"
    BY <1>1 DEF HandlePause, ReloadManifest
  <2>2. ~q.dirty
    BY <2>1 DEF LadderInv, ApartOK, Recovering, Pipe
  <2>3. man' = man
    BY <2>1, <2>2 DEF InBook
  <2> QED BY <2>1, <2>3, FolderControl DEF Looking, Pipe
<1>2. CASE \/ PollDone \/ Sweep \/ FsDone
           \/ \E due \in SUBSET Ripe : PollCycle(due)
           \/ \E due \in SUBSET Armed : TakeDue(due)
  <2>1. /\ UNCHANGED <<disk, copies, man>> /\ q'.imp = q.imp
        /\ pc \in {"idle", "swept", "fs", "export"}
        /\ pc' \in {"idle", "swept", "fs", "rekey", "export"}
    BY <1>2 DEF PollDone, Sweep, FsDone, PollCycle, TakeDue, TypeOK, WorkOK, Work
  <2> QED BY <2>1, FolderControl DEF Looking, Pipe
<1> QED BY <1>1, <1>2 DEF Loop

\* Every directory looked at is recognised: it is as the engine left it.
LEMMA FsFolder ==
  ASSUME NameInv, Steady, FolderKept, FsChange
  PROVE  FolderKept'
<1> USE DEF NameInv
<1>1. pc \notin {"rekey", "zipNew", "asNew", "fetch", "copy", "zipOver", "zipIn"}
  BY SteadyPlaces DEF FolderKept, BackIn, Fallback, Pipe
<1>2. CASE \E p \in q.fs : FsGone(p) \/ FsBroken(p)
  <2>1. /\ UNCHANGED <<disk, copies, man>> /\ q'.imp = q.imp
        /\ pc = "fs" /\ pc' \in {"fs", "rekey"}
    BY <1>2 DEF FsGone, FsBroken, TypeOK, WorkOK, Work
  <2> QED BY <2>1, FolderControl DEF Looking, Pipe
<1>3. ASSUME NEW p \in q.fs, FsHash(p)
      PROVE  FolderKept'
  <2>1. /\ UNCHANGED <<disk, copies, man>> /\ q'.imp = q.imp
        /\ pc = "fs" /\ pc' \in {"fsRoute", "rekey"} /\ Exists(p)
        /\ job'.rel = p /\ job'.seen = disk[p]
    BY <1>3 DEF FsHash, SetJob, TypeOK, WorkOK, Work, LocalsOK, Job
  <2> QED BY <2>1 DEF FolderKept, AsKept, Exists, Pipe
<1>4. CASE FsRoute
  <2>1. pc = "fsRoute" /\ Exists(job.rel) /\ disk[job.rel] = job.seen
    BY <1>4 DEF FsRoute, FolderKept, Looking
  <2>2. Claimed(job.rel)
    BY <2>1, SteadyPlaces DEF Exists
  <2>3. man[Owner(job.rel)].hash = job.seen
    BY <2>1, <2>2, OwnerClaims DEF FolderKept, AsKept
  <2>4. UNCHANGED <<disk, copies, man, q>> /\ pc' = "fs"
    BY <1>4, <2>2, <2>3 DEF FsRoute, Recognised
  <2> QED BY <2>1, <2>4, FolderControl DEF Looking, Pipe
<1> QED BY <1>1, <1>2, <1>3, <1>4
     DEF FsChange, RekeyMirrored, RekeyUnmirrored, Rekey, RekeySave, Fetch, Copy, Zip

\* Reconcile's imports record what they read, which is there.
LEMMA ImportFolder ==
  ASSUME NameInv, BookInv, Steady, FolderKept, HandsOff', ImportStep
  PROVE  FolderKept'
<1> USE DEF NameInv
<1>0. ~Spend("fault")
  BY NoFault DEF HandsOff
<1>1. pc \in Pipe => pc \in BackIn /\ back = "recImp"
  BY DEF FolderKept
<1>2. pc \in BackIn => /\ job.cur \in DOMAIN man /\ man[job.cur].path = job.rel
                       /\ Exists(job.rel) /\ disk[job.rel] = job.seen
  BY DEF BookInv, OntoOK, Onto, BackIn, Fallback, Pipe, FolderKept, Looking
<1>3. ASSUME NEW i \in Id, Adopt(i), Settle(i), pc \in BackIn, UNCHANGED <<disk, copies>>
      PROVE  FolderKept'
  <2>1. /\ DOMAIN man' = (DOMAIN man \ {job.cur}) \cup {i}
        /\ man'[i].path = job.rel /\ man'[i].hash = job.seen
        /\ \A j \in DOMAIN man \ {job.cur, i} : man'[j] = man[j]
    BY <1>2, <1>3, AdoptEffect
  <2>2. pc' = "recImp" /\ q'.imp = q.imp
    BY <1>1, <1>3 DEF Settle, TypeOK, WorkOK, Work, BackIn, Fallback, Pipe
  <2>3. \A j \in DOMAIN man \ {job.cur, i} : AsKept(man[j])'
    BY <1>3, <2>1 DEF FolderKept, AsKept, Exists, BackIn, Fallback
  <2>4. AsKept(man[i])'
    BY <1>2, <1>3, <2>1 DEF AsKept, Exists
  <2>5. \A j \in DOMAIN man' : AsKept(man[j])'
    BY <2>1, <2>3, <2>4
  <2> QED BY <1>3, <2>2, <2>5 DEF FolderKept, Exists, Looking, Pipe
<1>4. CASE InPlace
  BY <1>3, <1>4, VersionTypes DEF InPlace, BackIn, Fallback
<1>5. ASSUME NEW i \in Id, AsNew(i)
      PROVE  FolderKept'
  BY <1>1, <1>3, <1>5 DEF AsNew, BackIn, Fallback, Pipe
<1>6. CASE InPlaceFails \/ Create \/ CreateFails \/ Unshell
  <2>1. /\ UNCHANGED <<disk, copies, man, job, back>> /\ q'.imp = q.imp
        /\ pc \in Fallback /\ pc' \in BackIn
    BY <1>6 DEF InPlaceFails, Create, CreateFails, Unshell, Fallback, BackIn
  <2> QED BY <1>1, <2>1 DEF FolderKept, AsKept, Exists, BackIn, Fallback, Looking, Pipe
<1>7. CASE ImportFails
  <2>1. pc = "asNew2"
    BY <1>0, <1>1, <1>7 DEF ImportFails, BackIn, Fallback, Pipe
  <2>2. UNCHANGED <<disk, copies, man>> /\ q'.imp = q.imp /\ pc' = "recImp"
    BY <1>1, <1>7, <2>1 DEF ImportFails, Fail, Return, Pipe
  <2> QED BY <2>1, <2>2, FolderControl DEF Looking, Pipe
<1>8. ~Import /\ ~Finalize /\ ~(\E i \in Id : AsNewTwice(i))
  BY <1>0, <1>1 DEF Import, Finalize, AsNewTwice, BackIn, Fallback, Pipe
<1> QED BY <1>4, <1>5, <1>6, <1>7, <1>8 DEF ImportStep

\* An export finds no directory edited, and leaves what it recorded.
LEMMA ExportFolder ==
  ASSUME NameInv, Steady, FolderKept, ExportStep
  PROVE  FolderKept'
<1> USE DEF NameInv
<1>1. pc \in Exporting => q.imp = {} /\ back = "export"
  BY DEF LadderInv, ApartOK, Recovering, Exporting, Pipe, Control, ReturnsOK
<1>2. ~Dirty \/ pc # "guard"
  BY DEF Dirty, Guarded, PathInv, PlacedOK, FolderKept, AsKept
<1>3. ASSUME NEW i \in q.exp, Relocate(i)
      PROVE  FolderKept'
  <2> DEFINE old == man[i].path
             new == Wanted(i)
             t == disk[old]
  <2>1. /\ copies' = copies /\ pc = "export" /\ pc' = "relocated" /\ q'.imp = q.imp
        /\ i \in DOMAIN man /\ ~Taken(i, new)
        /\ man' = [man EXCEPT ![i].path = new]
        /\ IF Exists(old) THEN disk' = Put(Drop(disk, {old}), new, t) ELSE UNCHANGED disk
    BY <1>3 DEF Relocate, Misplaced, TypeOK, WorkOK, Work
  <2>2. /\ DOMAIN man' = DOMAIN man
        /\ man'[i].path = new /\ man'[i].hash = man[i].hash
        /\ \A j \in DOMAIN man \ {i} : man'[j] = man[j]
    BY <2>1 DEF TypeOK, ManifestOK, Partial, Entry
  <2>3. \A j \in DOMAIN man : AsKept(man[j])
    BY <2>1 DEF FolderKept
  <2>4. disk' = Put(Drop(disk, {old}), new, t)
    BY <2>1, <2>3 DEF AsKept
  <2>5. \A j \in DOMAIN man \ {i} : man[j].path # new /\ man[j].path # old
    BY <2>1 DEF Taken, PathInv, UniquePaths, Injective
  <2>6. t = man[i].hash
    BY <2>1, <2>3 DEF AsKept
  <2> HIDE DEF old, new, t
  <2>7. \A j \in DOMAIN man \ {i} : AsKept(man[j])'
    BY <2>2, <2>3, <2>4, <2>5 DEF AsKept, Exists, Put, Drop, Restrict
  <2>8. AsKept(man[i])'
    BY <2>2, <2>4, <2>6 DEF AsKept, Exists, Put
  <2> QED BY <1>1, <2>1, <2>2, <2>7, <2>8 DEF FolderKept, Looking, Pipe, Exporting
<1>4. CASE \/ \E i \in q.exp : Allocate(i)
           \/ RelocateSave \/ Download \/ DownloadFails \/ ExportBlocked
  <2>1. /\ UNCHANGED <<disk, copies, man>> /\ q'.imp = q.imp
        /\ pc \in {"export", "relocated", "download", "guard"}
        /\ pc' \in {"download", "guard", "export"}
    BY <1>1, <1>4 DEF Allocate, RelocateSave, Download, DownloadFails, ExportBlocked, Fail,
       Return, TypeOK, WorkOK, Work, Exporting
  <2> QED BY <2>1, FolderControl DEF Looking, Pipe
<1>5. CASE ExportNoOp \/ ExportRecord
  <2>0. PICK i : i = job.cur
    OBVIOUS
  <2>1. /\ UNCHANGED <<disk, copies, q>> /\ pc = "guard"
        /\ man' = Record(job.stage)
        /\ \/ pc' = "export" /\ Guarded /\ ~Dirty /\ job.stage = man[i].hash
           \/ pc' = "swap" /\ job' = job
    BY <1>1, <1>2, <1>5, <2>0 DEF ExportNoOp, ExportRecord, Exportation, Return, Exporting
  <2>2. /\ DOMAIN man' = DOMAIN man \cup {i}
        /\ \A j \in DOMAIN man \ {i} : man'[j] = man[j]
        /\ man'[i].path = job.rel /\ man'[i].hash = job.stage
    BY <2>0, <2>1 DEF Record, Put
  <2>3. \A j \in DOMAIN man : AsKept(man[j])
    BY <2>1 DEF FolderKept
  <2>4. \A j \in DOMAIN man \ {i} : AsKept(man[j])'
    BY <2>1, <2>2, <2>3 DEF AsKept, Exists
  <2>5. pc' = "export" => AsKept(man[i])'
    BY <2>0, <2>1, <2>2 DEF AsKept, Exists, Guarded, Dirty
  <2> QED BY <1>1, <2>0, <2>1, <2>2, <2>4, <2>5 DEF FolderKept, Looking, Pipe, Exporting
<1>6. ~ExportConflict
  BY <1>2 DEF ExportConflict
<1>7. CASE Swap
  <2>0. PICK i : i = job.cur
    OBVIOUS
  <2>1. /\ UNCHANGED <<copies, man, q>> /\ pc = "swap" /\ pc' = "export"
        /\ disk' = Put(disk, job.rel, job.stage)
    BY <1>1, <1>7 DEF Swap, Exportation, Return, Exporting
  <2>2. /\ i \in DOMAIN man /\ man[i].path = job.rel /\ man[i].hash = job.stage
        /\ \A j \in DOMAIN man : man[j].path = job.rel => j = i
    BY <2>0, <2>1 DEF LadderInv, SwapOK, PathInv, UniquePaths, Injective
  <2>3. \A j \in DOMAIN man \ {i} : AsKept(man[j])'
    BY <2>0, <2>1, <2>2 DEF FolderKept, AsKept, Exists, Put
  <2>4. AsKept(man[i])'
    BY <2>1, <2>2 DEF AsKept, Exists, Put
  <2> QED BY <1>1, <2>1, <2>3, <2>4 DEF FolderKept, Looking, Pipe, Exporting
<1> QED BY <1>3, <1>4, <1>5, <1>6, <1>7 DEF ExportStep

\* Every step keeps that.
LEMMA FolderStep ==
  ASSUME Steady, NameInv, BookInv, InBook, FolderKept, HandsOff', [Next]_vars
  PROVE  FolderKept'
<1>1. CASE UNCHANGED vars
  BY <1>1 DEF vars, FolderKept, AsKept, Exists
<1> QED BY <1>1, EnvironmentFolder, ReconcileFolder, LoopFolder, FsFolder, ImportFolder,
     ExportFolder DEF Next, Engine

\* Where nothing crashes or fails, nobody works in the database and no tree is
\* broken, a row changes by the engine's own imports alone, and the engine knows.
Alone == Unforced /\ Quiet(DbKind \cup {"diskBreak"})

\* The import in progress, or one that reconcile has not read back, wrote row i.
Own(i) == (pc \in Shelled \cup {"finalize"} /\ i = job.cur) \/ i \in q.done
Absent(i) == ~Exists(man[i].path)

\* A tracked directory holds a tree of its own file, as what lands there does.
TreeOf(i, p) == Exists(p) => disk[p].ok /\ disk[p].id = i
OwnTrees ==
  /\ pc = "down" => \A i \in DOMAIN ledger : TreeOf(i, ledger[i].path)
  /\ pc # "down" => \A i \in DOMAIN man : TreeOf(i, man[i].path)
  /\ pc = "swap" => job.stage.ok /\ job.stage.id = job.cur
  /\ pc \in {"import", "direct", "create", "fill"} => job.stage.ok

\* The manifest knows every row, and the stamp of each that no import wrote.
RowsKnown ==
  /\ copies = {} /\ held = {}
  /\ pc = "down" => \A i \in DOMAIN db : i \in DOMAIN ledger /\ ledger[i].stamp = db[i].stamp
  /\ pc # "down" => \A i \in DOMAIN db : i \in DOMAIN man /\ (man[i].stamp = db[i].stamp \/ Own(i))

\* What was listed is still so; only files without a directory are exported; and
\* what reconcile imports is none of its no-ops.
Landing == pc \in Exporting \ {"export"}
Listed(i) == i \in q.exp \/ i \in q.noop \/ (Landing /\ i = job.cur)
ListingTrue ==
  /\ \A i \in Id : Listed(i) => i \in DOMAIN db /\ q.snap[i].stamp = db[i].stamp
  /\ \A i \in q.exp : Absent(i)
  /\ Landing => job.cur \notin q.exp /\ job.cur \in DOMAIN man /\ Absent(job.cur)
  /\ \A i \in q.noop : \A it \in q.imp : man[i].path # it.rel
  /\ pc \in Pipe /\ back = "recImp" => job.cur \notin q.noop

\* An import never comes to a conflict copy, nor to the end of its fallback.
Whole == {"fetch", "zipOver", "zipIn", "import", "direct", "create", "fill", "finalize"}
OwnImports ==
  /\ pc \in Pipe => pc \in Whole /\ back \in {"fs", "recImp"}
  /\ pc \in {"zipOver", "import", "finalize"} => job.cur \in DOMAIN db

\* The tracker knows each row whose file has a directory, or is about to.
Due(i) ==
  \/ i \in q.noop
  \/ pc \in Pipe /\ back = "recImp" /\ i = job.cur
  \/ \E it \in q.imp : it.rel = man[i].path
Tracked(i) == i \in DOMAIN synced /\ synced[i] = db[i].stamp
TrackerTrue ==
  pc \notin {"down", "boot", "snap", "decide"} =>
    \A i \in DOMAIN db : Absent(i) \/ Tracked(i) \/ Own(i) \/ Due(i)

AloneKept == OwnTrees /\ RowsKnown /\ ListingTrue /\ OwnImports /\ TrackerTrue

\* People who edit and delete directories make none, and leave each its id.
LEMMA DiskKept ==
  ASSUME TypeOK, Steady, DiskChange, ~Spend("diskBreak")
  PROVE  \A p \in DOMAIN disk' : /\ p \in DOMAIN disk /\ disk'[p].id = disk[p].id
                                 /\ disk[p].ok => disk'[p].ok
<1>1. ASSUME NEW p \in Path, NEW ok \in BOOLEAN, DiskEdit(p, ok)
      PROVE  \A r \in DOMAIN disk' : /\ r \in DOMAIN disk /\ disk'[r].id = disk[r].id
                                     /\ disk[r].ok => disk'[r].ok
  <2>1. ok
    BY <1>1 DEF DiskEdit
  <2>2. p \in DOMAIN disk /\ disk[p] \in Tree
        /\ disk' = [disk EXCEPT ![p].ver = nver + 1, ![p].ok = ok]
    BY <1>1, VersionTypes DEF DiskEdit, Exists
  <2>3. DOMAIN disk' = DOMAIN disk /\ \A r \in DOMAIN disk \ {p} : disk'[r] = disk[r]
    BY <2>2
  <2>4. disk'[p] = [disk[p] EXCEPT !.ver = nver + 1, !.ok = ok]
    BY <2>2
  <2>5. disk'[p].id = disk[p].id /\ disk'[p].ok = ok
    BY <2>2, <2>4 DEF Tree
  <2> QED BY <2>1, <2>3, <2>5
<1>2. ASSUME NEW p \in Path, DiskDelete(p)
      PROVE  \A r \in DOMAIN disk' : r \in DOMAIN disk /\ disk'[r] = disk[r]
  BY <1>2 DEF DiskDelete, Drop, Restrict
<1>3. ASSUME NEW k \in {"diskMove", "diskCopy"}, Spend(k)
      PROVE  FALSE
  <2>1. \E budget \in Budgets : budget[k] # 0
    BY <1>3, SpendEffect DEF Kind
  <2> QED BY <2>1 DEF Steady
<1>4. \A p \in Path, n \in Name : ~DiskMove(p, n) /\ ~DiskMoveUnseen(p, n) /\ ~DiskCopy(p, n)
  BY <1>3 DEF DiskMove, DiskMoveUnseen, DiskCopy
<1> QED BY <1>1, <1>2, <1>4 DEF DiskChange

\* Nothing is listed or waits while the engine does not reconcile or export.
LEMMA NothingListed ==
  ASSUME Control, ~Working
  PROVE  q.exp = {} /\ q.noop = {} /\ ~Landing
BY DEF Control, ListedOK, Working, Landing

\* People who edit and delete directories, and a wipe before the start.
LEMMA EnvironmentAlone ==
  ASSUME NameInv, NameInv', Steady, AloneKept, Alone',
     DbChange \/ DiskChange \/ Crash \/ \E on \in BOOLEAN : SetPaused(on)
  PROVE  AloneKept'
<1> USE DEF NameInv, AloneKept
<1>1. ~Crash /\ ~Spend("diskBreak") /\ \A k \in DbKind : ~Spend(k)
  <2>1. DbKind \cup {"diskBreak"} \in SUBSET Kind
    BY Kinds
  <2>2. \A k \in DbKind \cup {"diskBreak"} : ~Spend(k)
    BY <2>1, Counted DEF Alone
  <2>3. ~Crash
    BY NoFault DEF Alone
  <2> QED BY <2>2, <2>3
<1>2. CASE DbChange
  <2>1. DbWipe
    BY <1>1, <1>2 DEF DbChange, DbEdit, DbTouch, DbRename, DbCreate, DbDelete, DbKind
  <2>2. /\ UNCHANGED <<disk, copies, ledger, man, synced, pc, polling, back, job, q>>
        /\ pc = "down" /\ db' = Nothing /\ held' = {}
    BY <2>1 DEF DbWipe
  <2>3. q.exp = {} /\ q.noop = {} /\ DOMAIN db' = {} /\ ~Landing
    BY <2>2, NothingListed DEF Working, Pipe, Exporting, Nothing
  <2>4. OwnTrees' /\ RowsKnown' /\ OwnImports' /\ TrackerTrue'
    BY <2>2, <2>3 DEF OwnTrees, TreeOf, Exists, RowsKnown, OwnImports, TrackerTrue, Pipe
  <2>5. ListingTrue'
    BY <2>2, <2>3 DEF ListingTrue, Listed, Landing, Pipe
  <2> QED BY <2>4, <2>5
<1>3. CASE DiskChange
  <2>1. /\ UNCHANGED <<copies, ledger, man, db, held, pc, polling, back, job, q>>
    BY <1>3, DiskFrame
  <2>2. synced' = synced
    BY <1>3 DEF DiskChange, DiskEdit, DiskDelete, DiskMove, DiskMoveUnseen, DiskCopy
  <2>3. \A p \in DOMAIN disk' : /\ p \in DOMAIN disk /\ disk'[p].id = disk[p].id
                                /\ disk[p].ok => disk'[p].ok
    BY <1>1, <1>3, DiskKept
  <2>4. OwnTrees'
    BY <2>1, <2>3 DEF OwnTrees, TreeOf, Exists
  <2>5. RowsKnown' /\ OwnImports'
    BY <2>1 DEF RowsKnown, Own, OwnImports
  <2>6. \A i : Absent(i) => Absent(i)'
    BY <2>1, <2>3 DEF Absent, Exists
  <2>7. ListingTrue'
    BY <2>1, <2>6 DEF ListingTrue, Listed, Landing
  <2>8. TrackerTrue'
    BY <2>1, <2>2, <2>6 DEF TrackerTrue, Tracked, Own, Due
  <2> QED BY <2>4, <2>5, <2>7, <2>8
<1>4. ASSUME NEW on \in BOOLEAN, SetPaused(on)
      PROVE  AloneKept'
  <2>1. UNCHANGED <<disk, copies, ledger, man, db, held, synced, pc, polling, back, job, q>>
    BY <1>4 DEF SetPaused
  <2> QED BY <2>1 DEF OwnTrees, TreeOf, Exists, RowsKnown, Own, ListingTrue, Listed, Landing,
       Absent, OwnImports, TrackerTrue, Tracked, Due
<1> QED BY <1>1, <1>2, <1>3, <1>4

\* A row's stamp is never that of an entry whose facts are unknown.
LEMMA RowStamped ==
  ASSUME TypeOK, LadderInv, StampsOK, NEW i \in DOMAIN db
  PROVE  db[i].stamp # NoStamp
<1>1. i \in Id /\ clock[i] \in Nat /\ clock[i] > 0 /\ db[i].stamp = <<i, clock[i]>>
  BY VersionTypes DEF LadderInv, UsedOK, StampsOK
<1> QED BY <1>1 DEF NoStamp

\* Reconcile finds each row at its stamp: it exports what has no directory, and
\* imports what was edited while the application was closed.
LEMMA DecideAlone ==
  ASSUME NameInv, BookInv, Steady, AloneKept, NEW moved \in SUBSET Id, Decide(moved)
  PROVE  AloneKept'
<1> USE DEF NameInv, AloneKept
<1> DEFINE live == {i \in DOMAIN man : Exists(man[i].path) => disk[man[i].path].ok}
           Moved(i) == IF man[i].stamp = NoStamp THEN i \in moved
                       ELSE q.snap[i].stamp # man[i].stamp
           listed == live \cap DOMAIN q.snap
           noop == {i \in listed : Clean(i) /\ ~Moved(i)}
           export == {i \in listed : ~Exists(man[i].path) \/ Moved(i)}
           import == {i \in live \ (noop \cup export) : Exists(man[i].path)}
           forget == live \ (noop \cup export \cup import)
           Item(p) == [rel |-> p, seen |-> disk[p]]
<1>1. /\ UNCHANGED <<disk, copies, ledger, db, held, synced, job, polling, back>>
      /\ pc = "decide" /\ pc' = "recImp" /\ man' = Drop(man, forget)
      /\ q'.imp = {Item(man[i].path) : i \in import} \cup {Item(p) : p \in Unclaimed}
      /\ q'.exp = export \cup (DOMAIN q.snap \ DOMAIN man) /\ q'.noop = noop
      /\ q'.done = {} /\ q'.snap = q.snap
  BY DEF Decide, TypeOK, WorkOK, Work
<1>2. q.snap = db /\ q.done = {} /\ Unclaimed = {}
  <2>1. \A p \in DOMAIN disk : Claimed(p)
    BY <1>1, SteadyPlaces
  <2> QED BY <1>1, <2>1 DEF BookInv, DoneOK, Unclaimed
<1>3. \A i \in DOMAIN db : i \in DOMAIN man /\ man[i].stamp = db[i].stamp /\ ~Moved(i)
  <2>1. \A i \in DOMAIN db : db[i].stamp # NoStamp
    BY RowStamped DEF BookInv
  <2> QED BY <1>1, <1>2, <2>1 DEF RowsKnown, Own, Shelled
<1>4. live = DOMAIN man
  BY <1>1 DEF OwnTrees, TreeOf
<1>5. /\ noop = {i \in DOMAIN db : Clean(i)}
      /\ export = {i \in DOMAIN db : ~Exists(man[i].path)}
  BY <1>2, <1>3, <1>4
<1>6. \A i \in DOMAIN db : i \in noop \/ i \in export \/ i \in import
  BY <1>3, <1>4, <1>5
<1>7. /\ forget \cap DOMAIN db = {} /\ import \cap noop = {} /\ import \subseteq DOMAIN man
      /\ DOMAIN q.snap \ DOMAIN man = {}
  BY <1>2, <1>3, <1>6
<1> HIDE DEF noop, export, import, forget, live
<1>8. \A i \in import : \E it \in q'.imp : it.rel = man[i].path
  <2>1. \A i \in import : Item(man[i].path) \in q'.imp /\ Item(man[i].path).rel = man[i].path
    BY <1>1
  <2> QED BY <2>1
<1>9. \A it \in q'.imp : \E i \in import : it.rel = man[i].path
  BY <1>1, <1>2
<1>10. DOMAIN man' = DOMAIN man \ forget /\ \A i \in DOMAIN man' : man'[i] = man[i]
  BY <1>1 DEF Drop, Restrict
<1>11. OwnTrees'
  BY <1>1, <1>10 DEF OwnTrees, TreeOf, Exists
<1>12. RowsKnown'
  BY <1>1, <1>3, <1>7, <1>10 DEF RowsKnown
<1>13. ListingTrue'
  <2>1. \A i \in noop : i \in DOMAIN man /\ i \in DOMAIN man' /\ man'[i] = man[i]
    BY <1>3, <1>5, <1>7, <1>10
  <2>2. \A i \in noop : \A it \in q'.imp : man'[i].path # it.rel
    BY <1>7, <1>9, <2>1 DEF PathInv, UniquePaths, Injective
  <2>3. \A i \in export : Absent(i)'
    BY <1>1, <1>3, <1>5, <1>7, <1>10 DEF Absent, Exists
  <2> QED BY <1>1, <1>2, <1>5, <1>7, <2>2, <2>3
       DEF ListingTrue, Listed, Landing, Exporting, Pipe
<1>14. OwnImports'
  BY <1>1 DEF OwnImports, Pipe
<1>15. TrackerTrue'
  <2>1. \A i \in DOMAIN db : i \in DOMAIN man' /\ man'[i] = man[i]
    BY <1>3, <1>7, <1>10
  <2>2. \A i \in export : Absent(i)'
    BY <1>1, <1>5, <2>1 DEF Absent, Exists
  <2>3. \A i \in DOMAIN db : i \in import => \E it \in q'.imp : it.rel = man'[i].path
    BY <1>8, <2>1
  <2>4. \A i \in DOMAIN db : i \in noop => i \in q'.noop
    BY <1>1
  <2> QED BY <1>1, <1>6, <2>2, <2>3, <2>4 DEF TrackerTrue, Due
<1> QED BY <1>11, <1>12, <1>13, <1>14, <1>15

\* Reconcile settles what it listed, and reads back what it imported.
LEMMA ReconcileAlone ==
  ASSUME NameInv, NameInv', BookInv, Steady, AloneKept, Alone', Reconcile
  PROVE  AloneKept'
<1> USE DEF NameInv, AloneKept
<1>0. ~Spend("fault")
  BY NoFault DEF Alone
<1>1. CASE Start
  <2>1. /\ UNCHANGED <<disk, copies, ledger, db, held, job, q>>
        /\ man' = ledger /\ pc = "down" /\ pc' = "boot"
    BY <1>1 DEF Start
  <2>2. q.exp = {} /\ q.noop = {}
    BY <2>1, NothingListed DEF Working, Pipe, Exporting
  <2> QED BY <2>1, <2>2 DEF OwnTrees, TreeOf, Exists, RowsKnown, Own, ListingTrue, Listed, Landing,
       OwnImports, TrackerTrue, Pipe, Exporting
<1>2. CASE Boot \/ Snapshot
  <2>1. /\ UNCHANGED <<disk, copies, ledger, man, db, held, job>>
        /\ q'.exp = q.exp /\ q'.noop = q.noop /\ q'.done = q.done
        /\ pc \in {"boot", "snap"} /\ pc' \in {"snap", "decide", "rekey"}
    BY <1>2 DEF Boot, Snapshot, TypeOK, WorkOK, Work
  <2>2. pc' # "rekey"
    BY SteadyPlaces DEF LadderInv, StrayOK
  <2>3. q.exp = {} /\ q.noop = {}
    BY <2>1, NothingListed DEF Working, Pipe, Exporting
  <2> QED BY <2>1, <2>2, <2>3 DEF OwnTrees, TreeOf, Exists, RowsKnown, Own, ListingTrue, Listed,
       Landing, OwnImports, TrackerTrue, Pipe, Exporting, Shelled
<1>3. CASE SnapshotFails
  BY <1>0, <1>3 DEF SnapshotFails
<1>4. ASSUME NEW it \in q.imp, RecImport(it)
      PROVE  AloneKept'
  <2> DEFINE p == it.rel
  <2>1. /\ UNCHANGED <<disk, copies, ledger, man, db, held, synced, polling>>
        /\ q'.exp = q.exp /\ q'.noop = q.noop /\ q'.done = q.done /\ q'.snap = q.snap
        /\ q'.imp = q.imp \ {it} /\ pc = "recImp"
    BY <1>4 DEF RecImport, TypeOK, WorkOK, Work
  <2>2. \/ ~Exists(p) /\ pc' = "recImp"
        \/ /\ Exists(p) /\ Claimed(p) /\ pc' = "direct" /\ back' = "recImp"
           /\ job'.cur = Owner(p) /\ job'.stage = disk[p]
    <3>1. Exists(p) => Claimed(p) /\ disk[p].ok /\ disk[p].id = Owner(p)
      BY <2>1, SteadyPlaces, OwnerClaims DEF OwnTrees, TreeOf, Exists
    <3> QED BY <1>4, <2>1, <3>1 DEF RecImport
  <2>3. OwnTrees'
    BY <2>1, <2>2, SteadyPlaces, OwnerClaims DEF OwnTrees, TreeOf, Exists
  <2>4. RowsKnown'
    BY <2>1, <2>2 DEF RowsKnown, Own, Shelled
  <2>5. ListingTrue'
    BY <2>1, <2>2, OwnerClaims DEF ListingTrue, Listed, Landing, Absent, Exists, Pipe, Exporting
  <2>6. OwnImports'
    BY <2>1, <2>2 DEF OwnImports, Pipe, Whole
  <2>7. TrackerTrue'
    <3>1. \A i \in DOMAIN man : man[i].path = p => Absent(i) \/ (pc' = "direct" /\ back' = "recImp" /\ i = job'.cur)
      BY <2>2, OwnerClaims DEF Absent, PathInv, UniquePaths, Injective
    <3>2. \A i \in DOMAIN db : i \in DOMAIN man
      BY <2>1 DEF RowsKnown
    <3> QED BY <2>1, <2>2, <3>1, <3>2 DEF TrackerTrue, Tracked, Absent, Exists, Own, Due, Shelled, Pipe
  <2> QED BY <2>3, <2>4, <2>5, <2>6, <2>7
<1>5. CASE RecSave
  <2>1. /\ UNCHANGED <<disk, copies, man, db, held, synced, job>>
        /\ q'.exp = q.exp /\ q'.noop = q.noop /\ q'.done = q.done /\ q'.snap = q.snap
        /\ q.imp = {} /\ q'.imp = {} /\ pc = "recImp" /\ pc' = "export"
    BY <1>5 DEF RecSave, TypeOK, WorkOK, Work
  <2> QED BY <2>1 DEF OwnTrees, TreeOf, Exists, RowsKnown, Own, ListingTrue, Listed,
       Landing, Absent, OwnImports, TrackerTrue, Tracked, Due, Pipe, Exporting, Shelled
<1>6. CASE RecNoops
  <2>1. /\ UNCHANGED <<disk, copies, ledger, man, db, held, job>>
        /\ q'.exp = q.exp /\ q'.noop = {} /\ q'.done = q.done /\ q.exp = {}
        /\ q'.imp = q.imp /\ pc = "export" /\ pc' \in {"idle", "reseed"}
        /\ synced' = [i \in DOMAIN synced \cup q.noop |->
                        IF i \in q.noop THEN q.snap[i].stamp ELSE synced[i]]
    BY <1>6 DEF RecNoops, TypeOK, WorkOK, Work
  <2>2. q.imp = {}
    BY <2>1, NoImports DEF Recovering, Pipe
  <2>3. OwnTrees' /\ RowsKnown' /\ ListingTrue' /\ OwnImports'
    BY <2>1, <2>2 DEF OwnTrees, TreeOf, Exists, RowsKnown, Own, ListingTrue, Listed, Landing,
       OwnImports, Pipe, Exporting, Shelled
  <2>4. \A i \in q.noop : Tracked(i)'
    <3>1. \A i \in q.noop : i \in Id
      BY VersionTypes DEF Control, ListedOK
    <3> QED BY <2>1, <3>1 DEF ListingTrue, Listed, Tracked
  <2>5. \A i \in DOMAIN db \ q.noop : Tracked(i) => Tracked(i)'
    BY <2>1 DEF Tracked
  <2>6. TrackerTrue'
    BY <2>1, <2>2, <2>4, <2>5 DEF TrackerTrue, Absent, Exists, Own, Due, Pipe, Shelled
  <2> QED BY <2>3, <2>6
<1>7. CASE Reseed
  <2>1. /\ UNCHANGED <<disk, copies, db, held, job>>
        /\ q'.exp = q.exp /\ q'.noop = q.noop /\ q'.done = {} /\ q'.imp = q.imp
        /\ pc = "reseed" /\ pc' = "idle"
        /\ synced' = [i \in DOMAIN synced \cup (q.done \cap DOMAIN db) |->
                        IF i \in q.done \cap DOMAIN db THEN db[i].stamp ELSE synced[i]]
    BY <1>7 DEF Reseed, TypeOK, WorkOK, Work
  <2>2. DOMAIN man' = DOMAIN man /\ \A i \in DOMAIN man :
          /\ man'[i].path = man[i].path
          /\ man'[i].stamp = IF i \in q.done \cap DOMAIN db THEN db[i].stamp ELSE man[i].stamp
    <3>1. \A i \in DOMAIN man : /\ [man[i] EXCEPT !.stamp = db[i].stamp].path = man[i].path
                                /\ [man[i] EXCEPT !.stamp = db[i].stamp].stamp = db[i].stamp
      BY PartialValue DEF TypeOK, ManifestOK, Entry
    <3> QED BY <1>7, <3>1 DEF Reseed
  <2>3. q.imp = {} /\ q.exp = {} /\ q.noop = {}
    BY <2>1, NoImports, NothingListed DEF Recovering, Working, Pipe, Exporting
  <2>4. OwnTrees' /\ RowsKnown' /\ ListingTrue' /\ OwnImports'
    BY <2>1, <2>2, <2>3 DEF OwnTrees, TreeOf, Exists, RowsKnown, Own, ListingTrue, Listed, Landing,
       OwnImports, Pipe, Exporting, Shelled
  <2>5. \A i \in DOMAIN db : i \in q.done \/ Tracked(i) => Tracked(i)'
    BY <2>1 DEF Tracked
  <2>6. \A i \in DOMAIN db : Absent(i) => Absent(i)'
    BY <2>1, <2>2 DEF Absent, Exists, RowsKnown
  <2>7. TrackerTrue'
    BY <2>1, <2>3, <2>5, <2>6 DEF TrackerTrue, Own, Due, Pipe, Shelled
  <2> QED BY <2>4, <2>7
<1> QED BY <1>1, <1>2, <1>3, <1>4, <1>5, <1>6, <1>7, DecideAlone DEF Reconcile

\* A poll exports only rows whose files have no directory.
LEMMA LoopAlone ==
  ASSUME NameInv, NameInv', BookInv, InBook, Steady, AloneKept, Loop
  PROVE  AloneKept'
<1> USE DEF NameInv, AloneKept
<1>1. CASE HandlePause
  <2>1. /\ UNCHANGED <<disk, copies, db, held, synced, pc, polling, back, job, q>>
        /\ man' \in {man, ledger} /\ pc = "idle"
    BY <1>1 DEF HandlePause, ReloadManifest
  <2>2. ~q.dirty
    BY <2>1 DEF LadderInv, ApartOK, Recovering, Pipe
  <2>3. man' = man
    BY <2>1, <2>2 DEF InBook
  <2> QED BY <2>1, <2>3 DEF OwnTrees, TreeOf, Exists, RowsKnown, Own, ListingTrue, Listed, Landing,
       Absent, OwnImports, TrackerTrue, Tracked, Due
<1>2. ASSUME NEW due \in SUBSET Ripe, PollCycle(due)
      PROVE  AloneKept'
  <2>1. /\ UNCHANGED <<disk, copies, man, db, held, job>>
        /\ q'.exp = due /\ q'.noop = q.noop /\ q'.imp = q.imp /\ q'.done = q.done
        /\ q'.snap = Restrict(db, due) /\ pc = "idle" /\ pc' \in {"idle", "export"}
        /\ synced' = Restrict(synced, DOMAIN synced \cap DOMAIN db)
    BY <1>2 DEF PollCycle, TypeOK, WorkOK, Work
  <2>2. q.imp = {} /\ q.noop = {} /\ q.done = {}
    BY <2>1, NoImports, NothingListed DEF Recovering, Working, Pipe, Exporting, BookInv, DoneOK
  <2>3. \A i \in DOMAIN db : Absent(i) \/ Tracked(i)
    BY <2>1, <2>2 DEF TrackerTrue, Own, Due, Pipe, Shelled
  <2>4. \A i \in due : i \in DOMAIN db /\ ~Tracked(i)
    BY DEF Ripe, Observed, Tracked
  <2>5. \A i \in due : q'.snap[i] = db[i]
    BY <2>1 DEF Restrict
  <2>6. \A i \in DOMAIN db : Tracked(i) => Tracked(i)'
    BY <2>1 DEF Tracked, Restrict
  <2>7. OwnTrees' /\ RowsKnown' /\ OwnImports'
    BY <2>1, <2>2 DEF OwnTrees, TreeOf, Exists, RowsKnown, Own, OwnImports, Pipe, Shelled
  <2>8. ListingTrue'
    BY <2>1, <2>2, <2>3, <2>4, <2>5 DEF ListingTrue, Listed, Landing, Absent, Exists, Pipe, Exporting
  <2>9. TrackerTrue'
    BY <2>1, <2>3, <2>6 DEF TrackerTrue, Absent, Exists
  <2> QED BY <2>7, <2>8, <2>9
<1>3. CASE \/ PollDone \/ Sweep \/ FsDone
           \/ \E due \in SUBSET Armed : TakeDue(due)
  <2>1. /\ UNCHANGED <<disk, copies, man, db, held, synced, job>>
        /\ q'.exp = q.exp /\ q'.noop = q.noop /\ q'.imp = q.imp /\ q'.done = q.done
        /\ \/ pc = "export" /\ q.exp = {} /\ polling /\ pc' = "idle"
           \/ pc \in {"idle", "swept", "fs"} /\ pc' \in {"idle", "swept", "fs", "rekey"}
    BY <1>3 DEF PollDone, Sweep, FsDone, TakeDue, TypeOK, WorkOK, Work
  <2>2. q.noop = {} /\ q.exp = {}
    BY <2>1, NothingListed DEF Working, Pipe, Exporting, Control, ListedOK
  <2> QED BY <2>1, <2>2 DEF OwnTrees, TreeOf, Exists, RowsKnown, Own, ListingTrue, Listed, Landing,
       Absent, OwnImports, TrackerTrue, Tracked, Due, Pipe, Exporting, Shelled
<1> QED BY <1>1, <1>2, <1>3 DEF Loop

\* An edited directory is imported over its own row, which has not moved.
LEMMA FsAlone ==
  ASSUME NameInv, NameInv', BookInv, Steady, AloneKept, FsChange
  PROVE  AloneKept'
<1> USE DEF NameInv, AloneKept
<1>1. pc \notin {"rekey", "zipNew", "asNew"} /\ \A p \in DOMAIN disk : pc # "down" => Claimed(p)
  BY SteadyPlaces
<1>2. CASE \E p \in q.fs : FsGone(p) \/ FsBroken(p) \/ FsHash(p)
  <2>1. /\ UNCHANGED <<disk, copies, man, db, held, synced>>
        /\ q'.exp = q.exp /\ q'.noop = q.noop /\ q'.imp = q.imp /\ q'.done = q.done
        /\ pc = "fs" /\ pc' \in {"fs", "fsRoute", "rekey"}
    BY <1>2 DEF FsGone, FsBroken, FsHash, TypeOK, WorkOK, Work
  <2>2. q.noop = {} /\ q.exp = {}
    BY <2>1, NothingListed DEF Working, Pipe, Exporting
  <2> QED BY <2>1, <2>2 DEF OwnTrees, TreeOf, Exists, RowsKnown, Own, ListingTrue, Listed, Landing,
       Absent, OwnImports, TrackerTrue, Tracked, Due, Pipe, Exporting, Shelled
<1>3. CASE FsRoute
  <2>1. /\ UNCHANGED <<disk, copies, man, db, held, synced, q>>
        /\ pc = "fsRoute" /\ back' = "fs" /\ pc' \in {"fs", "fetch", "zipNew"}
    BY <1>3 DEF FsRoute
  <2>2. pc' # "zipNew"
    BY <1>1, <1>3, <2>1 DEF FsRoute, Valid, Exists
  <2>3. q.noop = {} /\ q.exp = {}
    BY <2>1, NothingListed DEF Working, Pipe, Exporting
  <2> QED BY <2>1, <2>2, <2>3 DEF OwnTrees, TreeOf, Exists, RowsKnown, Own, ListingTrue, Listed, Landing,
       Absent, OwnImports, TrackerTrue, Tracked, Due, Pipe, Whole, Exporting, Shelled
<1>4. ASSUME NEW moved \in BOOLEAN, Fetch(moved)
      PROVE  AloneKept'
  <2>1. /\ UNCHANGED <<disk, copies, man, db, held, synced, job, q, back>>
        /\ pc = "fetch" /\ back = "fs" /\ pc' \in {"zipIn", "copy", "zipOver"}
        /\ pc' = "zipIn" <=> job.cur \notin DOMAIN db
        /\ pc' = "copy" => man[job.cur].stamp \in {NoStamp} \/ man[job.cur].stamp # db[job.cur].stamp
    BY <1>4 DEF Fetch, Control, ReturnsOK
  <2>2. pc' # "copy"
    <3>1. SUFFICES ASSUME job.cur \in DOMAIN db
                   PROVE  man[job.cur].stamp = db[job.cur].stamp /\ db[job.cur].stamp # NoStamp
      BY <2>1
    <3>2. q.done = {}
      BY <2>1 DEF BookInv, DoneOK, Pipe
    <3> QED BY <2>1, <3>1, <3>2, RowStamped DEF BookInv, RowsKnown, Own, Shelled
  <2>3. q.noop = {} /\ q.exp = {}
    BY <2>1, NothingListed DEF Working, Pipe, Exporting
  <2> QED BY <2>1, <2>2, <2>3 DEF OwnTrees, TreeOf, Exists, RowsKnown, Own, ListingTrue, Listed, Landing,
       Absent, OwnImports, TrackerTrue, Tracked, Due, Pipe, Whole, Exporting, Shelled
<1>5. CASE Zip
  <2>1. /\ UNCHANGED <<disk, copies, man, db, held, synced, q, back>> /\ back = "fs"
        /\ \/ pc = "zipOver" /\ pc' = "import"
           \/ pc = "zipIn" /\ pc' = "direct"
        /\ job'.cur = job.cur /\ Exists(job.rel) /\ job'.stage = disk[job.rel]
    BY <1>1, <1>5 DEF Zip, TypeOK, LocalsOK, Job, OwnImports, Pipe, Control, ReturnsOK
  <2>2. job.cur \in DOMAIN man /\ man[job.cur].path = job.rel
    BY <2>1 DEF BookInv, OntoOK, Onto, Pipe
  <2>3. disk[job.rel].ok
    BY <2>1, <2>2 DEF OwnTrees, TreeOf
  <2>4. q.noop = {} /\ q.exp = {}
    BY <2>1, NothingListed DEF Working, Pipe, Exporting
  <2> QED BY <2>1, <2>3, <2>4 DEF OwnTrees, TreeOf, Exists, RowsKnown, Own, ListingTrue, Listed, Landing,
       Absent, OwnImports, TrackerTrue, Tracked, Due, Pipe, Whole, Exporting, Shelled
<1>6. ~Copy
  BY DEF Copy, OwnImports, Pipe, Whole
<1> QED BY <1>1, <1>2, <1>3, <1>4, <1>5, <1>6
     DEF FsChange, RekeyMirrored, RekeyUnmirrored, Rekey, RekeySave

\* An import writes its own row, which is then the import's own until it is read
\* back, and never has to fall back further than a new row of the same id.
LEMMA ImportAlone ==
  ASSUME NameInv, NameInv', BookInv, TruthInv, Steady, AloneKept, Alone', ImportStep
  PROVE  AloneKept'
<1> USE DEF NameInv, AloneKept
<1>0. ~Spend("fault")
  BY NoFault DEF Alone
<1>1. /\ pc \in Pipe => /\ pc \in Whole /\ back \in {"fs", "recImp"}
                        /\ job.cur \in DOMAIN man /\ man[job.cur].path = job.rel
                        /\ job.cur \notin q.exp /\ job.cur \notin q.noop
      /\ pc \in Pipe /\ back = "fs" => q.exp = {} /\ q.noop = {}
  <2>1. pc \in Pipe /\ back = "fs" => q.exp = {} /\ q.noop = {}
    BY NothingListed DEF Working, Pipe, Exporting
  <2>2. pc \in Pipe => pc \in Whole /\ back \in {"fs", "recImp"}
    BY DEF OwnImports
  <2>3. pc \in Pipe => job.cur \in DOMAIN man /\ man[job.cur].path = job.rel
    BY <2>2 DEF BookInv, OntoOK, Onto, Whole
  <2>4. pc \in Pipe /\ back = "recImp" => job.cur \notin q.exp /\ job.cur \notin q.noop
    BY <2>2 DEF LadderInv, ApartOK, ListingTrue, Whole
  <2> QED BY <2>1, <2>2, <2>3, <2>4
\* Nothing else is written, and this row is the import's own.
<1>2. ASSUME NEW c, c = job.cur, UNCHANGED <<disk, copies, held, synced>>, pc \in Pipe,
             q'.exp = q.exp, q'.noop = q.noop, q'.imp = q.imp, q'.snap = q.snap,
             q.done \subseteq q'.done,
             DOMAIN man' = DOMAIN man,
             \A i \in DOMAIN man : man'[i].path = man[i].path /\ man'[i].stamp = man[i].stamp,
             \A i \in DOMAIN db' : i = c \/ (i \in DOMAIN db /\ db'[i] = db[i]),
             DOMAIN db \subseteq DOMAIN db',
             c \in DOMAIN db' => Own(c)' \/ (pc' = "create" /\ c \notin DOMAIN db'),
             pc' = "recImp" \/ (pc' \in Whole /\ back' = back /\ job'.cur = c),
             pc' \in {"create", "fill"} => job.stage.ok /\ job'.stage = job.stage,
             pc' \in {"zipOver", "import", "direct"} => FALSE,
             pc' = "finalize" => c \in DOMAIN db'
      PROVE  AloneKept'
  <2>1. /\ pc \notin {"down", "boot", "snap", "decide"} /\ pc' \notin {"down", "boot", "snap", "decide"}
        /\ ~Landing /\ ~Landing' /\ c \in DOMAIN man
        /\ pc' # "swap" /\ c \notin q.exp /\ c \notin q.noop
        /\ pc' = "finalize" => job'.cur = c /\ c \in DOMAIN db'
        /\ pc' \in Pipe => pc' \in Whole /\ back' = back /\ job'.cur = c
                             /\ back \in {"fs", "recImp"}
    BY <1>1, <1>2 DEF Pipe, Whole, Landing, Exporting
  <2>2. OwnTrees'
    BY <1>2, <2>1 DEF OwnTrees, TreeOf, Exists
  <2>3. \A i \in DOMAIN db : i # c /\ Own(i) => Own(i)'
    <3>1. \A i \in DOMAIN db : i # c /\ Own(i) => i \in q.done
      BY <1>2 DEF Own
    <3> QED BY <1>2, <3>1 DEF Own
  <2>4. \A i \in DOMAIN db' \ {c} : i \in DOMAIN db /\ db'[i] = db[i] /\ i \in DOMAIN man
                                         /\ (man[i].stamp = db[i].stamp \/ Own(i))
    BY <1>2, <2>1 DEF RowsKnown
  <2>5. c \in DOMAIN db' => Own(c)'
    BY <1>2
  <2>6. RowsKnown'
    <3>1. \A i \in DOMAIN db' : i \in DOMAIN man' /\ (man'[i].stamp = db'[i].stamp \/ Own(i)')
      BY <1>2, <2>1, <2>3, <2>4, <2>5
    <3> QED BY <1>2, <2>1, <3>1 DEF RowsKnown
  <2>7. \A i \in DOMAIN man : Absent(i) => Absent(i)'
    BY <1>2 DEF Absent, Exists
  <2>8. ListingTrue'
    <3>1. \A i \in Id : i \in q.exp \/ i \in q.noop =>
            i \in DOMAIN db' /\ db'[i] = db[i] /\ q.snap[i].stamp = db[i].stamp /\ i \in DOMAIN man
      BY <1>2, <2>1 DEF ListingTrue, Listed, RowsKnown
    <3>2. q.exp \subseteq Id /\ q.noop \subseteq Id
      BY VersionTypes DEF Control, ListedOK
    <3>3. \A i \in q.exp : Absent(i)'
      BY <2>7, <3>1, <3>2 DEF ListingTrue
    <3>4. \A i \in q.noop : \A it \in q.imp : man'[i].path # it.rel
      BY <1>2, <3>1, <3>2 DEF ListingTrue
    <3> QED BY <1>2, <2>1, <3>1, <3>3, <3>4 DEF ListingTrue, Listed
  <2>9. OwnImports'
    BY <1>2, <2>1 DEF OwnImports
  <2>10. \A i \in DOMAIN db \ {c} : i \in DOMAIN man /\ i \in DOMAIN db'
    BY <1>2, <2>1 DEF RowsKnown
  <2>11. \A i \in DOMAIN db \ {c} : Tracked(i) => Tracked(i)'
    BY <1>2, <2>10 DEF Tracked
  <2>12. \A i \in DOMAIN db \ {c} : Due(i) => Due(i)'
    BY <1>2, <2>10 DEF Due
  <2>13. TrackerTrue'
    <3>1. \A i \in DOMAIN db \ {c} : Absent(i)' \/ Tracked(i)' \/ Own(i)' \/ Due(i)'
      BY <2>1, <2>3, <2>7, <2>10, <2>11, <2>12 DEF TrackerTrue
    <3> QED BY <2>1, <2>4, <2>5, <3>1 DEF TrackerTrue
  <2> QED BY <2>2, <2>6, <2>8, <2>9, <2>13
<1>3. CASE Import
  <2>0. PICK c : c = job.cur
    OBVIOUS
  <2>1. /\ UNCHANGED <<disk, copies, synced, man, q, job, back>>
        /\ pc = "import" /\ pc' = "finalize" /\ job.cur \in DOMAIN db /\ ImportOnto
    BY <1>3 DEF Import, Importable
  <2>2. /\ DOMAIN db' = DOMAIN db /\ \A i \in DOMAIN db \ {job.cur} : db'[i] = db[i]
        /\ held' = held
    BY <2>1, OntoRows DEF ImportOnto, Write
  <2> QED BY <1>2, <2>0, <2>1, <2>2 DEF Own, Pipe, Whole
<1>4. CASE InPlace
  <2>0. PICK c : c = job.cur
    OBVIOUS
  <2>1. /\ UNCHANGED <<disk, copies, synced, back>> /\ pc \in {"direct", "fill"}
        /\ job.cur \in DOMAIN db /\ ImportOnto /\ Adopt(job.cur)
        /\ q'.exp = q.exp /\ q'.noop = q.noop /\ q'.imp = q.imp /\ q'.snap = q.snap
        /\ \/ pc' = "finalize" /\ q' = q
           \/ pc' = "recImp" /\ q'.done = q.done \cup {job.cur}
    BY <1>4 DEF InPlace, Importable, Settle, TypeOK, WorkOK, Work
  <2>2. /\ DOMAIN db' = DOMAIN db /\ \A i \in DOMAIN db \ {job.cur} : db'[i] = db[i]
        /\ held' = held
    BY <2>1, OntoRows DEF ImportOnto, Write
  <2>3. job.cur \in Id /\ job.cur \in DOMAIN man
    BY <1>1, <2>1, VersionTypes DEF Pipe
  <2>4. /\ DOMAIN man' = DOMAIN man /\ job'.cur = job.cur /\ job'.stage = job.stage
        /\ \A i \in DOMAIN man : man'[i].path = man[i].path /\ man'[i].stamp = man[i].stamp
    BY <2>1, <2>3, AdoptEffect
  <2> QED BY <1>2, <2>0, <2>1, <2>2, <2>4 DEF Own, Pipe, Whole
<1>5. CASE InPlaceFails
  <2>0. PICK c : c = job.cur
    OBVIOUS
  <2>1. pc \in {"direct", "fill"} /\ ~Importable
    BY <1>0, <1>5 DEF InPlaceFails
  <2>2. job.stage.ok
    <3>1. CASE pc = "direct"
      BY <3>1 DEF OwnTrees
    <3>2. CASE pc = "fill"
      BY <3>2 DEF OwnTrees
    <3> QED BY <2>1, <3>1, <3>2
  <2>3. job.cur \notin DOMAIN db /\ pc = "direct"
    BY <2>1, <2>2 DEF Importable, TruthInv, HandlerOK, OverOK, Shelled
  <2>4. UNCHANGED <<disk, copies, db, held, synced, man, q, job, back>> /\ pc' = "create"
    BY <1>5, <2>1, <2>3 DEF InPlaceFails
  <2> QED BY <1>2, <2>0, <2>2, <2>3, <2>4 DEF Own, Pipe, Whole, Shelled
<1>6. CASE Create
  <2>0. PICK c : c = job.cur
    OBVIOUS
  <2>1. /\ UNCHANGED <<disk, copies, synced, man, q, job, back>>
        /\ pc = "create" /\ pc' = "fill" /\ job.stage.ok /\ Write(job.cur, Shell, job.rel[1])
    BY <1>6 DEF Create, OwnTrees
  <2>2. /\ DOMAIN db' = DOMAIN db \cup {job.cur} /\ \A i \in DOMAIN db \ {job.cur} : db'[i] = db[i]
        /\ held' = held
    BY <2>1, WriteEffect, VersionTypes
  <2> QED BY <1>2, <2>0, <2>1, <2>2 DEF Own, Pipe, Whole, Shelled
<1>7. ~CreateFails
  <2>1. pc = "create" => job.cur \notin DOMAIN db /\ job.cur \notin held
    BY DEF OwnTrees, RowsKnown, LadderInv, ApartOK
  <2> QED BY <1>0, <2>1 DEF CreateFails, Creatable
<1>8. ~Unshell /\ \A i \in Id : ~AsNew(i) /\ ~AsNewTwice(i)
  BY <1>1 DEF Unshell, AsNew, AsNewTwice, Pipe, Whole
<1>9. CASE Finalize
  <2>0. PICK i : i = job.cur
    OBVIOUS
  <2>1. /\ UNCHANGED <<disk, copies, db, held, q>> /\ pc = "finalize" /\ pc' = back
        /\ i \in DOMAIN db /\ MarkSynced(i, db[i].stamp)
        /\ man' = [man EXCEPT ![i] = [man[i] EXCEPT !.stamp = db[i].stamp, !.hash = job.seen]]
    BY <1>9, <2>0 DEF Finalize, Return, OwnImports
  <2>2. back = "fs" /\ i \in DOMAIN man /\ q.exp = {} /\ q.noop = {} /\ q.imp = {}
    BY <1>1, <2>0, <2>1, NoImports DEF Control, ReturnsOK, Pipe, Recovering
  <2>3. /\ DOMAIN man' = DOMAIN man /\ \A j \in DOMAIN man : man'[j].path = man[j].path
        /\ man'[i].stamp = db[i].stamp /\ \A j \in DOMAIN man \ {i} : man'[j] = man[j]
    <3>1. man[i] \in Entry /\ DOMAIN man' = DOMAIN man
          /\ man'[i] = [man[i] EXCEPT !.stamp = db[i].stamp, !.hash = job.seen]
          /\ \A j \in DOMAIN man \ {i} : man'[j] = man[j]
      BY <2>1, <2>2, PartialValue DEF TypeOK, ManifestOK
    <3> QED BY <2>2, <3>1 DEF Entry
  <2>4. Tracked(i)' /\ \A j \in DOMAIN db \ {i} : Tracked(j) => Tracked(j)'
    BY <2>1 DEF MarkSynced, Put, Tracked
  <2>5. OwnTrees' /\ RowsKnown' /\ ListingTrue' /\ OwnImports'
    BY <2>0, <2>1, <2>2, <2>3 DEF OwnTrees, TreeOf, Exists, RowsKnown, Own, ListingTrue, Listed,
       Landing, OwnImports, Pipe, Exporting, Shelled
  <2>6. \A j \in DOMAIN db : Absent(j) => Absent(j)'
    BY <2>1, <2>3 DEF Absent, Exists, RowsKnown
  <2>7. TrackerTrue'
    BY <2>0, <2>1, <2>2, <2>4, <2>6 DEF TrackerTrue, Own, Due, Pipe, Shelled
  <2> QED BY <2>5, <2>7
<1>10. CASE ImportFails
  <2>1. pc \in {"zipOver", "zipIn"}
    BY <1>0, <1>1, <1>10 DEF ImportFails, OwnTrees, OwnImports, Importable, Pipe, Whole
  <2>2. back = "fs" /\ q.exp = {} /\ q.noop = {}
    BY <1>1, <2>1 DEF Control, ReturnsOK, Pipe
  <2>3. UNCHANGED <<disk, copies, db, held, synced, man, q>> /\ pc' = "fs"
    BY <1>10, <2>1, <2>2 DEF ImportFails, Fail, Return
  <2> QED BY <2>1, <2>2, <2>3 DEF OwnTrees, TreeOf, Exists, RowsKnown, Own, ListingTrue, Listed, Landing,
       Absent, OwnImports, TrackerTrue, Tracked, Due, Pipe, Exporting, Shelled
<1> QED BY <1>3, <1>4, <1>5, <1>6, <1>7, <1>8, <1>9, <1>10 DEF ImportStep

\* A step of an export that writes no directory.
LEMMA ExportQuiet ==
  ASSUME TypeOK, Control, AloneKept, UNCHANGED <<disk, copies, db, held, synced>>,
         q.imp = {}, q'.imp = {}, q'.exp \subseteq q.exp, q'.noop = q.noop,
         q'.snap = q.snap, q'.done = q.done,
         pc \in Exporting, pc' \in Exporting \ {"export"}, NEW c, c = job'.cur,
         c \in q.exp \/ (Landing /\ c = job.cur), c \notin q'.exp,
         DOMAIN man' = DOMAIN man,
         \A i \in DOMAIN man :
           /\ man'[i].path = man[i].path \/ ~Exists(man'[i].path)
           /\ man'[i].stamp = man[i].stamp \/ (i = c /\ man'[i].stamp = q.snap[i].stamp),
         pc' = "swap" => job'.stage.ok /\ job'.stage.id = c
  PROVE  AloneKept'
<1> USE DEF AloneKept
<1>1. /\ pc \notin {"down", "boot", "snap", "decide", "import", "direct", "create", "fill"} \cup Pipe
      /\ pc' \notin {"down", "boot", "snap", "decide", "import", "direct", "create", "fill"} \cup Pipe
      /\ Landing' /\ \A i : Own(i) <=> i \in q.done
      /\ \A i : Own(i)' <=> i \in q.done
  BY DEF Exporting, Pipe, Landing, Own, Shelled
<1>2. OwnTrees'
  BY <1>1 DEF OwnTrees, TreeOf, Exists
<1>3. c \in Id /\ q.exp \subseteq Id
  BY VersionTypes DEF Control, ListedOK
<1>4. Listed(c) /\ c \in DOMAIN db /\ q.snap[c].stamp = db[c].stamp /\ c \in DOMAIN man /\ Absent(c)
  BY <1>1, <1>3 DEF ListingTrue, Listed, RowsKnown
<1>5. RowsKnown'
  BY <1>1, <1>4 DEF RowsKnown
<1>6. \A i \in DOMAIN man : Absent(i) => Absent(i)'
  BY DEF Absent, Exists
<1>7. ListingTrue'
  <2>1. \A i \in Id : i \in q'.exp \/ i \in q'.noop \/ i = c =>
                        i \in DOMAIN db /\ q.snap[i].stamp = db[i].stamp
    BY <1>4 DEF ListingTrue, Listed
  <2>2. \A i \in q.exp : i \in DOMAIN man /\ Absent(i)
    BY <1>1, <1>3 DEF ListingTrue, Listed, RowsKnown
  <2> QED BY <1>1, <1>4, <1>6, <2>1, <2>2 DEF ListingTrue, Listed
<1>8. OwnImports'
  BY <1>1 DEF OwnImports, Pipe
<1>9. TrackerTrue'
  BY <1>1, <1>6 DEF TrackerTrue, RowsKnown, Tracked, Due
<1> QED BY <1>2, <1>5, <1>7, <1>8, <1>9

\* An export makes a directory where there was none, and the tracker knows its row.
LEMMA ExportAlone ==
  ASSUME NameInv, BookInv, TruthInv, Steady, AloneKept, Alone', ExportStep
  PROVE  AloneKept'
<1> USE DEF NameInv, AloneKept
<1>0. ~Spend("fault")
  BY NoFault DEF Alone
<1>1. pc \in Exporting => q.imp = {} /\ back = "export"
  BY DEF LadderInv, ApartOK, Recovering, Exporting, Pipe, Control, ReturnsOK
<1>2. \A i \in q.exp : i \in DOMAIN db /\ ~Exists(man[i].path)
                       /\ (pc \in Exporting => i \in DOMAIN man)
  BY VersionTypes DEF ListingTrue, Listed, Absent, RowsKnown, Control, ListedOK, Exporting
<1>3. Landing => /\ job.cur \in DOMAIN db /\ q.snap[job.cur].stamp = db[job.cur].stamp
                 /\ job.cur \notin q.exp /\ job.cur \in DOMAIN man
                 /\ ~Exists(man[job.cur].path)
  BY VersionTypes DEF ListingTrue, Listed, Absent
<1>4. pc \in {"relocated", "download", "guard", "swap"} => Landing /\ pc \in Exporting
  BY DEF Landing, Exporting
<1>5. ASSUME NEW i \in q.exp, Relocate(i) \/ Allocate(i)
      PROVE  AloneKept'
  <2> DEFINE new == Wanted(i)
  <2>1. /\ UNCHANGED <<copies, db, held, synced>>
        /\ q'.imp = q.imp /\ q'.exp = q.exp \ {i} /\ q'.noop = q.noop /\ q'.snap = q.snap
        /\ q'.done = q.done /\ job'.cur = i
        /\ pc = "export" /\ pc' \in {"relocated", "download"}
    BY <1>5 DEF Relocate, Allocate, SetJob, TypeOK, WorkOK, Work, LocalsOK, Job
  <2>2. disk' = disk /\ (man' = man \/ (~Exists(new) /\ man' = [man EXCEPT ![i].path = new]))
    BY <1>2, <1>5 DEF Relocate, Allocate, Misplaced, Taken
  <2> HIDE DEF new
  <2>3. DOMAIN man' = DOMAIN man /\ \A j \in DOMAIN man :
          /\ man'[j].path = man[j].path \/ ~Exists(man'[j].path)
          /\ man'[j].stamp = man[j].stamp
    BY <2>2 DEF TypeOK, ManifestOK, Partial, Entry
  <2> QED BY <1>1, <2>1, <2>2, <2>3, ExportQuiet DEF Exporting
<1>6. CASE RelocateSave \/ Download
  <2>1. /\ UNCHANGED <<disk, copies, db, held, synced, man, q>> /\ job'.cur = job.cur
        /\ pc \in {"relocated", "download"} /\ pc' \in {"download", "guard"}
    BY <1>6 DEF RelocateSave, Download, TypeOK, LocalsOK, Job
  <2> QED BY <1>1, <1>3, <1>4, <2>1, ExportQuiet DEF Exporting
<1>7. ~DownloadFails
  BY <1>0, <1>3, <1>4 DEF DownloadFails
<1>8. ~ExportNoOp /\ ~ExportBlocked /\ ~ExportConflict
  <2>1. pc = "guard" => ~Guarded
    BY <1>3, <1>4 DEF Guarded, PathInv, PlacedOK
  <2> QED BY <2>1 DEF ExportNoOp, ExportBlocked, ExportConflict, Dirty
<1>9. CASE ExportRecord
  <2>0. PICK c : c = job.cur
    OBVIOUS
  <2>1. /\ UNCHANGED <<disk, copies, db, held, synced, q, job>> /\ pc = "guard" /\ pc' = "swap"
        /\ man' = Record(job.stage)
    BY <1>9 DEF ExportRecord
  <2>2. c \in DOMAIN man /\ man[c].path = job.rel
    BY <1>3, <1>4, <2>0, <2>1 DEF PathInv, PlacedOK
  <2>3. DOMAIN man' = DOMAIN man /\ \A j \in DOMAIN man :
          /\ man'[j].path = man[j].path
          /\ man'[j].stamp = man[j].stamp \/ (j = c /\ man'[j].stamp = q.snap[j].stamp)
    BY <2>0, <2>1, <2>2 DEF Record, Put
  <2>4. job.stage.ok /\ job.stage.id = c
    BY <2>0, <2>1 DEF TruthInv, HandlerOK, LandsOK, Exported
  <2> QED BY <1>1, <1>3, <1>4, <2>0, <2>1, <2>3, <2>4, ExportQuiet DEF Exporting
<1>10. CASE Swap
  <2>0. PICK c, r : c = job.cur /\ r = job.rel
    OBVIOUS
  <2>1. /\ UNCHANGED <<copies, man, db, held, q>> /\ pc = "swap" /\ pc' = "export"
        /\ disk' = Put(disk, r, job.stage) /\ job.stage.ok /\ job.stage.id = c
        /\ MarkSynced(c, q.snap[c].stamp)
    BY <1>1, <1>4, <1>10, <2>0 DEF Swap, Exportation, Return, OwnTrees
  <2>2. /\ c \in DOMAIN man /\ man[c].path = r /\ c \in DOMAIN db /\ c \notin q.exp
        /\ q.snap[c].stamp = db[c].stamp
        /\ \A j \in DOMAIN man : man[j].path = r => j = c
    BY <1>3, <1>4, <2>0, <2>1 DEF LadderInv, SwapOK, PathInv, UniquePaths, Injective
  <2>3. /\ DOMAIN disk' = DOMAIN disk \cup {r} /\ disk'[r] = job.stage
        /\ \A p \in DOMAIN disk \ {r} : disk'[p] = disk[p]
    BY <2>1 DEF Put
  <2>4. OwnTrees'
    <3>1. \A j \in DOMAIN man : TreeOf(j, man[j].path)'
      BY <2>1, <2>2, <2>3 DEF OwnTrees, TreeOf, Exists
    <3> QED BY <2>1, <3>1 DEF OwnTrees
  <2>5. RowsKnown'
    BY <2>1 DEF RowsKnown, Own, Shelled
  <2>6. \A j \in DOMAIN man \ {c} : Absent(j) => Absent(j)'
    BY <2>1, <2>2, <2>3 DEF Absent, Exists
  <2>7. ListingTrue'
    <3>1. \A j \in q.exp : Absent(j)'
      BY <1>2, <1>4, <2>1, <2>2, <2>6 DEF Absent
    <3> QED BY <1>1, <1>4, <2>1, <3>1 DEF ListingTrue, Listed, Landing, Pipe
  <2>8. OwnImports'
    BY <2>1 DEF OwnImports, Pipe
  <2>9. Tracked(c)' /\ \A j \in DOMAIN db \ {c} : Tracked(j) => Tracked(j)'
    BY <2>1, <2>2 DEF MarkSynced, Put, Tracked
  <2>10. TrackerTrue'
    <3>1. \A j \in DOMAIN db : j \in DOMAIN man
      BY <2>1 DEF RowsKnown
    <3> QED BY <1>1, <1>4, <2>1, <2>6, <2>9, <3>1 DEF TrackerTrue, Own, Due, Pipe, Shelled
  <2> QED BY <2>4, <2>5, <2>7, <2>8, <2>10
<1> QED BY <1>5, <1>6, <1>7, <1>8, <1>9, <1>10 DEF ExportStep

\* Every step keeps that.
LEMMA AloneStep ==
  ASSUME Steady, SyncInv, SyncInv', InBook, AloneKept, Alone', [Next]_vars
  PROVE  AloneKept'
<1> USE DEF SyncInv
<1>1. CASE UNCHANGED vars
  BY <1>1 DEF vars, AloneKept, OwnTrees, TreeOf, Exists, RowsKnown, Own, ListingTrue, Listed,
     Landing, Absent, OwnImports, TrackerTrue, Tracked, Due
<1> QED BY <1>1, EnvironmentAlone, ReconcileAlone, LoopAlone, FsAlone, ImportAlone,
     ExportAlone DEF Next, Engine

\* What a conflict copy would contradict, all together.
CopyInv ==
  /\ SyncInv /\ (Unforced => InBook)
  /\ (HandsOff => FolderKept) /\ (Alone => AloneKept)

\* It holds of a vault in step, with the application closed ...
LEMMA InitCopies == Init => CopyInv
<1> SUFFICES ASSUME Init
             PROVE  CopyInv
  OBVIOUS
<1>1. /\ DOMAIN man = {} /\ q.imp = {} /\ pc = "down" /\ copies = {} /\ held = {}
      /\ q.exp = {} /\ q.noop = {}
  BY DEF Init, Nothing, NoWork
<1>2. /\ DOMAIN db = DOMAIN Vault /\ DOMAIN ledger = DOMAIN Vault
      /\ DOMAIN disk = {<<Vault[i].name, Bare>> : i \in DOMAIN Vault}
      /\ \A i \in DOMAIN Vault :
           /\ db[i].stamp = ledger[i].stamp
           /\ ledger[i].path = <<Vault[i].name, Bare>>
           /\ ledger[i].hash = Exported(i, Vault[i])
  BY DEF Init
<1>3. \A i \in DOMAIN ledger : AsKept(ledger[i]) /\ TreeOf(i, ledger[i].path)
  <2> DEFINE Of(p) == CHOOSE i \in DOMAIN Vault : Vault[i].name = p[1]
  <2>1. \A p \in DOMAIN disk : disk[p] = Exported(Of(p), Vault[Of(p)])
    BY DEF Init
  <2>2. \A i \in DOMAIN Vault : Of(<<Vault[i].name, Bare>>) = i
    BY VaultAssumption
  <2> HIDE DEF Of
  <2>3. \A i \in DOMAIN ledger : /\ ledger[i].path \in DOMAIN disk
                                 /\ disk[ledger[i].path] = Exported(i, Vault[i])
    BY <1>2, <2>1, <2>2
  <2>4. \A i \in DOMAIN ledger : Exported(i, Vault[i]).ok /\ Exported(i, Vault[i]).id = i
    BY DEF Exported
  <2>5. \A i \in DOMAIN ledger : AsKept(ledger[i])
    BY <1>2, <2>3 DEF AsKept, Exists
  <2>6. \A i \in DOMAIN ledger : TreeOf(i, ledger[i].path)
    BY <2>3, <2>4 DEF TreeOf
  <2> QED BY <2>5, <2>6
<1>4. FolderKept
  BY <1>1, <1>3 DEF FolderKept, Looking, Pipe
<1>5. AloneKept
  BY <1>1, <1>2, <1>3 DEF AloneKept, OwnTrees, RowsKnown, ListingTrue, Listed, Landing,
     OwnImports, TrackerTrue, Exporting, Pipe
<1> QED BY <1>1, <1>4, <1>5, InitSync DEF CopyInv, InBook

\* ... and every step keeps it.
LEMMA CopiesStep ==
  ASSUME Steady, CopyInv, [Next]_vars
  PROVE  CopyInv'
<1>1. SyncInv /\ NameInv /\ BookInv /\ TypeOK
  BY DEF CopyInv, SyncInv, NameInv
<1>2. SyncInv'
  BY <1>1, SyncStep
<1>3. \A K \in SUBSET Kind : Quiet(K)' => Quiet(K)
  BY <1>1, QuietBefore
<1>4. /\ {"crash", "fault"} \in SUBSET Kind /\ DiskKind \in SUBSET Kind
      /\ DbKind \cup {"diskBreak"} \in SUBSET Kind
  BY Kinds
<1>5. Unforced' => Unforced
  BY <1>3, <1>4 DEF Unforced
<1>6. HandsOff' => HandsOff /\ Unforced
  BY <1>3, <1>4, <1>5 DEF HandsOff
<1>7. Alone' => Alone /\ Unforced
  BY <1>3, <1>4, <1>5 DEF Alone
<1>8. Unforced' => InBook'
  BY <1>1, <1>5, NoFault, BookStep DEF CopyInv
<1>9. HandsOff' => FolderKept'
  BY <1>1, <1>6, FolderStep DEF CopyInv
<1>10. Alone' => AloneKept'
  BY <1>1, <1>2, <1>7, AloneStep DEF CopyInv
<1> QED BY <1>2, <1>8, <1>9, <1>10 DEF CopyInv

\* "Both changed": where no call failed and nothing was killed, a conflict copy
\* is there only after somebody touched the folder and somebody touched the
\* database (or broke a tree, which costs the tracker its row): what the engine
\* wrote itself, on either side, it never takes for the other side's work.
THEOREM ConflictsNeedBoth == ASSUME Steady  PROVE Spec => []ConflictNeedsBoth
<1>1. Init => CopyInv
  BY InitCopies
<1>2. CopyInv /\ [Next]_vars => CopyInv'
  BY CopiesStep
<1>3. CopyInv => ConflictNeedsBoth
  BY DEF CopyInv, HandsOff, Alone, FolderKept, AloneKept, RowsKnown, ConflictNeedsBoth
<1> QED BY <1>1, <1>2, <1>3, PTL DEF Spec

-----------------------------------------------------------------------------
(* The rebuild: "delete the entire database, restart the app".             *)

\* No row is deleted on its own, no call fails and no tree is broken: what is
\* left are wipes, edits on both sides, deleted directories and kills.
Calm == Quiet({"dbDelete", "fault", "diskBreak"})

\* A tracked directory is one its own file can be made of again, ...
Importing == {"import", "direct", "create", "fill"}
TreesKept ==
  /\ \A i \in DOMAIN man : TreeOf(i, man[i].path)
  /\ \A i \in DOMAIN ledger : TreeOf(i, ledger[i].path)
  /\ pc = "swap" => job.stage.ok /\ job.stage.id = job.cur /\ job.cur \in DOMAIN db
  /\ pc \in Importing => job.stage.ok

\* ... no row is left an empty shell, and no import comes to its last resort, ...
Filled ==
  /\ held = {} /\ pc \notin {"unshell", "asNew2"}
  /\ \A p \in DOMAIN disk : disk[p].ver # Shell
  /\ pc \in Importing \cup {"swap"} => job.stage.ver # Shell
  /\ \A i \in DOMAIN db : db[i].ver # Shell \/ (pc = "fill" /\ i = job.cur)

\* ... and a file with a directory and no row is one that reconcile imports yet.
Waiting(i) == \/ \E it \in q.imp : it.rel = man[i].path
              \/ pc \in Pipe /\ back = "recImp" /\ i = job.cur
Unlisted == {"down", "boot", "snap", "decide"}
Covered ==
  pc \notin Unlisted => \A i \in DOMAIN man : i \in DOMAIN db \/ Absent(i) \/ Waiting(i)

RebuildInv == TreesKept /\ Filled /\ Covered

\* A step that writes neither the folder nor a row, and moves no entry.
LEMMA RebuildFrame ==
  ASSUME RebuildInv, UNCHANGED <<disk, db, held>>, \A i : ~Waiting(i),
     pc # "fill", pc' \notin Importing \cup {"swap", "unshell", "asNew2"},
     pc \in Unlisted => pc' \in Unlisted,
     \A i \in DOMAIN man' : i \in DOMAIN man /\ man'[i].path = man[i].path,
     \A i \in DOMAIN ledger' : \/ i \in DOMAIN ledger /\ ledger'[i].path = ledger[i].path
                               \/ i \in DOMAIN man /\ ledger'[i].path = man[i].path
  PROVE  RebuildInv'
<1> USE DEF RebuildInv
<1>1. TreesKept'
  BY DEF TreesKept, TreeOf, Exists
<1>2. Filled'
  BY DEF Filled
<1>3. Covered'
  BY DEF Covered, Absent, Exists
<1> QED BY <1>1, <1>2, <1>3

\* Only reconcile has files waiting.
LEMMA NobodyWaits ==
  ASSUME LadderInv, ~Recovering
  PROVE  \A i : ~Waiting(i)
BY NoImports DEF Waiting, Recovering

\* What people do in the database, but for deletes: they leave each row what it
\* holds or a version of their own, and only a wipe takes rows away.
LEMMA CalmRows ==
  ASSUME TypeOK, DbChange, ~Spend("dbDelete")
  PROVE  /\ held' \in {held, {}}
         /\ \A i \in DOMAIN db' : \/ db'[i].ver # Shell
                                  \/ i \in DOMAIN db /\ db'[i].ver = db[i].ver
         /\ pc = "down" \/ DOMAIN db \subseteq DOMAIN db'
<1>1. ASSUME NEW i \in Id, NEW v, NEW n, Write(i, v, n),
             v # Shell \/ (i \in DOMAIN db /\ v = db[i].ver)
      PROVE  /\ held' = held /\ DOMAIN db \subseteq DOMAIN db'
             /\ \A j \in DOMAIN db' : \/ db'[j].ver # Shell
                                      \/ j \in DOMAIN db /\ db'[j].ver = db[j].ver
  <2>1. /\ held' = held /\ DOMAIN db' = DOMAIN db \cup {i} /\ db'[i].ver = v
        /\ \A j \in DOMAIN db \ {i} : db'[j] = db[j]
    BY <1>1, WriteRows DEF Write
  <2> QED BY <1>1, <2>1
<1>2. nver + 1 # Shell
  BY VersionTypes DEF Shell
<1>3. ASSUME NEW i \in Id, DbEdit(i) \/ DbTouch(i)
      PROVE  \E v, n : Write(i, v, n) /\ (v # Shell \/ (i \in DOMAIN db /\ v = db[i].ver))
  BY <1>2, <1>3 DEF DbEdit, DbTouch
<1>4. ASSUME NEW i \in Id, NEW n \in Name, DbRename(i, n) \/ DbCreate(i, n)
      PROVE  \E v : Write(i, v, n) /\ (v # Shell \/ (i \in DOMAIN db /\ v = db[i].ver))
  BY <1>2, <1>4 DEF DbRename, DbCreate
<1>5. CASE DbWipe
  BY <1>5 DEF DbWipe, Nothing
<1>6. \A i \in Id : ~DbDelete(i)
  BY DEF DbDelete
<1> QED BY <1>1, <1>3, <1>4, <1>5, <1>6 DEF DbChange

\* People, and a kill: edits keep a directory its file's, and neither a wipe
\* nor a kill comes while reconcile is at a shell.
LEMMA EnvironmentRebuild ==
  ASSUME NameInv, Steady, RebuildInv, Calm',
     DbChange \/ DiskChange \/ Crash \/ \E on \in BOOLEAN : SetPaused(on)
  PROVE  RebuildInv'
<1> USE DEF NameInv, RebuildInv
<1>1. ~Spend("dbDelete") /\ ~Spend("diskBreak")
  <2>1. {"dbDelete", "fault", "diskBreak"} \in SUBSET Kind
    BY DEF Kind
  <2> QED BY <2>1, Counted DEF Calm
<1>2. CASE DbChange
  <2>1. UNCHANGED <<disk, ledger, man, pc, back, job, q>>
    BY <1>2, DbFrame
  <2>2. /\ held' = {}
        /\ \A i \in DOMAIN db' : db'[i].ver # Shell \/ (i \in DOMAIN db /\ db'[i].ver = db[i].ver)
        /\ pc = "down" \/ DOMAIN db \subseteq DOMAIN db'
    BY <1>1, <1>2, CalmRows DEF Filled
  <2>3. pc # "swap" \/ DOMAIN db \subseteq DOMAIN db'
    BY <2>2
  <2>4. TreesKept'
    BY <2>1, <2>3 DEF TreesKept, TreeOf, Exists
  <2>5. Filled'
    BY <2>1, <2>2 DEF Filled
  <2>6. Covered'
    BY <2>1, <2>2 DEF Covered, Unlisted, Absent, Exists, Waiting
  <2> QED BY <2>4, <2>5, <2>6
<1>3. CASE DiskChange
  <2>1. UNCHANGED <<ledger, man, db, held, pc, back, job, q>>
    BY <1>3, DiskFrame
  <2>2. \A p \in DOMAIN disk' : /\ p \in DOMAIN disk /\ disk'[p].id = disk[p].id
                                /\ disk[p].ok => disk'[p].ok
    BY <1>1, <1>3, DiskKept
  <2>3. \A p \in DOMAIN disk' : disk'[p].ver # Shell
    <3>1. nver + 1 # Shell
      BY VersionTypes DEF Shell
    <3> QED BY <1>3, <3>1, DiskRows DEF Filled
  <2>4. TreesKept'
    BY <2>1, <2>2 DEF TreesKept, TreeOf, Exists
  <2>5. Filled'
    BY <2>1, <2>3 DEF Filled
  <2>6. Covered'
    BY <2>1, <2>2 DEF Covered, Absent, Exists, Waiting
  <2> QED BY <2>4, <2>5, <2>6
<1>4. CASE Crash
  <2>1. /\ UNCHANGED <<disk, ledger, db, held>> /\ pc' = "down" /\ DOMAIN man' = {}
    BY <1>4 DEF Crash, Nothing
  <2>2. pc # "fill"
    BY <1>4, SteadyCalls DEF Shelled
  <2> QED BY <2>1, <2>2 DEF TreesKept, TreeOf, Exists, Filled, Covered, Unlisted, Importing
<1>5. ASSUME NEW on \in BOOLEAN, SetPaused(on)
      PROVE  RebuildInv'
  <2>1. UNCHANGED <<disk, ledger, man, db, held, pc, back, job, q>>
    BY <1>5 DEF SetPaused
  <2> QED BY <2>1 DEF TreesKept, TreeOf, Exists, Filled, Covered, Absent, Waiting
<1> QED BY <1>2, <1>3, <1>4, <1>5

\* Reconcile imports each directory whose row is not in its listing.
LEMMA DecideRebuild ==
  ASSUME NameInv, BookInv, Steady, RebuildInv, NEW moved \in SUBSET Id, Decide(moved)
  PROVE  RebuildInv'
<1> USE DEF NameInv, RebuildInv
<1> DEFINE live == {i \in DOMAIN man : Exists(man[i].path) => disk[man[i].path].ok}
           Moved(i) == IF man[i].stamp = NoStamp THEN i \in moved
                       ELSE q.snap[i].stamp # man[i].stamp
           listed == live \cap DOMAIN q.snap
           noop == {i \in listed : Clean(i) /\ ~Moved(i)}
           export == {i \in listed : ~Exists(man[i].path) \/ Moved(i)}
           import == {i \in live \ (noop \cup export) : Exists(man[i].path)}
           forget == live \ (noop \cup export \cup import)
           Item(p) == [rel |-> p, seen |-> disk[p]]
<1>1. /\ UNCHANGED <<disk, ledger, db, held, job>>
      /\ pc = "decide" /\ pc' = "recImp" /\ man' = Drop(man, forget)
      /\ q'.imp = {Item(man[i].path) : i \in import} \cup {Item(p) : p \in Unclaimed}
  BY DEF Decide, TypeOK, WorkOK, Work
<1>2. DOMAIN man' = DOMAIN man \ forget /\ \A i \in DOMAIN man' : man'[i] = man[i]
  BY <1>1 DEF Drop, Restrict
<1>3. q.snap = db
  BY <1>1 DEF BookInv, DoneOK
<1>4. \A i \in DOMAIN man : Exists(man[i].path) /\ i \notin DOMAIN db => i \in import
  BY <1>3 DEF TreesKept, TreeOf
<1> HIDE DEF forget, import
<1>5. \A i \in import : \E it \in q'.imp : it.rel = man[i].path
  <2>1. \A i \in import : Item(man[i].path) \in q'.imp /\ Item(man[i].path).rel = man[i].path
    BY <1>1
  <2> QED BY <2>1
<1>6. TreesKept'
  BY <1>1, <1>2 DEF TreesKept, TreeOf, Exists, Importing
<1>7. Filled'
  BY <1>1 DEF Filled, Importing
<1>8. Covered'
  BY <1>1, <1>2, <1>4, <1>5 DEF Covered, Absent, Exists, Waiting
<1> QED BY <1>6, <1>7, <1>8

\* Reconcile takes each directory it found to its import.
LEMMA ReconcileRebuild ==
  ASSUME NameInv, BookInv, Steady, RebuildInv, ~Spend("fault"), Reconcile
  PROVE  RebuildInv'
<1> USE DEF NameInv, RebuildInv
<1>1. CASE Start
  <2>1. UNCHANGED <<disk, db, held, ledger>> /\ man' = ledger /\ pc = "down" /\ pc' = "boot"
    BY <1>1 DEF Start
  <2> QED BY <2>1 DEF TreesKept, TreeOf, Exists, Filled, Covered, Unlisted, Importing
<1>2. CASE Boot \/ Snapshot
  <2>1. /\ UNCHANGED <<disk, db, held, ledger, man>>
        /\ pc \in {"boot", "snap"} /\ pc' \in {"snap", "decide"}
    BY <1>2, SteadyPlaces DEF Boot, Snapshot
  <2>2. \A i : ~Waiting(i)
    BY <2>1, NobodyWaits DEF Recovering, Pipe
  <2>3. /\ \A i \in DOMAIN man' : i \in DOMAIN man /\ man'[i].path = man[i].path
        /\ \A i \in DOMAIN ledger' : i \in DOMAIN ledger /\ ledger'[i].path = ledger[i].path
    BY <2>1
  <2> QED BY <2>1, <2>2, <2>3, RebuildFrame DEF Unlisted, Importing
<1>3. CASE SnapshotFails
  BY <1>3 DEF SnapshotFails
<1>4. ASSUME NEW it \in q.imp, RecImport(it)
      PROVE  RebuildInv'
  <2> DEFINE p == it.rel
  <2>1. /\ UNCHANGED <<disk, db, held, ledger, man>>
        /\ q'.imp = q.imp \ {it} /\ pc = "recImp"
    BY <1>4 DEF RecImport, TypeOK, WorkOK, Work
  <2>2. Exists(p) => /\ Claimed(p) /\ Owner(p) \in DOMAIN man /\ man[Owner(p)].path = p
                     /\ disk[p].ok /\ disk[p].id = Owner(p)
    BY <2>1, SteadyPlaces, OwnerClaims DEF TreesKept, TreeOf, Exists
  <2>3. \/ ~Exists(p) /\ pc' = "recImp"
        \/ /\ Exists(p) /\ pc' = "direct" /\ back' = "recImp"
           /\ job'.cur = Owner(p) /\ job'.stage = disk[p]
    BY <1>4, <2>1, <2>2 DEF RecImport
  <2>4. TreesKept'
    BY <2>1, <2>2, <2>3 DEF TreesKept, TreeOf, Exists, Importing
  <2>5. Filled'
    BY <2>1, <2>3 DEF Filled, Importing, Exists
  <2>6. \A i \in DOMAIN man : man[i].path = p /\ Exists(p) => i = Owner(p)
    BY <2>2 DEF PathInv, UniquePaths, Injective
  <2>7. \A i \in DOMAIN man : Waiting(i) => Absent(i)' \/ Waiting(i)'
    <3>1. ASSUME NEW i \in DOMAIN man, NEW jt \in q.imp, jt.rel = man[i].path
          PROVE  Absent(i)' \/ Waiting(i)'
      <4>1. CASE jt = it
        BY <2>1, <2>3, <2>6, <3>1, <4>1 DEF Absent, Exists, Waiting, Pipe
      <4>2. CASE jt # it
        BY <2>1, <3>1, <4>2 DEF Waiting
      <4> QED BY <4>1, <4>2
    <3> QED BY <2>1, <3>1 DEF Waiting, Pipe
  <2>8. Covered'
    BY <2>1, <2>7 DEF Covered, Unlisted, Absent, Exists
  <2> QED BY <2>4, <2>5, <2>8
<1>5. CASE RecSave
  <2>1. /\ UNCHANGED <<disk, db, held, man>> /\ ledger' \in {man, ledger}
        /\ q.imp = {} /\ pc = "recImp" /\ pc' = "export"
    BY <1>5 DEF RecSave
  <2>2. \A i : ~Waiting(i)
    BY <2>1 DEF Waiting, Pipe
  <2> QED BY <2>1, <2>2, RebuildFrame DEF Importing, Unlisted
<1>6. CASE RecNoops
  <2>1. /\ UNCHANGED <<disk, db, held, man, ledger>>
        /\ pc = "export" /\ pc' \in {"idle", "reseed"}
    BY <1>6 DEF RecNoops
  <2> QED BY <2>1, NobodyWaits, RebuildFrame DEF Recovering, Pipe, Unlisted, Importing
<1>7. CASE Reseed
  <2>1. /\ UNCHANGED <<disk, db, held>> /\ pc = "reseed" /\ pc' = "idle"
        /\ ledger' \in {ledger, man'}
    BY <1>7 DEF Reseed
  <2>2. DOMAIN man' = DOMAIN man /\ \A i \in DOMAIN man : man'[i].path = man[i].path
    <3>1. \A i \in DOMAIN man : [man[i] EXCEPT !.stamp = db[i].stamp].path = man[i].path
      BY PartialValue DEF TypeOK, ManifestOK, Entry
    <3> QED BY <1>7, <3>1 DEF Reseed
  <2>3. \A i : ~Waiting(i)
    BY <2>1, NobodyWaits DEF Recovering, Pipe
  <2>4. \A i \in DOMAIN ledger' : \/ i \in DOMAIN ledger /\ ledger'[i].path = ledger[i].path
                                  \/ i \in DOMAIN man /\ ledger'[i].path = man[i].path
    <3>1. CASE ledger' = ledger
      BY <3>1
    <3>2. CASE ledger' = man'
      BY <2>2, <3>2
    <3> QED BY <2>1, <3>1, <3>2
  <2>5. \A i \in DOMAIN man' : i \in DOMAIN man /\ man'[i].path = man[i].path
    BY <2>2
  <2> HIDE DEF RebuildInv
  <2> QED BY <2>1, <2>3, <2>4, <2>5, RebuildFrame DEF Unlisted, Importing
<1> QED BY <1>1, <1>2, <1>3, <1>4, <1>5, <1>6, <1>7, DecideRebuild DEF Reconcile

\* The loop looks and listens.
LEMMA LoopRebuild ==
  ASSUME NameInv, InBook, Steady, RebuildInv, Loop
  PROVE  RebuildInv'
<1> USE DEF NameInv
<1>1. /\ UNCHANGED <<disk, db, held, ledger>>
      /\ pc \in {"idle", "export", "swept", "fs"} /\ pc' \in {"idle", "export", "swept", "fs", "rekey"}
      /\ man' = man \/ (man' = ledger /\ pc = "idle")
  BY DEF Loop, HandlePause, ReloadManifest, PollCycle, PollDone, Sweep, TakeDue, FsDone
<1>2. man' = man
  BY <1>1 DEF InBook, LadderInv, ApartOK, Recovering, Pipe
<1> QED BY <1>1, <1>2, NobodyWaits, RebuildFrame DEF Recovering, Pipe, Unlisted, Importing

\* What is zipped is a directory of the file it is imported onto.
LEMMA FsRebuild ==
  ASSUME NameInv, BookInv, Steady, RebuildInv, FsChange
  PROVE  RebuildInv'
<1> USE DEF NameInv
<1>1. pc \notin {"rekey", "zipNew", "asNew"}
  BY SteadyPlaces
<1>2. CASE \/ \E p \in q.fs : FsGone(p) \/ FsBroken(p) \/ FsHash(p)
           \/ FsRoute \/ Copy \/ \E moved \in BOOLEAN : Fetch(moved)
  <2>1. /\ UNCHANGED <<disk, db, held, man, ledger>>
        /\ pc \in {"fs", "fsRoute", "copy", "fetch"}
        /\ pc' \in {"fs", "fsRoute", "rekey", "fetch", "zipNew", "zipIn", "copy", "zipOver"}
    BY <1>2 DEF FsGone, FsBroken, FsHash, FsRoute, Copy, Fetch
  <2>2. ~Recovering
    BY <2>1 DEF Recovering, Pipe, Control, ReturnsOK
  <2> QED BY <2>1, <2>2, NobodyWaits, RebuildFrame DEF Unlisted, Importing
<1>3. CASE Zip
  <2>1. /\ UNCHANGED <<disk, db, held, man, ledger, q, back>>
        /\ pc \in {"zipOver", "zipIn"} /\ pc' \in {"import", "direct"}
        /\ Exists(job.rel) /\ job'.stage = disk[job.rel]
    BY <1>1, <1>3 DEF Zip, TypeOK, LocalsOK, Job
  <2>2. job.cur \in DOMAIN man /\ man[job.cur].path = job.rel
    BY <2>1 DEF BookInv, OntoOK, Onto, Pipe
  <2>3. disk[job.rel].ok /\ disk[job.rel].ver # Shell
    BY <2>1, <2>2 DEF RebuildInv, TreesKept, TreeOf, Filled, Exists
  <2>4. \A i : ~Waiting(i)
    BY <2>1, NobodyWaits DEF Recovering, Pipe, Control, ReturnsOK
  <2> QED BY <2>1, <2>3, <2>4
       DEF RebuildInv, TreesKept, TreeOf, Exists, Filled, Covered, Unlisted, Absent
<1> QED BY <1>1, <1>2, <1>3 DEF FsChange, RekeyMirrored, RekeyUnmirrored, Rekey, RekeySave

\* An import makes a row of its tree, or a shell that it fills next.
LEMMA ImportRebuild ==
  ASSUME NameInv, BookInv, TruthInv, Steady, RebuildInv, ~Spend("fault"), ImportStep
  PROVE  RebuildInv'
<1> USE DEF NameInv, RebuildInv
<1>1. /\ pc \notin {"asNew", "asNew2", "unshell"}
      /\ pc \in Pipe => job.cur \in DOMAIN man /\ man[job.cur].path = job.rel
  <2>1. pc \notin {"asNew", "asNew2", "unshell", "zipNew"}
    BY SteadyPlaces DEF Filled
  <2> QED BY <2>1 DEF BookInv, OntoOK, Onto
<1>2. pc \in Importing => job.stage.ok /\ job.stage.ver # Shell
  BY DEF TreesKept, Filled
\* A row is written, the importing file's, and no entry moves.
<1>3. ASSUME NEW c, c = job.cur, pc \in Importing, UNCHANGED <<disk, held, ledger>>,
             q'.imp = q.imp, DOMAIN man' = DOMAIN man,
             \A i \in DOMAIN man : man'[i].path = man[i].path,
             DOMAIN db' = DOMAIN db \cup {c},
             \A i \in DOMAIN db \ {c} : db'[i] = db[i],
             \/ pc' \in {"finalize", "recImp"} /\ db'[c].ver # Shell
             \/ pc' = "fill" /\ job' = job
      PROVE  RebuildInv'
  <2>1. TreesKept'
    BY <1>2, <1>3 DEF TreesKept, TreeOf, Exists, Importing
  <2>2. Filled'
    BY <1>2, <1>3 DEF Filled, Importing
  <2>3. \A i \in DOMAIN man : i # c /\ Waiting(i) => Waiting(i)'
    BY <1>3 DEF Waiting
  <2>4. Covered'
    BY <1>3, <2>3 DEF Covered, Unlisted, Importing, Absent, Exists
  <2> QED BY <2>1, <2>2, <2>4
<1>4. CASE Import
  <2>1. /\ UNCHANGED <<disk, ledger, man, q>> /\ pc = "import" /\ pc' = "finalize"
        /\ job.cur \in DOMAIN db /\ ImportOnto /\ held' = held
    BY <1>4 DEF Import, Importable, ImportOnto, Write
  <2>2. PICK c : c = job.cur
    OBVIOUS
  <2>3. /\ DOMAIN db' = DOMAIN db \cup {c} /\ db'[c].ver # Shell
        /\ \A i \in DOMAIN db \ {c} : db'[i] = db[i]
    BY <1>2, <2>1, <2>2, OntoRows DEF Importing
  <2> QED BY <1>3, <2>1, <2>2, <2>3 DEF Importing
<1>5. CASE InPlace
  <2>1. /\ UNCHANGED <<disk, ledger>> /\ pc \in {"direct", "fill"}
        /\ job.cur \in DOMAIN db /\ ImportOnto /\ held' = held /\ Adopt(job.cur)
        /\ q'.imp = q.imp /\ pc' \in {"finalize", "recImp"}
    BY <1>5 DEF InPlace, Importable, ImportOnto, Write, Settle, TypeOK, WorkOK, Work
  <2>2. PICK c : c = job.cur
    OBVIOUS
  <2>3. /\ DOMAIN db' = DOMAIN db \cup {c} /\ db'[c].ver # Shell
        /\ \A i \in DOMAIN db \ {c} : db'[i] = db[i]
    BY <1>2, <2>1, <2>2, OntoRows DEF Importing
  <2>4. DOMAIN man' = DOMAIN man /\ \A i \in DOMAIN man : man'[i].path = man[i].path
    BY <1>1, <2>1, AdoptEffect, VersionTypes DEF Pipe
  <2> QED BY <1>3, <2>1, <2>2, <2>3, <2>4 DEF Importing
<1>6. CASE InPlaceFails
  <2>1. pc \in {"direct", "fill"} /\ ~Importable
    BY <1>6 DEF InPlaceFails
  <2>2. job.cur \notin DOMAIN db /\ pc = "direct"
    BY <1>2, <2>1 DEF Importable, Importing, TruthInv, HandlerOK, OverOK, Shelled
  <2>3. UNCHANGED <<disk, db, held, ledger, man, q, job, back>> /\ pc' = "create"
    BY <1>6, <2>1, <2>2 DEF InPlaceFails
  <2> QED BY <1>2, <2>2, <2>3 DEF TreesKept, TreeOf, Exists, Filled, Covered, Unlisted, Absent,
       Waiting, Importing, Pipe
<1>7. CASE Create
  <2>1. /\ UNCHANGED <<disk, ledger, man, q, job>> /\ pc = "create" /\ pc' = "fill"
        /\ Write(job.cur, Shell, job.rel[1])
    BY <1>7 DEF Create
  <2>2. PICK c : c = job.cur
    OBVIOUS
  <2>3. /\ DOMAIN db' = DOMAIN db \cup {c} /\ held' = held
        /\ \A i \in DOMAIN db \ {c} : db'[i] = db[i]
    BY <2>1, <2>2, WriteEffect, VersionTypes
  <2> QED BY <1>3, <2>1, <2>2, <2>3 DEF Importing
<1>8. ~CreateFails
  <2>1. pc = "create" => job.cur \notin DOMAIN db /\ job.cur \notin held
    BY <1>2 DEF Importing, Filled, LadderInv, ApartOK
  <2> QED BY <2>1 DEF CreateFails, Creatable
<1>9. ~Unshell /\ \A i \in Id : ~AsNew(i) /\ ~AsNewTwice(i)
  BY <1>1 DEF Unshell, AsNew, AsNewTwice
<1>10. CASE Finalize
  <2>1. /\ UNCHANGED <<disk, db, held>> /\ ledger' = man' /\ pc = "finalize" /\ pc' = back
        /\ \/ man' = man
           \/ man' = [man EXCEPT ![job.cur] = [man[job.cur] EXCEPT !.stamp = db[job.cur].stamp,
                                                                    !.hash = job.seen]]
    BY <1>10 DEF Finalize, Return
  <2>2. pc' \in {"fs", "export"} /\ ~Recovering
    BY <2>1 DEF Control, ReturnsOK, Recovering, Pipe
  <2>3. DOMAIN man' = DOMAIN man /\ \A i \in DOMAIN man : man'[i].path = man[i].path
    <3>1. [man[job.cur] EXCEPT !.stamp = db[job.cur].stamp, !.hash = job.seen].path
            = man[job.cur].path
      BY <1>1, <2>1, PartialValue DEF Pipe, TypeOK, ManifestOK, Entry
    <3> QED BY <2>1, <3>1
  <2> QED BY <2>1, <2>2, <2>3, NobodyWaits, RebuildFrame DEF Unlisted, Importing
<1>11. CASE ImportFails
  <2>1. /\ UNCHANGED <<disk, db, held, man, ledger>> /\ pc' = back
        /\ pc \in {"copy", "zipOver", "zipIn", "import"}
    BY <1>1, <1>2, <1>11, SteadyPlaces
       DEF ImportFails, Fail, Return, Importable, ImportOnto, Importing
  <2>2. pc' \in {"fs", "export"} /\ ~Recovering
    BY <2>1 DEF Control, ReturnsOK, Recovering, Pipe
  <2> QED BY <2>1, <2>2, NobodyWaits, RebuildFrame DEF Unlisted, Importing
<1> QED BY <1>4, <1>5, <1>6, <1>7, <1>8, <1>9, <1>10, <1>11 DEF ImportStep

\* An export puts down a row's own tree, at a place no other file has.
LEMMA ExportRebuild ==
  ASSUME NameInv, NameInv', BookInv, TruthInv, InBook, Steady, RebuildInv, ~Spend("fault"),
     ExportStep
  PROVE  RebuildInv'
<1> USE DEF NameInv, RebuildInv
<1>1. pc \in Exporting => ~Recovering /\ ~q.dirty /\ back = "export"
  BY DEF LadderInv, ApartOK, Recovering, Exporting, Pipe, Control, ReturnsOK
<1>2. pc \in Exporting => \A i : ~Waiting(i)
  BY <1>1, NobodyWaits
<1>3. \A i, j \in DOMAIN man : man[i].path = man[j].path => i = j
  BY DEF PathInv, UniquePaths, Injective
<1>4. ASSUME NEW i \in q.exp, Relocate(i)
      PROVE  RebuildInv'
  <2> DEFINE old == man[i].path
             new == Wanted(i)
  <2>1. /\ pc = "export" /\ pc' = "relocated" /\ UNCHANGED <<ledger, db, held>>
        /\ i \in DOMAIN man /\ man' = [man EXCEPT ![i].path = new]
        /\ ~Exists(new) /\ \A j \in DOMAIN man \ {i} : man[j].path # new
        /\ IF Exists(old) THEN disk' = Put(Drop(disk, {old}), new, disk[old])
           ELSE disk' = disk
    BY <1>4 DEF Relocate, Misplaced, Taken
  <2> HIDE DEF new
  <2>2. /\ DOMAIN man' = DOMAIN man /\ man'[i].path = new
        /\ \A j \in DOMAIN man \ {i} : man'[j] = man[j] /\ man[j].path \notin {old, new}
    <3>1. man[i] \in Entry
      BY <2>1, PartialValue DEF TypeOK, ManifestOK
    <3> QED BY <1>3, <2>1, <3>1 DEF Entry
  <2>3. \A p \in DOMAIN disk' : \/ p # old /\ p # new /\ p \in DOMAIN disk /\ disk'[p] = disk[p]
                                \/ p = new /\ Exists(old) /\ disk'[p] = disk[old]
    <3>1. CASE Exists(old)
      <4> HIDE DEF old
      <4> DEFINE rest == Drop(disk, {old})
      <4>1. DOMAIN rest = DOMAIN disk \ {old} /\ \A p \in DOMAIN rest : rest[p] = disk[p]
        BY DEF Drop, Restrict
      <4>2. disk' = Put(rest, new, disk[old])
        BY <2>1, <3>1 DEF old
      <4> HIDE DEF rest
      <4>3. /\ DOMAIN disk' = DOMAIN rest \cup {new} /\ disk'[new] = disk[old]
            /\ \A p \in DOMAIN rest \ {new} : disk'[p] = rest[p]
        BY <4>2 DEF Put
      <4> QED BY <3>1, <4>1, <4>3
    <3>2. CASE ~Exists(old)
      BY <2>1, <3>2 DEF Exists
    <3> QED BY <3>1, <3>2
  <2>4. ledger = man
    BY <1>1, <2>1 DEF InBook, Exporting
  <2> HIDE DEF old
  <2>5. TreesKept'
    <3>1. (\A j \in DOMAIN man : TreeOf(j, man[j].path))'
      BY <2>1, <2>2, <2>3 DEF TreesKept, TreeOf, Exists, old
    <3>2. (\A j \in DOMAIN ledger : TreeOf(j, ledger[j].path))'
      BY <2>1, <2>2, <2>3, <2>4 DEF TreesKept, TreeOf, Exists, old
    <3> QED BY <2>1, <3>1, <3>2 DEF TreesKept, Importing
  <2>6. Filled'
    BY <2>1, <2>3 DEF Filled, Importing, Exists
  <2>7. Covered'
    <3>1. \A j \in DOMAIN man : Absent(j) => Absent(j)'
      BY <2>1, <2>2, <2>3 DEF Absent, Exists, old
    <3> QED BY <1>2, <2>1, <2>2, <3>1 DEF Covered, Unlisted, Exporting
  <2> QED BY <2>5, <2>6, <2>7
<1>5. CASE \/ \E i \in q.exp : Allocate(i)
           \/ RelocateSave \/ Download \/ DownloadFails \/ ExportBlocked \/ ExportConflict
  <2>1. /\ UNCHANGED <<disk, db, held, man>> /\ ledger' \in {ledger, man}
        /\ pc \in Exporting \ {"swap"}
        /\ pc' \in {"download", "guard", "export", "zipOver"}
    BY <1>1, <1>5 DEF Allocate, RelocateSave, Download, DownloadFails, ExportBlocked,
       ExportConflict, Fail, Return, Exporting
  <2> QED BY <1>2, <2>1, RebuildFrame DEF Importing, Exporting, Unlisted
<1>6. CASE ExportNoOp
  <2>1. /\ UNCHANGED <<disk, db, held>> /\ ledger' = man' /\ man' = Record(job.stage)
        /\ pc = "guard" /\ pc' = "export" /\ job.cur \in DOMAIN man
    BY <1>1, <1>6 DEF ExportNoOp, Exportation, Return, Guarded, Exporting
  <2>2. man[job.cur].path = job.rel
    BY <2>1 DEF PathInv, PlacedOK
  <2>3. \A i \in DOMAIN man' : i \in DOMAIN man /\ man'[i].path = man[i].path
    BY <2>1, <2>2 DEF Record, Put
  <2> QED BY <1>2, <2>1, <2>3, RebuildFrame DEF Importing, Exporting, Unlisted
<1>7. CASE ExportRecord
  <2>0. PICK c, r, t : c = job.cur /\ r = job.rel /\ t = job.stage
    OBVIOUS
  <2>1. /\ UNCHANGED <<disk, db, held, q, job>> /\ ledger' = man' /\ man' = Record(t)
        /\ pc = "guard" /\ pc' = "swap"
    BY <1>7, <2>0 DEF ExportRecord
  <2>2. c \in DOMAIN db /\ t.ok /\ t.id = c /\ t.ver # Shell
    BY <2>0, <2>1 DEF TruthInv, HandlerOK, LandsOK, Exported, Filled
  <2>3. IF c \in DOMAIN man THEN r = man[c].path ELSE ~Exists(r)
    BY <2>0, <2>1, SteadyPlaces DEF PathInv, PlacedOK, Exists
  <2>4. /\ DOMAIN man' = DOMAIN man \cup {c} /\ man'[c].path = r
        /\ \A i \in DOMAIN man \ {c} : man'[i] = man[i]
    BY <2>0, <2>1 DEF Record, Put
  <2>5. \A i \in DOMAIN man' : TreeOf(i, man'[i].path)
    BY <2>3, <2>4 DEF TreesKept, TreeOf
  <2>6. TreesKept'
    BY <2>0, <2>1, <2>2, <2>5 DEF TreesKept, TreeOf, Exists, Importing
  <2>7. Filled'
    BY <2>0, <2>1, <2>2 DEF Filled, Importing
  <2>8. Covered'
    BY <1>2, <2>1, <2>2, <2>4 DEF Covered, Unlisted, Absent, Exists, Exporting
  <2> QED BY <2>6, <2>7, <2>8
<1>8. CASE Swap
  <2>0. PICK c, r, t : c = job.cur /\ r = job.rel /\ t = job.stage
    OBVIOUS
  <2>1. /\ UNCHANGED <<ledger, man, db, held>> /\ pc = "swap" /\ pc' = "export"
        /\ disk' = Put(disk, r, t) /\ t.ok /\ t.id = c /\ t.ver # Shell /\ c \in DOMAIN db
    BY <1>1, <1>8, <2>0 DEF Swap, Exportation, Return, TreesKept, Filled, Exporting
  <2>2. c \in DOMAIN man /\ man[c].path = r /\ ledger = man
    BY <2>0, <2>1 DEF LadderInv, SwapOK
  <2>3. /\ DOMAIN disk' = DOMAIN disk \cup {r} /\ disk'[r] = t
        /\ \A p \in DOMAIN disk \ {r} : disk'[p] = disk[p]
    BY <2>1 DEF Put
  <2>4. \A i \in DOMAIN man \ {c} : man[i].path # r
    BY <1>3, <2>2
  <2>5. TreesKept'
    BY <2>1, <2>2, <2>3, <2>4 DEF TreesKept, TreeOf, Exists, Importing
  <2>6. Filled'
    BY <2>1, <2>3 DEF Filled, Importing
  <2>7. Covered'
    BY <1>2, <2>1, <2>3, <2>4 DEF Covered, Unlisted, Absent, Exists, Exporting
  <2> QED BY <2>5, <2>6, <2>7
<1> QED BY <1>4, <1>5, <1>6, <1>7, <1>8 DEF ExportStep

\* What the rebuild rests on, all together.
RebuiltInv ==
  SyncInv /\ (Quiet({"fault"}) => InBook) /\ (Calm => RebuildInv)

\* It holds of a vault in step, with the application closed ...
LEMMA InitRebuilt == Init => RebuiltInv
<1> SUFFICES ASSUME Init
             PROVE  RebuiltInv
  OBVIOUS
<1>1. /\ DOMAIN man = {} /\ pc = "down" /\ held = {}
  BY DEF Init, Nothing
<1>2. /\ DOMAIN db = DOMAIN Vault /\ DOMAIN ledger = DOMAIN Vault
      /\ DOMAIN disk = {<<Vault[i].name, Bare>> : i \in DOMAIN Vault}
      /\ \A i \in DOMAIN Vault : /\ db[i].ver = Vault[i].ver
                                /\ ledger[i].path = <<Vault[i].name, Bare>>
  BY DEF Init
<1>3. \A i \in DOMAIN Vault : Vault[i].ver # Shell
  BY VaultAssumption DEF Shell
<1>4. \A i \in DOMAIN Vault : disk[<<Vault[i].name, Bare>>] = Exported(i, Vault[i])
  <2> DEFINE Of(p) == CHOOSE i \in DOMAIN Vault : Vault[i].name = p[1]
  <2>1. \A p \in DOMAIN disk : disk[p] = Exported(Of(p), Vault[Of(p)])
    BY DEF Init
  <2>2. \A i \in DOMAIN Vault : Of(<<Vault[i].name, Bare>>) = i
    BY VaultAssumption
  <2> HIDE DEF Of
  <2>3. \A i \in DOMAIN Vault : <<Vault[i].name, Bare>> \in DOMAIN disk
    BY <1>2
  <2> QED BY <2>1, <2>2, <2>3
<1>5. \A i \in DOMAIN Vault : /\ disk[<<Vault[i].name, Bare>>].ok
                            /\ disk[<<Vault[i].name, Bare>>].id = i
                            /\ disk[<<Vault[i].name, Bare>>].ver # Shell
  <2>1. \A i \in DOMAIN Vault : /\ Exported(i, Vault[i]).ok /\ Exported(i, Vault[i]).id = i
                              /\ Exported(i, Vault[i]).ver # Shell
    BY <1>3 DEF Exported
  <2> QED BY <1>4, <2>1
<1>6. TreesKept
  BY <1>1, <1>2, <1>5 DEF TreesKept, TreeOf, Importing
<1>7. Filled
  BY <1>1, <1>2, <1>3, <1>5 DEF Filled, Importing
<1>8. Covered
  BY <1>1 DEF Covered, Unlisted
<1> QED BY <1>1, <1>6, <1>7, <1>8, InitSync DEF RebuiltInv, RebuildInv, InBook

\* ... and every step keeps it.
LEMMA RebuiltStep ==
  ASSUME Steady, RebuiltInv, [Next]_vars
  PROVE  RebuiltInv'
<1>1. SyncInv /\ NameInv /\ BookInv /\ TruthInv /\ TypeOK
  BY DEF RebuiltInv, SyncInv, NameInv
<1>2. SyncInv' /\ NameInv'
  BY <1>1, SyncStep DEF SyncInv
<1>3. {"fault"} \in SUBSET Kind /\ {"dbDelete", "fault", "diskBreak"} \in SUBSET Kind
  BY DEF Kind
<1>4. Quiet({"fault"})' => Quiet({"fault"}) /\ ~Spend("fault")
  BY <1>1, <1>3, QuietBefore, Counted
<1>5. Quiet({"fault"})' => InBook'
  BY <1>1, <1>4, BookStep DEF RebuiltInv
<1>6. Calm' => Calm /\ Quiet({"fault"})'
  BY <1>1, <1>3, QuietBefore DEF Calm, Quiet
<1>7. ASSUME Calm'
      PROVE  RebuildInv'
  <2>1. RebuildInv /\ InBook /\ ~Spend("fault")
    BY <1>4, <1>6, <1>7 DEF RebuiltInv
  <2>2. CASE UNCHANGED vars
    BY <2>1, <2>2 DEF vars, RebuildInv, TreesKept, TreeOf, Exists, Filled, Covered, Absent, Waiting
  <2>3. CASE Next
    BY <1>1, <1>2, <1>7, <2>1, <2>3, EnvironmentRebuild, ReconcileRebuild, LoopRebuild, FsRebuild,
       ImportRebuild, ExportRebuild DEF Next, Engine
  <2> QED BY <2>2, <2>3
<1> QED BY <1>2, <1>5, <1>7 DEF RebuiltInv

\* "Delete the entire database, restart the app, and every file is rebuilt": by
\* any wipes, kills, edits on either side, renames, new files, deleted
\* directories and pauses, the loop never begins with a tracked directory that
\* the database lacks or has an empty shell for.  A broken tree is left out: one
\* that is mended after reconcile passed it over waits for the next tick.
THEOREM RebuiltAlways ==
  ASSUME Steady  PROVE Spec => [](Quiet({"diskBreak"}) => Rebuilt)
<1>1. Init => RebuiltInv
  BY InitRebuilt
<1>2. RebuiltInv /\ [Next]_vars => RebuiltInv'
  BY RebuiltStep
<1>3. RebuiltInv => (Quiet({"diskBreak"}) => Rebuilt)
  <2> SUFFICES ASSUME RebuiltInv, Quiet({"diskBreak"}),
                      Quiet({"diskCopy", "dbDelete", "fault"}), pc = "idle",
                      NEW i \in DOMAIN man, Exists(man[i].path)
               PROVE  i \in DOMAIN db /\ db[i].ver # Shell
    BY DEF Rebuilt, AllRebuilt
  <2>1. RebuildInv /\ LadderInv
    BY DEF Calm, Quiet, RebuiltInv, SyncInv, NameInv
  <2>2. ~Waiting(i)
    BY <2>1, NobodyWaits DEF Recovering, Pipe
  <2> QED BY <2>1, <2>2 DEF RebuildInv, Covered, Unlisted, Absent, Filled
<1> QED BY <1>1, <1>2, <1>3, PTL DEF Spec
=============================================================================
