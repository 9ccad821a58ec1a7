------------------------------ MODULE SyncEngine ------------------------------
(***************************************************************************)
(* The sync daemon of Penpot Local (crates/sync-daemon/src/engine.rs) with *)
(* the two stores it keeps in step: the vault folder on disk, which is the *)
(* source of truth, and the Penpot database, which is a rebuildable cache. *)
(*                                                                         *)
(* The engine is ONE asynchronous task.  Each of its handlers is cut here  *)
(* at its awaits and at the points where a crash leaves a different folder *)
(* behind: pc says where it is suspended.  Around it act, at any of those  *)
(* points, the person editing the folder, the person (or Penpot) editing   *)
(* the database, the network, and whoever kills the process.               *)
(*                                                                         *)
(* Abstractions.  A design tree is its embedded file id, its name and a    *)
(* version number, fresh for every edit; its semantic hash is the tree     *)
(* itself.  The pair (revn, modifiedAt) of a database row is one stamp,    *)
(* which no other write of any row has: modifiedAt is a time.  One project *)
(* folder: a path is a name, bare or suffixed with a file id.              *)
(* Debounce deadlines are chosen freely.  Local file I/O succeeds.         *)
(***************************************************************************)
EXTENDS Naturals, FiniteSets, Functions

CONSTANTS
  Id,            \* Penpot file ids
  Name,          \* file names
  Bare,          \* what a directory name without an id is suffixed with
  Vault,         \* the files the vault starts with: id -> [name, ver]
  Budgets,       \* what the environment may do in one behaviour: each says how
                 \* often an event of each kind may happen
  Windows        \* the values of pc at which events of each kind may happen

Kind == {"dbEdit", "dbTouch", "dbRename", "dbCreate", "dbDelete", "wipe",
         "diskEdit", "diskBreak", "diskDelete", "diskMove", "diskCopy",
         "crash", "fault", "pause"}
DbKind == {"dbEdit", "dbTouch", "dbRename", "dbCreate", "dbDelete"}
DiskKind == {"diskEdit", "diskBreak", "diskDelete", "diskMove", "diskCopy"}

Shell == 0       \* the version of the empty file that create-file makes
NoStamp == <<0, 0>>  \* the stamp of an entry whose database facts are unknown

Suffix == {Bare} \cup (Id \X {"short", "full"})
Path == Name \X Suffix
Stamp == {NoStamp} \cup (Id \X (Nat \ {0}))
Tree == [id : Id, ver : Nat, name : Name, ok : BOOLEAN]
Row == [ver : Nat, name : Name, stamp : Stamp]
Entry == [path : Path, hash : Tree, stamp : Stamp]
Work(snap) == [snap : {snap}, exp : SUBSET Id, noop : SUBSET Id, done : SUBSET Id,
               imp : SUBSET [rel : Path, seen : Tree], dirty : BOOLEAN,
               fs : SUBSET Path, rekey : SUBSET (Id \X Path)]
Job == [cur : Id, rel : Path, seen : Tree, stage : Tree]

PC == {"down", "boot", "snap", "decide", "recImp", "reseed",
       "idle", "swept", "fs", "fsRoute", "rekey",
       "export", "relocated", "download", "guard", "swap",
       "fetch", "copy", "zipOver", "zipIn", "zipNew",
       "import", "direct", "create", "fill", "unshell", "asNew", "asNew2",
       "finalize"}

ASSUME VaultAssumption ==
  /\ Bare \notin Id \X {"short", "full"}
  /\ IsFiniteSet(DOMAIN Vault) /\ DOMAIN Vault \subseteq Id
  /\ \A i \in DOMAIN Vault : Vault[i] \in [name : Name, ver : 1..Cardinality(DOMAIN Vault)]
  /\ \A i, j \in DOMAIN Vault :
       i # j => Vault[i].name # Vault[j].name /\ Vault[i].ver # Vault[j].ver
  /\ Id # {} /\ Name # {}

ASSUME EnvironmentAssumption ==
  Budgets \subseteq [Kind -> Nat] /\ Windows \in [Kind -> SUBSET PC]

-----------------------------------------------------------------------------
VARIABLES
  disk,      \* the vault folder: path -> tree, for the directories there are
  copies,    \* the trees preserved as conflict copies
  ledger,    \* .penpot-sync.json: id -> entry
  db,        \* the live files of the database: id -> row
  held,      \* ids that soft-deleted rows still hold
  clock,     \* how often each file's row was written: the source of stamps
  man,       \* the engine's copy of the manifest
  synced,    \* ChangeTracker.last_synced: id -> stamp
  pend,      \* ChangeTracker.pending: id -> stamp
  fsPend,    \* FsDebounce.pending
  sweep,     \* is the structural sweep armed
  paused,    \* the pause flag of SyncControl
  handled,   \* has the engine's loop handled the last pause or resume call
  pc, polling, back, job,   \* where the engine is suspended, and its locals
  q,         \* its work lists: the last listing's rows, the exports, imports
             \* and no-ops still to do, the ids imported, whether the
             \* manifest needs a save, the due directories, the re-keys
  nver,      \* the last version number given out
  spent,     \* how often each kind of event has happened
  superseded \* history: the versions the person edited over or discarded

folder == <<disk, copies>>
backend == <<db, held, clock>>
tracker == <<synced, pend>>
watch == <<fsPend, sweep>>
pausing == <<paused, handled>>
lineage == <<nver, superseded>>
env == <<lineage, spent>>
vars == <<folder, ledger, backend, man, tracker, watch, pausing, pc, polling,
          back, job, q, env>>

-----------------------------------------------------------------------------
(* Partial functions, and the vocabulary of the code. *)

Nothing == [x \in {} |-> x]
Put(f, k, v) == [x \in DOMAIN f \cup {k} |-> IF x = k THEN v ELSE f[x]]
Drop(f, S) == Restrict(f, DOMAIN f \ S)

\* What export-binfile gives for a row: the tree carries the row's own id.
Exported(i, row) == [id |-> i, ver |-> row.ver, name |-> row.name, ok |-> TRUE]

Claimed(p) == \E i \in DOMAIN man : man[i].path = p
Owner(p) == CHOOSE i \in DOMAIN man : man[i].path = p
Exists(p) == p \in DOMAIN disk
Clean(i) == Exists(man[i].path) /\ disk[man[i].path] = man[i].hash

\* The ladder of names for a file: bare, with its short id, with its full id.
\* The last rung is never looked at: "unique by construction".
Rung(i, n, k) == <<n, IF k = 1 THEN Bare ELSE <<i, IF k = 2 THEN "short" ELSE "full">>>>
Candidates(i, n) == {Rung(i, n, k) : k \in 1..3}
\* Mutant: the manifest's claims are forgotten.
TakenOnDisk(i, p) == Exists(p)
Taken(i, p) == Exists(p) \/ \E j \in DOMAIN man \ {i} : man[j].path = p
\* Mutant: the short id is left out.
LadderTwoRungs(i, n) ==
  IF Taken(i, Rung(i, n, 1)) THEN Rung(i, n, 3) ELSE Rung(i, n, 1)

Ladder(i, n) ==
  CASE ~Taken(i, Rung(i, n, 1)) -> Rung(i, n, 1)
    [] Taken(i, Rung(i, n, 1)) /\ ~Taken(i, Rung(i, n, 2)) -> Rung(i, n, 2)
    [] OTHER -> Rung(i, n, 3)

\* plan_rekeys: entries whose directory vanished, paired with unclaimed
\* directories of the same content, where neither side is ambiguous.
Missing == {i \in DOMAIN man : ~Exists(man[i].path)}
Unclaimed == {p \in DOMAIN disk : ~Claimed(p) /\ disk[p].ok}
Rekeys ==
  {r \in Missing \X Unclaimed :
     /\ disk[r[2]] = man[r[1]].hash
     /\ \A j \in Missing : man[j].hash = man[r[1]].hash => j = r[1]
     /\ \A p \in Unclaimed : disk[p] = disk[r[2]] => p = r[2]}

Versions(f) == {f[x].ver : x \in DOMAIN f}

Stored(d, b) == Versions(d) \cup Versions(b) \cup {t.ver : t \in copies}

\* One write to row i of the database, with a stamp never used before.
Write(i, ver, name) ==
  /\ clock' = [clock EXCEPT ![i] = @ + 1]
  /\ db' = Put(db, i, [ver |-> ver, name |-> name, stamp |-> <<i, clock[i] + 1>>])
  /\ UNCHANGED held

Fresh == {i \in Id : clock[i] = 0}

\* note_fs_event: an event for each path of S waits for the loop, unless the
\* loop drops it because sync is paused.
Deaf == pc = "down" \/ (pc = "idle" /\ paused)
Arm(S) ==
  /\ fsPend' = IF Deaf THEN fsPend ELSE fsPend \cup S
  /\ UNCHANGED sweep

NoWork == [snap |-> Nothing, exp |-> {}, imp |-> {}, noop |-> {}, done |-> {},
           dirty |-> FALSE, fs |-> {}, rekey |-> {}]

NoJob ==
  LET i == CHOOSE i \in Id : TRUE
      n == CHOOSE n \in Name : TRUE
      t == Exported(i, [ver |-> Shell, name |-> n])
  IN  [cur |-> i, rel |-> <<n, Bare>>, seen |-> t, stage |-> t]

\* Where the engine rests, with nothing half done.
Rest(l) == pc' = l /\ back' = "export" /\ polling' = FALSE

\* An event of kind k happens: now, and within some budget.  A row that
\* reconcile imported stays exposed until Reseed reads it back.
Spend(k) ==
  /\ pc \in Windows[k]
  /\ k \in DbKind /\ q.done # {} => "reseed" \in Windows[k]
  /\ spent' = [spent EXCEPT ![k] = @ + 1]
  /\ \E budget \in Budgets : \A j \in Kind : spent'[j] <= budget[j]

-----------------------------------------------------------------------------
(* The vault starts in step, with the application closed. *)

Init ==
  /\ disk = [p \in {<<Vault[i].name, Bare>> : i \in DOMAIN Vault} |->
               LET i == CHOOSE i \in DOMAIN Vault : Vault[i].name = p[1]
               IN  Exported(i, Vault[i])]
  /\ db = [i \in DOMAIN Vault |->
             [ver |-> Vault[i].ver, name |-> Vault[i].name, stamp |-> <<i, 1>>]]
  /\ ledger = [i \in DOMAIN Vault |-> [path |-> <<Vault[i].name, Bare>>,
                                       hash |-> Exported(i, Vault[i]),
                                       stamp |-> <<i, 1>>]]
  /\ clock = [i \in Id |-> IF i \in DOMAIN Vault THEN 1 ELSE 0]
  /\ copies = {} /\ held = {}
  /\ man = Nothing /\ synced = Nothing /\ pend = Nothing
  /\ fsPend = {} /\ sweep = FALSE /\ paused = FALSE /\ handled = TRUE
  /\ pc = "down" /\ polling = FALSE /\ back = "export" /\ job = NoJob
  /\ q = NoWork
  /\ nver = Cardinality(DOMAIN Vault) /\ spent = [k \in Kind |-> 0]
  /\ superseded = {}

-----------------------------------------------------------------------------
(* The environment: people, the network and the process's end. *)

engine == <<ledger, man, tracker, pc, polling, back, job, q>>

\* The person edits a place that holds version v, or makes a new one.
NewVersion(old) == nver' = nver + 1 /\ superseded' = superseded \cup old
\* The person removes things: what is nowhere else is theirs to lose.
Discard ==
  /\ superseded' = superseded \cup (Stored(disk, db) \ Stored(disk', db'))
  /\ UNCHANGED nver
DbEdit(i) ==
  /\ i \in DOMAIN db /\ Spend("dbEdit") /\ NewVersion({db[i].ver})
  /\ Write(i, nver + 1, db[i].name)
  /\ UNCHANGED <<folder, engine, watch, pausing>>

\* A save that bumps modifiedAt and leaves the content as it was.
DbTouch(i) ==
  /\ i \in DOMAIN db /\ Spend("dbTouch")
  /\ Write(i, db[i].ver, db[i].name)
  /\ UNCHANGED <<folder, engine, watch, pausing, lineage>>

DbRename(i, n) ==
  /\ i \in DOMAIN db /\ n # db[i].name /\ Spend("dbRename")
  /\ Write(i, db[i].ver, n)
  /\ UNCHANGED <<folder, engine, watch, pausing, lineage>>

DbCreate(i, n) ==
  /\ i \in Fresh /\ Spend("dbCreate") /\ NewVersion({})
  /\ Write(i, nver + 1, n)
  /\ UNCHANGED <<folder, engine, watch, pausing>>

\* Penpot's own delete is soft: the row keeps its id for about a week.
DbDelete(i) ==
  /\ i \in DOMAIN db /\ Spend("dbDelete")
  /\ db' = Drop(db, {i}) /\ held' = held \cup {i}
  /\ UNCHANGED <<folder, engine, watch, pausing, clock>>
  /\ Discard

\* "Delete the entire database, restart the app."
DbWipe ==
  /\ pc = "down" /\ Spend("wipe")
  /\ db' = Nothing /\ held' = {}
  /\ UNCHANGED <<folder, engine, watch, pausing, clock>>
  /\ Discard

DiskEdit(p, ok) ==
  /\ Exists(p) /\ NewVersion({disk[p].ver})
  /\ Spend(IF ok THEN "diskEdit" ELSE "diskBreak")
  /\ disk' = [disk EXCEPT ![p].ver = nver + 1, ![p].ok = ok] /\ Arm({p})
  /\ UNCHANGED <<copies, backend, engine, pausing>>

DiskDelete(p) ==
  /\ Exists(p) /\ Spend("diskDelete")
  /\ disk' = Drop(disk, {p}) /\ Arm({p})
  /\ UNCHANGED <<copies, backend, engine, pausing>>
  /\ Discard

\* mv of one directory: the watcher reports both paths.
DiskMove(p, n) ==
  /\ Exists(p) /\ ~Exists(<<n, Bare>>) /\ Spend("diskMove")
  /\ disk' = Put(Drop(disk, {p}), <<n, Bare>>, disk[p]) /\ Arm({p, <<n, Bare>>})
  /\ UNCHANGED <<copies, backend, engine, pausing, lineage>>

\* mv by way of the folder above: the watcher reports only that folder.
DiskMoveUnseen(p, n) ==
  /\ Exists(p) /\ ~Exists(<<n, Bare>>) /\ Spend("diskMove")
  /\ disk' = Put(Drop(disk, {p}), <<n, Bare>>, disk[p])
  /\ sweep' = (sweep \/ ~Deaf)
  /\ UNCHANGED <<copies, backend, engine, fsPend, pausing, lineage>>

DiskCopy(p, n) ==
  /\ Exists(p) /\ ~Exists(<<n, Bare>>) /\ Spend("diskCopy")
  /\ disk' = Put(disk, <<n, Bare>>, disk[p]) /\ Arm({<<n, Bare>>})
  /\ UNCHANGED <<copies, backend, engine, pausing, lineage>>

Crash ==
  /\ pc # "down" /\ Spend("crash")
  /\ Rest("down") /\ job' = NoJob
  /\ man' = Nothing /\ synced' = Nothing /\ pend' = Nothing
  /\ fsPend' = {} /\ sweep' = FALSE /\ paused' = FALSE /\ handled' = TRUE
  /\ q' = NoWork
  /\ UNCHANGED <<folder, ledger, backend, lineage>>

\* SyncControl::pause and resume: every call, even one that changes nothing,
\* wakes the loop; the wait before reconcile may take it first.
Send(on) == paused' = on /\ handled' \in IF pc = "boot" THEN BOOLEAN ELSE {FALSE}

SetPaused(on) ==
  /\ pc # "down" /\ Spend("pause") /\ Send(on)
  /\ UNCHANGED <<folder, backend, engine, watch, lineage>>

-----------------------------------------------------------------------------
(* How the handlers end.  back is the loop a pipeline was called from:     *)
(* "export" (poll and reconcile), "fs", or reconcile's imports "recImp".   *)

Goto(l) == pc' = l /\ UNCHANGED <<polling, back>>
Return == Goto(back) /\ job' = NoJob

\* The pipeline returned Err: a poll re-queues its file, the others skip it.
Fail ==
  /\ Return
  /\ pend' = IF back = "export" /\ polling
             THEN Put(pend, job.cur, q.snap[job.cur].stamp) ELSE pend
  /\ UNCHANGED synced

\* ChangeTracker::mark_synced.
MarkSynced(i, stamp) ==
  synced' = Put(synced, i, stamp) /\ pend' = Drop(pend, {i})

\* Mutant: the tracker is not told of the export.
ExportationUntold == Return /\ UNCHANGED tracker

\* An export that ended in anything but a conflict becomes the baseline.
Exportation == Return /\ MarkSynced(job.cur, q.snap[job.cur].stamp)

SetJob(i, p, seen) ==
  job' = [job EXCEPT !.cur = i, !.rel = p, !.seen = seen]

-----------------------------------------------------------------------------
(* Engine::new, the pre-loop and reconcile: pc "boot" to "reseed". *)

Start ==
  /\ pc = "down" /\ Goto("boot") /\ man' = ledger
  /\ UNCHANGED <<folder, ledger, backend, tracker, watch, pausing, job, q, env>>

\* Mutant: the vault is walked without the re-key pass.
BootUnkeyed ==
  /\ pc = "boot" /\ ~paused /\ pc' = "snap" /\ back' = "snap" /\ UNCHANGED polling
  /\ UNCHANGED <<folder, ledger, backend, man, tracker, watch, pausing, job, q, env>>

\* Steps 1 and 2 of reconcile: sweep leftovers, plan the re-keys.
Boot ==
  /\ pc = "boot" /\ ~paused
  /\ q' = [q EXCEPT !.rekey = Rekeys] /\ back' = "snap" /\ UNCHANGED polling
  /\ pc' = IF Rekeys = {} THEN "snap" ELSE "rekey"
  /\ UNCHANGED <<folder, ledger, backend, man, tracker, watch, pausing, job, env>>

\* Step 3: list the database.
Snapshot ==
  /\ pc = "snap" /\ q' = [q EXCEPT !.snap = db] /\ Goto("decide")
  /\ UNCHANGED <<folder, ledger, backend, man, tracker, watch, pausing, job, env>>

\* Listing failed through every retry: reconcile starts again in 5 s.
SnapshotFails ==
  /\ pc \in {"snap", "reseed"} /\ Spend("fault") /\ Goto("boot")
  /\ q' = [q EXCEPT !.snap = Nothing, !.done = {}]
  /\ UNCHANGED <<folder, ledger, backend, man, tracker, watch, pausing, job, lineage>>

\* Steps 4 and 5: walk, hash, and decide per file; forget what is nowhere.
\* moved stands for db_moved on the entries whose stamp is not known.
Decide(moved) ==
  LET live == {i \in DOMAIN man : Exists(man[i].path) => disk[man[i].path].ok}
      Moved(i) == IF man[i].stamp = NoStamp THEN i \in moved
                  ELSE q.snap[i].stamp # man[i].stamp
      listed == live \cap DOMAIN q.snap
      noop == {i \in listed : Clean(i) /\ ~Moved(i)}
      export == {i \in listed : ~Exists(man[i].path) \/ Moved(i)}
      import == {i \in live \ (noop \cup export) : Exists(man[i].path)}
      forget == live \ (noop \cup export \cup import)
      Item(p) == [rel |-> p, seen |-> disk[p]]
  IN  /\ pc = "decide"
      /\ man' = Drop(man, forget)
      /\ q' = [q EXCEPT
           !.imp = {Item(man[i].path) : i \in import} \cup {Item(p) : p \in Unclaimed},
           !.exp = export \cup (DOMAIN q.snap \ DOMAIN man),
           !.noop = noop, !.done = {}, !.dirty = (forget # {})]
      /\ Goto("recImp")
      /\ UNCHANGED <<folder, ledger, backend, tracker, watch, pausing, job, env>>

\* Step 6, imports: validate the tree, zip it and hand it to its pipeline.
RecImport(it) ==
  LET p == it.rel
      valid == Exists(p) /\ disk[p].ok /\ (Claimed(p) => disk[p].id = Owner(p))
  IN  /\ pc = "recImp" /\ it \in q.imp /\ q' = [q EXCEPT !.imp = @ \ {it}]
      /\ IF ~valid
         THEN UNCHANGED <<pc, back, job>>
         ELSE /\ back' = "recImp"
              /\ pc' = IF Claimed(p) THEN "direct" ELSE "asNew"
              /\ job' = [cur |-> IF Claimed(p) THEN Owner(p) ELSE NoJob.cur,
                         rel |-> p, seen |-> it.seen, stage |-> disk[p]]
      /\ UNCHANGED <<folder, ledger, backend, man, tracker, watch, pausing, polling, env>>

\* ... then one save, and on to the exports.
RecSave ==
  /\ pc = "recImp" /\ q.imp = {}
  /\ ledger' = IF q.dirty THEN man ELSE ledger
  /\ q' = [q EXCEPT !.dirty = FALSE] /\ pc' = "export" /\ back' = "export" /\ UNCHANGED polling
  /\ UNCHANGED <<folder, backend, man, tracker, watch, pausing, job, env>>

\* ... then the no-ops become the tracker's baseline.
RecNoops ==
  /\ pc = "export" /\ ~polling /\ q.exp = {}
  /\ synced' = [i \in DOMAIN synced \cup q.noop |->
                  IF i \in q.noop THEN q.snap[i].stamp ELSE synced[i]]
  /\ pend' = Drop(pend, q.noop)
  /\ q' = [q EXCEPT !.noop = {}, !.snap = Nothing]
  /\ IF q.done = {} THEN Rest("idle") ELSE Goto("reseed")
  /\ UNCHANGED <<folder, ledger, backend, man, watch, pausing, job, env>>

\* Step 7: read back what the imports became, in a second listing.
Reseed ==
  LET found == q.done \cap DOMAIN db
      read == found \cap DOMAIN man
  IN  /\ pc = "reseed" /\ Rest("idle") /\ q' = [q EXCEPT !.done = {}]
      /\ synced' = [i \in DOMAIN synced \cup found |->
                      IF i \in found THEN db[i].stamp ELSE synced[i]]
      /\ pend' = Drop(pend, found)
      /\ man' = [i \in DOMAIN man |-> IF i \in read
                   THEN [man[i] EXCEPT !.stamp = db[i].stamp] ELSE man[i]]
      /\ ledger' = IF man' = man THEN ledger ELSE man'
      /\ UNCHANGED <<folder, backend, watch, pausing, job, env>>

-----------------------------------------------------------------------------
(* The main loop: pause, poll, filesystem tick. *)

\* reload_manifest: what a delete or a restore rewrote while sync was paused.
ReloadManifest == man' = ledger

\* rescan_disk: every directory is looked at again, at once.
RescanDisk == fsPend' = fsPend \cup DOMAIN disk

\* Mutant: a resume does not look for what was edited meanwhile.
HandlePauseUnscanned ==
  /\ pc = "idle" /\ ~handled /\ handled' = TRUE
  /\ IF paused THEN fsPend' = {} /\ sweep' = FALSE /\ UNCHANGED man
     ELSE ReloadManifest /\ UNCHANGED watch
  /\ UNCHANGED <<folder, ledger, backend, tracker, paused, pc, polling, back,
                 job, q, env>>

HandlePause ==
  /\ pc = "idle" /\ ~handled /\ handled' = TRUE
  /\ IF paused
     THEN fsPend' = {} /\ sweep' = FALSE /\ UNCHANGED man
     ELSE ReloadManifest /\ RescanDisk /\ UNCHANGED sweep
  /\ UNCHANGED <<folder, ledger, backend, tracker, paused, pc, polling, back,
                 job, q, env>>

\* poll_cycle: observe a listing, then take the files whose debounce is over.
\* A change seen for the first time in this very listing is never over yet.
Observed == {i \in DOMAIN db : ~(i \in DOMAIN synced /\ synced[i] = db[i].stamp)}
Ripe == {i \in Observed : i \in DOMAIN pend /\ pend[i] = db[i].stamp}

PollCycle(due) ==
  /\ pc = "idle" /\ ~paused /\ due \subseteq Ripe
  /\ synced' = Restrict(synced, DOMAIN synced \cap DOMAIN db)
  /\ pend' = [i \in Observed \ due |-> db[i].stamp]
  /\ q' = [q EXCEPT !.snap = Restrict(db, due), !.exp = due]
  /\ IF due = {} THEN Rest("idle")
     ELSE pc' = "export" /\ back' = "export" /\ polling' = TRUE
  /\ UNCHANGED <<folder, ledger, backend, man, watch, pausing, job, env>>

PollDone ==
  /\ pc = "export" /\ polling /\ q.exp = {} /\ Rest("idle")
  /\ q' = [q EXCEPT !.snap = Nothing]
  /\ UNCHANGED <<folder, ledger, backend, man, tracker, watch, pausing, job, env>>

\* structural_sweep: a re-key pass ...
Sweep ==
  /\ pc = "idle" /\ ~paused /\ sweep /\ sweep' = FALSE
  /\ q' = [q EXCEPT !.rekey = Rekeys] /\ back' = "swept" /\ UNCHANGED polling
  /\ pc' = IF Rekeys = {} THEN "swept" ELSE "rekey"
  /\ UNCHANGED <<folder, ledger, backend, man, tracker, fsPend, pausing, job, env>>

\* ... after which every directory nobody claims is due at once.
Stray == IF pc = "swept" THEN {p \in DOMAIN disk : ~Claimed(p)} ELSE {}
Armed == fsPend \cup Stray

TakeDue(due) ==
  /\ pc = "swept" \/ (pc = "idle" /\ ~paused /\ due # {})
  /\ Stray \subseteq due /\ due \subseteq Armed
  /\ q' = [q EXCEPT !.fs = due] /\ fsPend' = Armed \ due
  /\ pc' = "fs" /\ back' = "fs" /\ UNCHANGED polling
  /\ UNCHANGED <<folder, ledger, backend, man, tracker, sweep, pausing, job, env>>

FsDone ==
  /\ pc = "fs" /\ q.fs = {} /\ Rest("idle")
  /\ UNCHANGED <<folder, ledger, backend, man, tracker, watch, pausing, job,
                 q, env>>

-----------------------------------------------------------------------------
(* rekey_pass: a directory the person moved keeps its file's identity. *)

Rekey(op) ==
  /\ pc = "rekey" /\ op \in q.rekey /\ q' = [q EXCEPT !.rekey = @ \ {op}]
  /\ man' = [man EXCEPT ![op[1]].path = op[2]]
  /\ UNCHANGED <<folder, ledger, tracker, watch, pausing, pc, polling, back, job, lineage>>

\* rename-file gives the row the directory's new name ...
RekeyMirrored(op) ==
  /\ Rekey(op) /\ op[1] \in DOMAIN db
  /\ Write(op[1], db[op[1]].ver, op[2][1])
  /\ UNCHANGED spent

\* ... and the path is re-keyed even where that fails.
RekeyUnmirrored(op) ==
  /\ Rekey(op)
  /\ IF op[1] \in DOMAIN db THEN Spend("fault") ELSE UNCHANGED spent
  /\ UNCHANGED backend

RekeySave ==
  /\ pc = "rekey" /\ q.rekey = {} /\ ledger' = man /\ Goto(back)
  /\ UNCHANGED <<folder, backend, man, tracker, watch, pausing, job, q, env>>

-----------------------------------------------------------------------------
(* handle_fs_change, for one due directory. *)

FsGone(p) ==
  /\ pc = "fs" /\ p \in q.fs /\ ~Exists(p)
  /\ LET ops == IF Claimed(p) THEN Rekeys ELSE {}
     IN  /\ q' = [q EXCEPT !.fs = @ \ {p}, !.rekey = ops]
         /\ Goto(IF ops = {} THEN "fs" ELSE "rekey")
  /\ UNCHANGED <<folder, ledger, backend, man, tracker, watch, pausing, job, env>>

FsBroken(p) ==
  /\ pc = "fs" /\ p \in q.fs /\ Exists(p) /\ ~disk[p].ok
  /\ q' = [q EXCEPT !.fs = @ \ {p}]
  /\ UNCHANGED <<folder, ledger, backend, man, tracker, watch, pausing,
                 pc, polling, back, job, env>>

\* Hash it; a directory nobody claims may be the new place of a moved file.
FsHash(p) ==
  /\ pc = "fs" /\ p \in q.fs /\ Exists(p) /\ disk[p].ok
  /\ SetJob(NoJob.cur, p, disk[p])
  /\ LET ops == IF Claimed(p) THEN {} ELSE Rekeys
     IN  /\ q' = [q EXCEPT !.fs = @ \ {p}, !.rekey = ops]
         /\ pc' = IF ops = {} THEN "fsRoute" ELSE "rekey"
  /\ back' = "fsRoute" /\ UNCHANGED polling
  /\ UNCHANGED <<folder, ledger, backend, man, tracker, watch, pausing, env>>

\* The directory's hash is in the ledger: our own write, or no change.
Recognised == Claimed(job.rel) /\ man[Owner(job.rel)].hash = job.seen

Valid == /\ Exists(job.rel) /\ disk[job.rel].ok
         /\ Claimed(job.rel) => disk[job.rel].id = Owner(job.rel)

FsRoute ==
  /\ pc = "fsRoute" /\ back' = "fs" /\ UNCHANGED polling
  /\ IF Recognised \/ ~Valid
     THEN pc' = "fs" /\ job' = NoJob
     ELSE IF Claimed(job.rel)
     THEN pc' = "fetch" /\ job' = [job EXCEPT !.cur = Owner(job.rel)]
     ELSE pc' = "zipNew" /\ UNCHANGED job
  /\ UNCHANGED <<folder, ledger, backend, man, tracker, watch, pausing, q, env>>

\* import_changed_tree: fresh database facts choose between resurrecting,
\* importing and the conflict rule.
Fetch(moved) ==
  LET i == job.cur
      Moved == IF man[i].stamp = NoStamp THEN moved ELSE db[i].stamp # man[i].stamp
  IN  /\ pc = "fetch"
      /\ Goto(IF i \notin DOMAIN db THEN "zipIn"
              ELSE IF Moved THEN "copy" ELSE "zipOver")
      /\ UNCHANGED <<folder, ledger, backend, man, tracker, watch, pausing, job,
                     q, env>>

\* write_conflict_copy: what the database holds now goes next to the file.
Copy ==
  /\ pc = "copy" /\ job.cur \in DOMAIN db
  /\ copies' = copies \cup {Exported(job.cur, db[job.cur])}
  /\ Goto("zipOver")
  /\ UNCHANGED <<disk, ledger, backend, man, tracker, watch, pausing,
                 job, q, env>>

\* zip_dir: what the folder holds now is what will be imported.
Zip ==
  /\ pc \in {"zipOver", "zipIn", "zipNew"} /\ Exists(job.rel)
  /\ job' = [job EXCEPT !.stage = disk[job.rel]]
  /\ Goto(CASE pc = "zipOver" -> "import"
            [] pc = "zipIn" -> "direct"
            [] pc = "zipNew" -> "asNew")
  /\ UNCHANGED <<folder, ledger, backend, man, tracker, watch, pausing, q, env>>

-----------------------------------------------------------------------------
(* Imports, disk -> database.  An import onto an id replaces the row's     *)
(* content; an import as new makes a row under an id the backend chooses,  *)
(* and its exports carry that id from then on.                             *)

\* The call succeeds on a row that exists and an archive that parses.
Importable == job.cur \in DOMAIN db /\ job.stage.ok
ImportOnto == Write(job.cur, job.stage.ver, job.stage.name)

Import ==
  /\ pc = "import" /\ Importable /\ ImportOnto /\ Goto("finalize")
  /\ UNCHANGED <<folder, ledger, man, tracker, watch, pausing, job, q, env>>

\* import_in_place: 1. straight onto the row, 2. create-file with the old id
\* and import onto that, 3. delete the shell again and import as new.
Adopt(i) ==
  /\ man' = Put(Drop(man, {job.cur}), i, [man[job.cur] EXCEPT !.hash = job.seen])
  /\ job' = [job EXCEPT !.cur = i]

Settle(i) ==
  IF back = "fs" THEN Goto("finalize") /\ UNCHANGED q
  ELSE Goto("recImp") /\ q' = [q EXCEPT !.done = @ \cup {i}, !.dirty = TRUE]

InPlace ==
  /\ pc \in {"direct", "fill"} /\ Importable /\ ImportOnto
  /\ Adopt(job.cur) /\ Settle(job.cur)
  /\ UNCHANGED <<folder, ledger, tracker, watch, pausing, env>>

InPlaceFails ==
  /\ pc \in {"direct", "fill"}
  /\ IF Importable THEN Spend("fault") ELSE UNCHANGED spent
  /\ UNCHANGED backend \/ (Importable /\ ImportOnto)
  /\ Goto(IF pc = "direct" THEN "create" ELSE "unshell")
  /\ UNCHANGED <<folder, ledger, man, tracker, watch, pausing, job, q, lineage>>

Creatable == job.cur \notin DOMAIN db /\ job.cur \notin held

\* Mutant: the shell counts as the imported file.
CreateUnfilled ==
  /\ pc = "create" /\ Creatable /\ Settle(job.cur)
  /\ Write(job.cur, Shell, job.rel[1])
  /\ UNCHANGED <<folder, ledger, man, tracker, watch, pausing, job, env>>

Create ==
  /\ pc = "create" /\ Creatable /\ Goto("fill")
  /\ Write(job.cur, Shell, job.rel[1])
  /\ UNCHANGED <<folder, ledger, man, tracker, watch, pausing, job, q, env>>

CreateFails ==
  /\ pc = "create" /\ Goto("asNew2")
  /\ IF Creatable THEN Spend("fault") ELSE UNCHANGED spent
  /\ UNCHANGED backend \/ (Creatable /\ Write(job.cur, Shell, job.rel[1]))
  /\ UNCHANGED <<folder, ledger, man, tracker, watch, pausing, job, q, lineage>>

\* The shell's deletion is best effort.
Unshell ==
  /\ pc = "unshell" /\ Goto("asNew2")
  /\ \/ /\ db' = Drop(db, {job.cur}) /\ held' = held \cup {job.cur}
        /\ UNCHANGED <<clock, spent>>
     \/ Spend("fault") /\ UNCHANGED backend
  /\ UNCHANGED <<folder, ledger, man, tracker, watch, pausing, job, q, lineage>>

\* import_as_new, and the same call as import_in_place's last resort.
AsNew(i) ==
  /\ pc \in {"asNew", "asNew2"} /\ i \in Fresh /\ job.stage.ok
  /\ Write(i, job.stage.ver, job.stage.name)
  /\ IF pc = "asNew2" THEN Adopt(i)
     ELSE /\ man' = Put(man, i, [path |-> job.rel, hash |-> job.seen,
                                 stamp |-> NoStamp])
          /\ job' = [job EXCEPT !.cur = i]
  /\ Settle(i)
  /\ UNCHANGED <<folder, ledger, tracker, watch, pausing, env>>

\* The answer is lost after the row was made: with_retry sends it again.
AsNewTwice(i) ==
  /\ pc \in {"asNew", "asNew2"} /\ i \in Fresh /\ job.stage.ok /\ Spend("fault")
  /\ Write(i, job.stage.ver, job.stage.name)
  /\ UNCHANGED <<folder, engine, watch, pausing, lineage>>

\* Mutant: the import's own write is not read back.
FinalizeUnread ==
  /\ pc = "finalize" /\ Return
  /\ man' = [man EXCEPT ![job.cur].hash = job.seen] /\ ledger' = man'
  /\ UNCHANGED <<folder, backend, tracker, watch, pausing, q, env>>

\* Mutant: the hash recorded is the directory's present one.
FinalizeRehashed ==
  LET i == job.cur
      now == IF Exists(job.rel) THEN disk[job.rel] ELSE job.seen
      entry == [man[i] EXCEPT !.stamp = db[i].stamp, !.hash = now]
  IN  /\ pc = "finalize" /\ Return
      /\ IF i \in DOMAIN db
         THEN man' = [man EXCEPT ![i] = entry] /\ MarkSynced(i, db[i].stamp)
         ELSE UNCHANGED <<man, tracker>>
      /\ ledger' = man'
      /\ UNCHANGED <<folder, backend, watch, pausing, q, env>>

\* finalize_import: read the row back, so our own write looks synced.
Finalize ==
  LET i == job.cur
      entry == [man[i] EXCEPT !.stamp = db[i].stamp, !.hash = job.seen]
  IN  /\ pc = "finalize" /\ Return
      /\ IF i \in DOMAIN db
         THEN man' = [man EXCEPT ![i] = entry] /\ MarkSynced(i, db[i].stamp)
         ELSE UNCHANGED <<man, tracker>>
      /\ ledger' = man'
      /\ UNCHANGED <<folder, backend, watch, pausing, q, env>>

\* An import whose call fails, with or without having taken effect; nothing
\* to zip; no id, or an archive the backend refuses.
ImportFails ==
  /\ \/ pc \in {"fetch", "direct", "finalize"} /\ Spend("fault") /\ UNCHANGED backend
     \/ /\ pc = "copy" /\ UNCHANGED backend
        /\ IF job.cur \in DOMAIN db THEN Spend("fault") ELSE UNCHANGED spent
     \/ /\ pc \in {"zipOver", "zipIn", "zipNew"} /\ ~Exists(job.rel)
        /\ UNCHANGED <<backend, spent>>
     \/ /\ pc = "import"
        /\ IF Importable THEN Spend("fault") ELSE UNCHANGED spent
        /\ UNCHANGED backend \/ (Importable /\ ImportOnto)
     \/ /\ pc \in {"asNew", "asNew2"} /\ UNCHANGED backend
        /\ IF job.stage.ok /\ Fresh # {} THEN Spend("fault") ELSE UNCHANGED spent
  /\ Fail
  /\ UNCHANGED <<folder, ledger, man, watch, pausing, q, lineage>>

-----------------------------------------------------------------------------
(* export_file, database -> disk. *)

Wanted(i) == Ladder(i, q.snap[i].name)
Misplaced(i) == /\ i \in DOMAIN man
                /\ man[i].path \notin Candidates(i, q.snap[i].name)
                /\ ~Taken(i, Wanted(i))
                /\ ~Exists(man[i].path) \/ Clean(i)

\* relocate_tracked_file: the directory follows the row's name, unless it
\* was edited.  Where there is no directory the entry is re-targeted.
Relocate(i) ==
  /\ pc = "export" /\ i \in q.exp /\ Misplaced(i)
  /\ q' = [q EXCEPT !.exp = @ \ {i}]
  /\ IF Exists(man[i].path)
     THEN /\ disk' = Put(Drop(disk, {man[i].path}), Wanted(i), disk[man[i].path])
          /\ Arm({man[i].path, Wanted(i)})
     ELSE UNCHANGED <<disk, watch>>
  /\ man' = [man EXCEPT ![i].path = Wanted(i)]
  /\ SetJob(i, Wanted(i), NoJob.seen) /\ Goto("relocated")
  /\ UNCHANGED <<copies, ledger, backend, tracker, pausing, env>>

RelocateSave ==
  /\ pc = "relocated" /\ ledger' = man /\ Goto("download")
  /\ UNCHANGED <<folder, backend, man, tracker, watch, pausing, job, q, env>>

\* allocate_file_path: a tracked file keeps its path, a new one gets a free one.
Allocate(i) ==
  /\ pc = "export" /\ i \in q.exp /\ ~Misplaced(i)
  /\ q' = [q EXCEPT !.exp = @ \ {i}]
  /\ SetJob(i, IF i \in DOMAIN man THEN man[i].path ELSE Wanted(i), NoJob.seen)
  /\ Goto("download")
  /\ UNCHANGED <<folder, ledger, backend, man, tracker, watch, pausing, env>>

Download ==
  /\ pc = "download" /\ job.cur \in DOMAIN db /\ Goto("guard")
  /\ job' = [job EXCEPT !.stage = Exported(job.cur, db[job.cur])]
  /\ UNCHANGED <<folder, ledger, backend, man, tracker, watch, pausing, q, env>>

DownloadFails ==
  /\ pc = "download" /\ Fail
  /\ IF job.cur \in DOMAIN db THEN Spend("fault") ELSE UNCHANGED spent
  /\ UNCHANGED <<folder, ledger, backend, man, watch, pausing, q, lineage>>

\* The conflict guard looks only at a tracked file whose directory exists.
Guarded == job.cur \in DOMAIN man /\ Exists(job.rel)
\* Mutant: the directory is not hashed before the swap.
DirtyUnseen == FALSE
Dirty == Guarded /\ disk[job.rel] # man[job.cur].hash

\* Record(hash): the entry as an export of this listing leaves it.
Record(hash) ==
  Put(man, job.cur, [path |-> job.rel, hash |-> hash, stamp |-> q.snap[job.cur].stamp])

\* The disk already has this content, or the export changes nothing.
ExportNoOp ==
  /\ pc = "guard" /\ Guarded /\ disk[job.rel].ok
  /\ job.stage = IF Dirty THEN disk[job.rel] ELSE man[job.cur].hash
  /\ man' = Record(job.stage) /\ ledger' = man' /\ Exportation
  /\ UNCHANGED <<folder, backend, watch, pausing, q, env>>

\* A broken tree, or one of another file, blocks the export.
ExportBlocked ==
  /\ pc = "guard" /\ Guarded
  /\ \/ ~disk[job.rel].ok
     \/ Dirty /\ disk[job.rel] # job.stage /\ disk[job.rel].id # job.cur
  /\ Fail
  /\ UNCHANGED <<folder, ledger, backend, man, watch, pausing, q, env>>

\* Both sides changed: the staged tree becomes a conflict copy, the disk's
\* own tree is imported.
ExportConflict ==
  /\ pc = "guard" /\ Dirty /\ disk[job.rel].ok
  /\ disk[job.rel] # job.stage /\ disk[job.rel].id = job.cur
  /\ copies' = copies \cup {job.stage}
  /\ job' = [job EXCEPT !.seen = disk[job.rel]] /\ Goto("zipOver")
  /\ UNCHANGED <<disk, ledger, backend, man, tracker, watch, pausing,
                 q, env>>

\* The new hash is recorded BEFORE the swap lands.
ExportRecord ==
  /\ pc = "guard" /\ ~Dirty
  /\ Guarded => job.stage # man[job.cur].hash
  /\ man' = Record(job.stage) /\ ledger' = man' /\ Goto("swap")
  /\ UNCHANGED <<folder, backend, tracker, watch, pausing, job, q, env>>

\* commit_dir_swap, which puts the staged tree over whatever is there.
Swap ==
  /\ pc = "swap" /\ disk' = Put(disk, job.rel, job.stage) /\ Arm({job.rel})
  /\ Exportation
  /\ UNCHANGED <<copies, ledger, backend, man, pausing, q, env>>

-----------------------------------------------------------------------------
DbChange ==
  \/ \E i \in Id : DbEdit(i) \/ DbTouch(i) \/ DbDelete(i)
  \/ \E i \in Id, n \in Name : DbRename(i, n) \/ DbCreate(i, n)
  \/ DbWipe

DiskChange ==
  \E p \in Path :
    \/ \E ok \in BOOLEAN : DiskEdit(p, ok)
    \/ DiskDelete(p)
    \/ \E n \in Name : DiskMove(p, n) \/ DiskMoveUnseen(p, n) \/ DiskCopy(p, n)

Reconcile ==
  \/ Start \/ Boot \/ Snapshot \/ SnapshotFails
  \/ \E moved \in SUBSET Id : Decide(moved)
  \/ \E it \in q.imp : RecImport(it)
  \/ RecSave \/ RecNoops \/ Reseed

Loop ==
  \/ HandlePause \/ PollDone \/ Sweep \/ FsDone
  \/ \E due \in SUBSET Ripe : PollCycle(due)
  \/ \E due \in SUBSET Armed : TakeDue(due)

FsChange ==
  \/ \E op \in q.rekey : RekeyMirrored(op) \/ RekeyUnmirrored(op)
  \/ RekeySave
  \/ \E p \in q.fs : FsGone(p) \/ FsBroken(p) \/ FsHash(p)
  \/ FsRoute \/ Copy \/ Zip
  \/ \E moved \in BOOLEAN : Fetch(moved)

ImportStep ==
  \/ Import \/ InPlace \/ InPlaceFails \/ Create \/ CreateFails \/ Unshell
  \/ \E i \in Id : AsNew(i) \/ AsNewTwice(i)
  \/ Finalize \/ ImportFails

ExportStep ==
  \/ \E i \in q.exp : Relocate(i) \/ Allocate(i)
  \/ RelocateSave \/ Download \/ DownloadFails
  \/ ExportNoOp \/ ExportBlocked \/ ExportConflict \/ ExportRecord \/ Swap

Engine == Reconcile \/ Loop \/ FsChange \/ ImportStep \/ ExportStep
Next == Engine \/ DbChange \/ DiskChange \/ Crash \/ (\E on \in BOOLEAN : SetPaused(on))

Spec == Init /\ [][Next]_vars

-----------------------------------------------------------------------------
(* What the code promises. *)

\* Every variable holds a value of the program's own types.
Partial(f, K, V) == DOMAIN f \subseteq K /\ f \in [DOMAIN f -> V]

FolderOK == Partial(disk, Path, Tree) /\ copies \subseteq Tree
BackendOK == Partial(db, Id, Row) /\ held \subseteq Id /\ clock \in [Id -> Nat]
ManifestOK == Partial(ledger, Id, Entry) /\ Partial(man, Id, Entry)
TrackerOK == Partial(synced, Id, Stamp) /\ Partial(pend, Id, Stamp)
LoopOK == /\ fsPend \subseteq Path /\ sweep \in BOOLEAN
          /\ paused \in BOOLEAN /\ handled \in BOOLEAN
LocalsOK == pc \in PC /\ back \in PC /\ polling \in BOOLEAN /\ job \in Job
WorkOK == Partial(q.snap, Id, Row) /\ q \in Work(q.snap)
HistoryOK == nver \in Nat /\ spent \in [Kind -> Nat] /\ superseded \subseteq Nat

TypeOK == /\ FolderOK /\ BackendOK /\ ManifestOK /\ TrackerOK
          /\ LoopOK /\ LocalsOK /\ WorkOK /\ HistoryOK

\* Two files never claim one directory, in memory or in the saved manifest:
\* each would be exported over the other, poll after poll.
Injective(f) == \A i, j \in DOMAIN f : f[i].path = f[j].path => i = j
UniquePaths == Injective(man) /\ Injective(ledger)

\* The last rung of the ladder is free whenever an export may come to it:
\* what the code assumes of it without looking ("unique by construction").
\* A file whose directory went over to a new id while its row lives is exported
\* again, one rung higher: the name it left is the new file's.
LastRungFree ==
  pc = "export" => \A i \in q.exp \ DOMAIN man : ~Claimed(Rung(i, q.snap[i].name, 3))

\* "Nothing is ever silently overwritten": every version that nobody edited
\* over or threw away is on disk, in the database or in a conflict copy.
NothingLost == (1..nver) \ superseded \subseteq Stored(disk, db)

\* The baseline tells the truth: a file whose directory and row are both what
\* the manifest recorded holds the same design on both sides.  An import or
\* export that records the wrong stamp makes the next change overwrite one.
Baseline ==
  pc = "idle" => \A i \in DOMAIN man \cap DOMAIN db :
    man[i].stamp = db[i].stamp /\ Clean(i) =>
      disk[man[i].path].ver = db[i].ver /\ disk[man[i].path].name = db[i].name

Happened(k) == spent[k] > 0
Quiet(kinds) == \A k \in kinds : ~Happened(k)

\* A file is its id: moving its directory, by whatever crash or failure it is
\* followed, never turns it into another file of the database.
OnlyKnownFiles == DOMAIN db \subseteq DOMAIN Vault
MoveKeepsIdentity ==
  Quiet(Kind \ {"diskMove", "crash", "fault"}) => OnlyKnownFiles

\* "Delete the entire database, restart the app, and every file is rebuilt":
\* whatever crash cuts the rebuild short, the loop never begins with a tracked
\* directory the database lacks.  (A failed import is given up; the tree of a
\* file imported under a new id keeps its old one, and AllRebuilt fails of it.
\* A broken tree is imported once it is mended: at the next tick, if reconcile has
\* passed it over by then.)
AllRebuilt ==
  pc = "idle" => \A i \in DOMAIN man :
    Exists(man[i].path) /\ disk[man[i].path].ok => i \in DOMAIN db /\ db[i].ver # Shell
Rebuilt == Quiet({"diskCopy", "dbDelete", "fault"}) => AllRebuilt

\* A conflict copy takes a change on either side; it is never made of the
\* daemon's own exports and imports alone.  A tree found broken counts as one of
\* the database: reconcile passes it over, so its row looks new to every poll, and
\* mending it makes a copy (BothChanged, "both the DB and the disk changed").
Unforced == Quiet({"crash", "fault"})
ConflictNeedsBoth ==
  copies # {} /\ Unforced => ~Quiet(DiskKind) /\ ~Quiet(DbKind \cup {"diskBreak"})
BothChanged == copies # {} /\ Unforced => ~Quiet(DiskKind) /\ ~Quiet(DbKind)

-----------------------------------------------------------------------------
(* The engine's task runs as long as it can; each tick of the two timers    *)
(* comes again and again, and finds a debounce over unless it was re-armed; *)
(* a pause request wakes the loop; the application is started again.        *)

Fairness ==
  /\ WF_vars(Start)
  /\ WF_vars(Engine /\ pc \notin {"idle", "down"})
  /\ SF_vars(PollCycle(Ripe))
  /\ SF_vars(pc = "idle" /\ TakeDue(fsPend))
  /\ SF_vars(Sweep) /\ SF_vars(HandlePause)

FairSpec == Spec /\ Fairness

\* The folder and the database hold the same files with the same designs.
InSync ==
  /\ \A i \in DOMAIN db :
       /\ i \in DOMAIN man /\ Exists(man[i].path)
       /\ disk[man[i].path].ver = db[i].ver /\ disk[man[i].path].name = db[i].name
  /\ \A p \in DOMAIN disk : Claimed(p) /\ Owner(p) \in DOMAIN db

\* The daemon has nothing left to do, its own writes included.
AtRest == pc = "idle" /\ fsPend = {} /\ pend = Nothing /\ ~sweep

\* Once the edits stop, the two sides agree and go on agreeing, and the daemon
\* comes to rest, unless the person leaves sync paused.
Converges == <>[]paused \/ <>[](InSync /\ AtRest)
=============================================================================
