# A TLA+ model of Penpot Local

Penpot Local runs Penpot on one machine and keeps every design as a directory
tree in a folder, the *vault*. The vault is the source of truth; Penpot's
PostgreSQL database is a cache that may be deleted and is rebuilt from the
folder. A daemon keeps the two in step in both directions while people edit
either side. This directory holds TLA+ models of the parts of the program where
that promise can break, the TLC runs that check them, and proofs.

    tlc -config sync_one_file.cfg MCSyncEngine     # a run
    tlapm SyncEngine_proofs.tla                    # the proofs

The modules with proofs are `SyncEngine_proofs`, `VaultSwitch_proofs`,
`Supervisor_proofs`, `VaultOps_proofs`, `Packages_proofs`, `Readers_proofs`,
`Desk_proofs` and `FrontDoor_proofs`. A theorem holds for every value of the
constants: any vault, any number of tasks, requests or files, and any budget of
edits, crashes and failures. What is assumed beyond the constants' own assumptions is
written in the theorem. Section 13 says what is not proved.

| module | models | run with | section |
|---|---|---|---|
| `SyncEngine` | the engine between folder and database | `MCSyncEngine` | 2 |
| `VaultSwitch`, refining `OneVault` | start, switch, reboot, exit | `MCVaultSwitch` | 3 |
| `Supervisor` | the processes of a stack and the orphan watchdog | `MCSupervisor` | 4 |
| `VaultOps` | delete, duplicate, pause, checkpoint beside the daemon | `MCVaultOps` | 5 |
| `Packages` | packages, library links, plugins and consent | `MCPackages` | 6 |
| `Readers` | board export and the index, which poll the manifest | `MCReaders` | 7 |
| `Contracts` | the label of a library update (an algorithm) | `MCContracts` | 8 |
| `Desk`, extended by `Windows` | the desktop shell around the runner, its windows | `MCDesk` | 9 |
| `FrontDoor`, which extends `Proxy` | provisioning, preferences, assets | `MCFrontDoor` | 10 |

## 1. The system

| component | state it keeps | operations | talks to |
|---|---|---|---|
| sync engine `crates/sync-daemon` | manifest in memory, change tracker, debounced filesystem events, pause flag | startup reconciliation, poll, filesystem tick, re-key, sweep, import, export, pause/resume | the database by RPC, the vault, `.penpot-sync.json`, the watcher |
| sync core `crates/sync-core` | none | manifest load/save, semantic tree hash, directory swap and the clean-up of its leftovers, trash, archives, consent and lock files | the file system |
| vault management `crates/vault-ops/manage.rs`, checkpoint, git init | the delete lock (pauses the engine) | create, rename, move, duplicate, delete files and projects; commit the vault | RPC, vault, engine's pause, git |
| installer `crates/installer` | none | import an archive, import it again until it settles | RPC |
| vault registry, switch primitives `crates/vault-ops/vault.rs` | registry of vaults, switch marker | register, decide what to start, wipe the cache | the file system |
| boot and vault runner `crates/app-core` | the running application, locks, active vault | boot, shutdown, switch vault, reboot in place, exit | supervisor, proxy, engine, packages, index |
| supervisor `crates/supervisor` | child processes, restart counters, watchdog pipe | start in order, restart, stop in reverse order, kill on parent's death | Postgres, Valkey, backend, exporter |
| proxy `crates/proxy` | connections | log the webview in, forward, serve assets and preferences, drain | backend, storage, vault runner |
| packages `crates/packages` | consent ledger, lock file, plugin properties in the database | capture, re-apply, relink libraries | RPC, vault |
| vault index `crates/vault-index` | SQLite index | poll, index, query | vault |
| board export `crates/board-export` | debounce, hashes of boards | render after an export | exporter, vault |
| application state `crates/app-state` | preferences, recents, last operation | atomic JSON writes | file system |
| desktop shell `apps/desktop` | the LiveVault slot, the tray's bridge, the window registry | menus, tray, documents, windows, Open Vault | vault runner, engine's pause, manifest |
| command line `apps/cli`, Preferences page | the form, its baseline | change preferences, ask for switches and reboots | control port, proxy |

How they interact. The vault runner boots one *stack*: supervisor (Postgres,
Valkey, backend, exporter), proxy, RPC session, engine, index, board export. The
engine is one asynchronous task with a `select!` loop; the watcher, the pause
calls and the two timers are its inputs. Vault management and board export are
other tasks that touch the same folder. The person, git and any editor write the
folder; Penpot's own interface writes the database. Nothing locks the two.

What is hard:

* **Interleaving.** Every `await` of an engine pipeline lets people edit both
  sides. A pipeline that downloads, stages, hashes and swaps works on a listing
  and a hash that may be stale.
* **Crashes.** The manifest, the folder and the database are three stores with no
  common transaction. A crash falls between any two of their writes.
* **Echoes.** Everything the engine writes comes back to it as an event.
* **Identity.** A file is its Penpot id, a directory has only a path. Moves,
  copies, deletions and rebuilds have to be told apart by content.
* **Partial failure.** An RPC may fail before or after it took effect; a retry may
  repeat it.
* **Life cycle.** Pause and resume, vault switches, reboots and exits run while
  all of this is going on.

What makes each component correct: the engine loses no version of a design
(except one that a person edited over or threw away), keeps a baseline that
tells the truth, gives every file a directory of its own, converges and comes to
rest; the vault runner never lets the engine of one vault see the cache of
another and leaves at most one stack alive; the supervisor leaves no orphan; the
packages component never puts a plugin back that nobody consented to here; a
delete never comes back; what is derived from the vault (renders, index) ends up
as if made from nothing; the shell's copies of facts about the stack follow the
stack; a stack that is up holds valid keys and runs what the preferences say.
`PROJECT.json` lists the hazards, each at its line.

Most runs take a set of *scenarios*, small budgets that say how often each thing
outside the code may happen in one behaviour. TLC takes their union, so that each
question gets the combination of events it needs and no other. A budget bounds
the environment only, never the code's own retries or loops, which have the
code's limits (as constants, often smaller).

Where the code has no defence, a property says so in its own words (a window that
is closed, a history variable that remembers what got in between). The promise
without that exception is stated beside it, and a configuration of its own, which
is not among the runs, finds the counterexample: section 12 lists them with the
sentence of the source they refute.

## 2. `SyncEngine`: the engine and its two stores

### State

| variable | code |
|---|---|
| `disk`, `copies` | the vault: path to tree; the conflict copies |
| `ledger`, `man` | `.penpot-sync.json`, and the engine's copy of it |
| `db`, `held`, `clock` | live rows, ids that soft-deleted rows hold, the writes of each row |
| `synced`, `pend` | `ChangeTracker` |
| `fsPend`, `sweep` | `FsDebounce`, the structural-sweep flag |
| `paused`, `handled` | `SyncControl` and its notification |
| `pc`, `back`, `polling`, `job`, `q` | where the task is suspended, its locals and work lists |
| `nver`, `spent`, `superseded` | history: versions given out, events that happened, versions people edited over |

The engine is one task, so one `pc` is enough. Each handler is cut at its awaits
and at the points where a crash would leave a different folder, manifest or
database behind: `export_file` for example is `Allocate` or `Relocate`,
`RelocateSave`, `Download`, one of `ExportNoOp`, `ExportBlocked`,
`ExportConflict`, `ExportRecord`, and `Swap`. Between any two of these the
environment acts: edits, breaks, deletions, moves (seen or unseen by the watcher)
and copies on disk; edits, touches, renames, creations and deletions in the
database; a wipe of the database while the program is down; crashes; failing
calls, which may have taken effect; pauses and resumes. `PROJECT.json` maps each
definition to its lines.

### Abstractions

* A tree is its embedded id, its name, a version number (fresh for every edit)
  and whether it can be parsed. Its semantic hash is the tree itself. So what is
  assumed of hashing is: no collisions, and an export of an unchanged row hashes
  as before.
* `(revn, modifiedAt)` is one stamp, the row's id and the count of its writes, so no
  two writes share one.
* There is one project folder. A directory name is a name plus one of three
  suffixes: the ladder of `allocate_file_path`.
* A debounce deadline may be over or not: the choice is free in `PollCycle` and
  `TakeDue`, with the code's rule that a change first seen in a listing is never
  over in that same listing.
* Local file I/O succeeds.

### Windows

`Windows` gives, for each kind of event, the places at which it may happen. The
runs that pass close the places where the code has no defence; each of these is
a configuration of section 12 that shows the violation, or a hazard with its line:

| closed | why | shown by |
|---|---|---|
| crash between the manifest save and the swap | the old tree is taken for a local edit | `crash_before_swap` |
| crash between create-file and the import that fills it | the empty row is exported over the tree | `shell_over_tree` |
| directory moved between the guard and the swap | it is exported again at its old place | `move_during_edit` |
| directory edited or copied between the guard and the swap | overwritten | hazard at engine.rs:1443, paths.rs:135 |
| row edited between the decision to import and the read-back | overwritten | hazard at engine.rs:1055 |
| directory moved between the re-key pass and the decisions of reconcile | seen by neither | hazard at engine.rs:1766 |

Everything outside these windows is open: a crash, a failed call or an edit may
come between any other two steps.

### Properties

* `TypeOK`, which is proved.
* `NothingLost`: "Nothing is ever silently overwritten" (engine.rs:13). Every
  version that nobody edited over or threw away is on disk, in the database or in
  a conflict copy.
* `Baseline`: when the loop rests, a file whose directory and row are both as
  recorded holds the same design on both sides. This is what the next decision
  builds on.
* `UniquePaths`, `LastRungFree`: no two files claim one directory; the last rung
  of the ladder, which the code does not look at, is free when it is needed. The
  second needs files of one name and an import that goes over to a new id while the
  old row lives: the old entry's file is then exported one rung higher, and only then
  is the full id of a file in a directory's name at all. Two budgets of `sync_one_file`
  (`Namesakes`, `NamesakeRemovals`) are for that. When two imports of one entry are
  answered late (one fault more), the full-id directory has passed to another file and the
  code takes it all the same: `last_rung_taken`, section 12.
* `MoveKeepsIdentity`: a moved directory stays the same file, through crashes and
  failing calls.
* `Rebuilt`: after a wipe of the database every tracked directory is back when
  the loop begins, however often the rebuild was cut short.
* `ConflictNeedsBoth`: while nothing crashes and no call fails, conflict copies take
  a change on each side; they are never made of the daemon's own writes. A broken tree
  counts as a change of both: reconcile passes it over (engine.rs:1805) and so never
  tells the tracker of its row, which then looks new to every poll; mending the tree
  before the poll's guard looks at it makes a copy (`mended_tree`, section 12).
* `Converges`: once the edits stop, folder and database agree and go on agreeing,
  and the daemon stops working, unless it is left paused.

### Runs

| run | instance | checks |
|---|---|---|
| `sync_one_file` | one file, three ids, two names; eight budgets | `NothingLost`, `Baseline`, `UniquePaths`, `LastRungFree`, `ConflictNeedsBoth` |
| `sync_two_files` | two files and a spare id, three names; three budgets | `MoveKeepsIdentity`, `Rebuilt` |
| `sync_converges` | one file; three budgets; fair | `Converges` |

A *budget* says how often each kind of event may happen in one behaviour; a run
takes the union of a few, so that edits, crashes and failures meet in the
combinations a question needs and the state space stays under a million
states. Two edits of each side, one crash and one failed call are enough to
reach every step of every pipeline (the runs fire every action); the defects found
need at most two events. Two files matter for re-keys (ambiguity) and for
work lists of more than one element; three ids leave room for one import as new
and its repetition by a retry, or for a second file of the same name and one import as
new. Ids that the backend has not given out yet are interchangeable (`Spare`). In
`Namesakes` and `NamesakeRemovals` one import is answered late, and a kill or a deletion
brings the ladder to its last rung: an entry does come to hold a full-id directory.

Deadlock is checked in the safety runs. It is off in `sync_converges`, where a
person may pause and never resume.

### Fairness

`FairSpec` assumes: the program is started again after a crash (`Start`); the
engine's task runs on while it has something to run (weak fairness on its steps
outside the loop's rest); the two ticks and the pause branch come again and again
even though other branches compete (strong fairness on `PollCycle(Ripe)`,
`TakeDue(fsPend)`, `Sweep`, `HandlePause`). The code justifies the last: `select!`
chooses at random among ready branches, the timers are intervals of fixed length
and nothing re-arms a debounce once the edits have stopped. People, crashes and
failures get no fairness: their budgets run out.

### Proofs (`SyncEngine_proofs`)

For every vault, every set of ids and names, every budget and every choice of
windows:

* `Typing`: `Spec => []TypeOK`.
* `OneDirectoryEach`: `Spec /\ []LastRungFree => []UniquePaths`.

If the windows and budgets are `Firm`, or `Steady`, which is more:

* `LastRungUnique`, `OneDirectoryAlways` (`Firm`): `LastRungFree`, and with it
  `UniquePaths` without the hypothesis of `OneDirectoryEach`. The code relies on the
  first in a comment ("unique by construction").
* `NothingIsLost`, `BaselineTrue`, `ConflictsNeedBoth` (`Steady`): `NothingLost`,
  `Baseline` and `ConflictNeedsBoth`.
* `RebuiltAlways` (`Steady`): `Rebuilt`, as long as no tree is broken.

| | what it rules out | why |
|---|---|---|
| `Firm` | a crash between a relocation and its save | the manifest on disk then names a directory that is not there, and the one that is belongs to no entry |
| | an error from the last three calls of an in-place import (`direct`, `create`, `unshell`) that is not an answer about the row | the import goes on as new, and a directory with the id of one file in its name passes to another while the first one's row may still live (`last_rung_taken`) |
| `Steady`, besides | the same for `fill` | the version that took effect in a shell goes with the shell |
| | moving and copying directories | moving a directory away and back brings contents back that an entry has moved on from |
| | a row changed between the decision to import and the read-back; a directory changed, or the process killed, between the conflict guard and the swap; a kill while an empty shell is filled | the windows of the table above: section 12 has the counterexamples |

They are sufficient; that each is necessary is not claimed. Everything else is free:
crashes, lost answers and failing calls at every other step, edits of both sides,
wipes, pauses, any number of each. `Steady` and the windows of the runs
(`MCSyncEngine!Outside`) differ: the runs also have moves, copies and those faults, as
often as their budgets say. So the runs and the theorems complement each other.

`TypeOK` is not inductive: whether a step is typed depends on where the handler
came from and on which ids its locals may hold. `Control` says this: what `back`
can be at each `pc`, that the work lists stay inside the listing they were made
from, and that a file being imported onto an id is in the manifest. `UniquePaths`
needs `PathInv`: the re-keys still to do take unclaimed directories and different
ones, and the place of a new file is nobody's until it is recorded.

`LastRungFree` is a statement about names that were chosen long ago: a directory with
an id in its name was named by an export of that id, and must not have passed to
another entry. `LadderInv` follows such directories: each there is has an entry, in
memory and saved (`KeptOK`); a place found to be nobody's is not one of them
(`StrayOK`); what the swap replaces is this file's or nobody's (`SwapOK`); an entry
under another's name belongs to an id whose row is gone for good (`NamesOK`,
`UsedOK`), and different handlers keep apart (`ApartOK`).

`NothingLost` and `Baseline` hang on each other: a swap loses nothing because the
hash it compared with was the row's, and a record is true because what it names was
not lost in between. `BookInv` puts versions and stamps in order: versions are
numbered in the order they are made, an entry's stamp is one the row has had, the
saved manifest is behind the one in memory by what is under way (`NumberedOK`, `StampsOK`,
`DoneOK`, `SavedOK`, `OntoOK`). `TruthInv` says what that means for contents: an entry
whose stamp is the row's and whose hash is the directory's has one design on both
sides (`EntriesOK`), what waits in a work list is really newer (`QueuedOK`), and a
handler suspended at an await still holds what it has seen of row, tree and staging
directory, or the environment's step is outside the windows (`HandlerOK`, one part
per stage of a pipeline). The lemmas go action by action (`SyncStep`); TLC checked
every conjunct on small instances with `Steady` and with `Firm` windows first.

`ConflictNeedsBoth` has two halves, each about what the daemon finds when it looks at
its own work. As nothing was killed and no call failed, the saved manifest is the one in
memory wherever no import waits to be recorded (`InBook`). If nobody touched the folder
(`HandsOff`), every directory in the manifest is there and as recorded, what waits in
a work list or is being looked at is as it was seen, and the last steps of an import as
new are the only import there is (`FolderKept`): so the guard of an export finds nothing
dirty. If nobody touched the database or broke a tree (`Alone`), every tracked directory
holds its own file's tree (`OwnTrees`), the manifest knows every row and, except where an
import is about to record it, its stamp (`RowsKnown`); a listing is still true and has
exports only for directories that are gone (`ListingTrue`), imports stay on the path that
records the row they wrote (`OwnImports`), and the tracker knows every row whose
directory is there or is about to be told (`TrackerTrue`): so no poll fetches over a
directory. That the second needs the broken tree was found by the proof, in the step of
`Decide` where such an entry is due for nobody. With moves (which `Steady` excludes) it is
false: renaming a directory renames the row, that write of the daemon's own bumps
`modifiedAt` without being recorded (engine.rs:693-720), and an edit of the directory right
after it makes a conflict copy.

`Rebuilt` is the promise of the repository's README: wipe the database, start the
application, and every file comes back under its own id. `RebuildInv` has three parts.
`TreesKept`: a directory the manifest names, in memory or saved, holds its own file's
tree, and whatever is about to be swapped in or imported is whole. `Filled`: no row is
an empty shell, except the one being filled, and no import is driven to its last resort
(a new id), which would leave the old entry's file missing. `Covered`: once reconcile has
decided, an entry with a directory and no row is in reconcile's list or is the one being
imported (`Waiting`). As only reconcile has such a list (`NobodyWaits`), nobody waits when
the loop rests. Wipes, kills, renames, new files, edits of both sides, deleted
directories and pauses are free, any number of each; only `InBook` had to be proved
through kills for it. A broken tree is left out because the claim is then false: reconcile
passes over a tree that does not read (engine.rs:1805), and if it is mended after that, the
loop rests before the tick that imports it. Moves and copies are left out by `Steady`.

Assumptions used: `VaultAssumption`, `EnvironmentAssumption` (the constants).
What stays with TLC: liveness and fairness (`Converges`), `MoveKeepsIdentity`, and
`Rebuilt` where directories are moved, which hold for as many moves and crashes as the
budgets have and not for any number of them (section 13).

## 3. `VaultSwitch`: one stack, one vault

The application runs one stack over one vault, and three operations take it down
and raise it again: a switch (menu, preferences page, control port), a reboot in
place (preferences page) and an exit. A start raises the first. They are
concurrent tasks; `switch_lock` admits one switch or reboot, `teardown_lock` one
teardown, and the lock around `app` is shared with every request that looks at the
running application.

| variable | code |
|---|---|
| `marker`; `active`, `known` | `vault-switch.json`; `vaults.json` |
| `cluster`, `assets` | the vaults that `postgres/data` and `assets` hold anything of |
| `runnerActive`, `slot` | `VaultRunner.active`, `VaultRunner.app` |
| `switchLock`, `teardownLock`, `appLock` | the three locks, by holder |
| `pc`, `kind`, `target`, `taken` | each task: where it is, which operation, the vault it will open, the stack it is tearing down |
| `parts`, `root` | what runs of the stack each task raised, and its vault |
| `serversLeft`, `daemonsLeft` | what a dropped stack leaves: servers winding down; vaults whose daemon is still in its pass |
| `req` | requests in the proxy that take the application lock |

A task is cut at its awaits and at every file it writes, so that a kill falls
between any two of them. `Fail` lets every step fail that can: the wipe of each
directory, the marker, the registry, the services, the proxy's port. `Cancel` is
a control request whose client went away: `control_open` awaits the switch in its
handler, which is dropped with the connection.

What such a drop leaves behind is as the code has it. `Supervisor::shutdown` sets
`shutdown_done` before its first await, so `Drop` (lib.rs:993) then kills nothing, and a
child that `start` or `shutdown` had in hand ends by itself once its handle is gone
(child.rs:173-195: SIGTERM and a grace). The database is the exception: `EmbeddedPostgres`
runs `pg_ctl stop` in its own `Drop`, before the locks are free. A daemon looks at its
shutdown flag between its passes, so it may finish one. So `Cancel` empties the stack,
frees the locks at once, and sets `serversLeft` and `daemonsLeft`; `ServersEnd`,
`FinishImport` and `DaemonEnds` come at any later moment, or never. A daemon that is left
writes to the vault's database only while some stack answers it; a wipe of the cluster
takes its access token with it. The leftover backend, Valkey and exporter write nothing of
their own: the proxy and the daemon, who call them, are stopped before `stopServices`
begins and not yet started in `bootServices`. Nothing is bounded but the sets:
operations, kills, failures and cancellations happen any number of times.

Abstractions: a database is the set of vaults it holds rows of (`Reconcile` adds
the stack's own); a killed process takes its children along; a `pg_ctl start` that is
cut off before there is a server to stop is the library's matter (section 4 has it, as
`late`); the rows of the search index are left out.

Properties:

* `NoSpill`: a daemon only works on a database that is empty or its own vault's
  ("a switch must NEVER surface, import, or write a file of another vault",
  docs/milestones/n5.md:26). That includes a daemon which a dropped switch has left.
* `Alone`: no stack is up, and so no database runs, while the state is wiped or a boot
  begins. The comment on `shutdown` claims this of the backend too
  (`NobodyLeft`); a dropped switch breaks that: `servers_left`, section 12.
* `MarkerCovers`: at every moment what is on disk tells whose the database is.
* `Settled`: the active vault is in the registry, and registry, runner and slot agree
  when nothing runs.
* `OneVaultAtATime`: `VaultSwitch` implements `OneVault`, where a stack opens over an
  empty or own state, alone, and only a closed state is wiped. The mapping: `data` is
  `cluster \cup assets`, `open` the vaults of the stacks that are up, that is, whose database
  runs; `Import` is also what a left daemon still brings in.
* `Ends`: every operation ends. This is the deadlock of control.rs:303-314: the proxy
  waits for a request, the request for the lock, the lock for the proxy.

| run | instance | checks |
|---|---|---|
| `vault_switch` | two vaults, one a copy of the other with its id; two tasks (interchangeable), one request | all but `Ends` |
| `switch_ends` | one vault, two tasks, one request; fair | `Ends` |

Two vaults are enough because a step compares at most the old and the new one; two
tasks because of the switch lock: one operation works, the other is an exit or the
next in the queue. Locks do not depend on vaults, so `Ends` needs only one.

Fairness (`FairSpec`): a task with something to run is polled again (weak), and a
task or request waiting for a lock gets it in the end (strong: tokio's mutex is
first come, first served). Kills, failures and requests get none.

Two things are left out of the run, and each has a configuration in section 12 (a third
one, `servers_left`, is of the run's own instance): an environment variable that names a
vault beats the registry without regard to whose the database is; and a cancelled switch
whose stack is complete leaves a database the runner does not know of. That window is
the wait for the application lock, narrow but open.

### Proofs (`VaultSwitch_proofs`)

For every set of vaults, tasks and requests:

* `Typing`: `Spec => []TypeOK`.
* `WipedAlone`: `Spec => []Alone`: no database runs, whatever was killed or dropped.
* `NobodyElse`: `Spec => []NobodyLeft`, if no request is dropped while services stop or
  start: then no server of an earlier stack is alive either. That is exactly the
  condition `servers_left` breaks.
* `NeverSpills`, `DiskTells`, `KeepsPromise`: `NoSpill`, `MarkerCovers` and the
  refinement of `OneVault`, if the system is `Closed`.
* `Settles`: `Spec => []Settled`.

`Closed` says that the environment names no vault and that no switch is dropped at
its installation. Both are needed: `env_over_switch` and `cancel_at_install` drop
one each. `Typing`, `WipedAlone` and `Settles` do not need it.

`NoSpill` is far from inductive: a daemon's vault and the database's are related
only by the operation that raised the one and wiped the other. The invariant `IInv`
follows the operation. `Kinds`, `Starting` and `Holders` say where a task can be and
which lock it holds there; `Placed`, `SlotFree` and `Sole` that no running stack
escapes the teardown, so that nothing runs from there to the boot, which is what
`Alone` needs; `Targets` and `Roots` whose vault a stack runs over; `Holdings`,
`Owned` and `Records` whose the disposable state is, by the operation, by the
runner and by the disk; `LeftOver` that a daemon left behind is one of the runner's active
vault, and that there is none from a switch's wipe to its `adopt`; `Single` that there is
one stack. Each part has a lemma
with exactly the parts it rests on as assumptions, so that the argument can be
read off the lemmas' statements. The refinement then needs no invariant of its
own: `Open` is the boot of the services, `Wipe` the two wipes, `Import` the
daemon's poll or the rest of a left one's pass, `Close` every end of a stack, and the
other steps change neither variable.

Assumptions used: `SwitchAssumption`, `CancelAssumption`. What stays with TLC:
`Ends` (liveness).

## 4. `Supervisor`: the processes of a stack

A *life* is one `Supervisor` value: a boot, a retry after a failed boot, the boot at
the end of a switch. Its children and its orphan watchdog outlive it.

| variable | code |
|---|---|
| `at`, `step`, `life` | `start()` and `shutdown()`: which child they are at |
| `loop`, `slot` | the supervision task of each child, its pid slot |
| `pgw`, `late` | postgres' own watchdog; a `pg_ctl start` whose caller is gone |
| `wd`, `feeder`, `carry` | the orphan watchdog and the pids it was told; the two writers of its pipe |
| `alive`, `holds`, `born`, `crashes` | the operating system: processes, ports; what is left of the bounds |

A task's step ends at an await or at the spawn of a process. Time is left out: a
probe, a grace period or a back-off may be over at any moment. The kill of the app,
by signal or crash, may come between any two steps, and the orphan watchdog then
runs beside the next life.

* `Orderly`: while services stop, nothing started later than the one being stopped is
  alive, and what was stopped stays stopped, although the other tasks go on restarting
  their children; after the goodbye nothing runs but a postgres whose restart was
  in flight.
* `NoOrphans`: the pid slots name every child; when the feeder rests the orphan
  watchdog knows every process (unless an older push overtook it); when it has
  finished, all it knew of are dead.
* `NeverAdopts`: no guarded service becomes ready while a stranger holds its port.
* `LifeMovesOn`: start and shutdown end.

Instance `supervisor`: postgres and two of the three children, which run the same
code: one that would adopt a stranger's port and one that must not; an exporter left
over from an earlier app (whose life counts as one); two lives, two processes per
service and life, one retry,
one crash. A second life is what makes an old watchdog meet new processes, a second
process what makes a restart. `Fairness`: tasks run, timers elapse, a process that
lives binds its port in the end, calls return. Nobody has to crash or to launch.

Left out: the final sweep of an orphan watchdog kills whatever uses its data
directory, also the postgres of the next life; a restart of postgres that was
aborted at the goodbye may bring it back. Both are hazards the code does not defend.

### Proofs (`Supervisor_proofs`)

`StopsInOrder` (`Orderly`), `Accounted` (`NoOrphans`), `AdoptsNobody` (`NeverAdopts`)
and `Typing`, for every order of services, number of lives, retries and crashes.

None is inductive, as each compares what was written down (slots, pids told to a
watchdog) with what the operating system runs. `IInv` starts from freshness: what runs or
is written down was spawned before, so a new process is in no old list (`Fresh`). A
child is in its slot and in the hands of its task until the task has seen it gone
(`InHand`); start and shutdown take the tasks one by one (`Sequenced`). That gives
`Orderly`: a task that is over has no child, and nobody spawns for it again. For
`NoOrphans`, the feeder and the watchdog it feeds are of this life (`Watching`), what
the feeder sent last is what the watchdog knows unless an older push came after it
(`Told`), and what a watchdog killed or shutdown stopped stays dead (`Reaped`).
`LifeMovesOn` is liveness and stays with TLC.

## 5. `VaultOps`: what a person does beside the daemon

Delete, new file, rename, move, duplicate, pause and checkpoint. The daemon is a
coarse one here (`SyncEngine` has its steps): a pass takes its files one by one and
each of them in two steps, what is read and what is written. That is enough for what
this module asks: whether something is still in the daemon's hand when a delete goes
on.

A delete is `TakeLock`, `PauseAndWait`, `Acknowledge` or `Timeout`, `RpcDelete`,
`TrashMove`, `TrashSave`, `DropGuard`, each of which may fail or be the last before a
kill. The pause flag is a watch channel (`flag`, `news`); tray, preferences and boot
set it too. A checkpoint probes, adds and commits while the person's own git runs.

* `GoneForGood`: what was answered with ok is never seen again on either side.
* `SyncAsWished`: however deletes end and overlap, they leave the pause as they found
  it; sync that is off in the preferences is off after every start.
* `EntriesCover`: an entry leaves the manifest only when its directory has left the tree.
* `CheckpointHolds`: what a successful checkpoint saw is in HEAD.
* `DeletesEnd`: an accepted delete is answered, or dies with the app.

Instance `vault_ops`: two files, a free id, two deletes, two checkpoints, twelve
budgets; `MAX_SETTLE_CYCLES` is 3. `Fairness`: the daemon's loop, the tasks and
timers go on; a pass fails at most as often as faults are left.

What the code does not defend, and the histories `exposed` and `toggled` name: the
person resumes sync in the middle of a delete, and the file may come back or the flag
ends up as the guard found it instead of as the person said; a duplicate that still
settles imports onto the row that is being deleted. A save of any preference applies
`syncEnabled` and so ends a pause of the tray. An entry that was taken out of the
manifest may be written back by the daemon before it reloads it. A daemon that was
stopped is never told from a busy one (status.rs:147): the wait ends by its timeout.
Sync conflicts are `SyncEngine`'s subject and do not appear.

### Proofs (`VaultOps_proofs`)

`StaysGone` (`GoneForGood`), `PauseKept` (`SyncAsWished`), `EntriesStay`
(`EntriesCover`), `Committed` (`CheckpointHolds`) and `Typing`, for any number of files,
deletes and checkpoints and any budget of faults, clicks and kills.

That a file stays gone rests on the daemon standing still while it is taken away.
`Quieted` says so: from the acknowledgement to the end of a delete the flag is up and
the daemon does not work, unless the person resumed it (`exposed`, `toggled`). Then what
the delete has taken away is away (`Removed`), and after the answer the daemon starts
from a database and a tree that both lack the file, with nothing in its hand that names
it (`Away`); the duplicate that settles is the other writer and has its own part
(`Duping`). `Held` is the delete lock, `Flagged` the pause before and after a guard,
`Saved` the manifest against its copies, `Staged` what git will commit. With TLC stays
`DeletesEnd`.

## 6. `Packages`: packages, links, plugins, consent

Five kinds of actors share `lock.json`, `plugin-consent.json`, the package folder and
the database without a lock: request handlers, the re-link task, the plugin task, the
update poller and the person. A handler is split where it awaits; a load followed by
a save without an await in between is one step. A version stands for a package's tree,
its hash and its contract.

* `ConsentedHere`: a plugin's pointer is put back only if the person installed it on
  this machine, and only for code that was served then. A cloned `lock.json` or pulled
  code seeds nothing. "Served then" includes code that was pulled while the plugin was
  live: a capture refreshes the hash (packages.rs:842-848), although consent.rs says that
  this would grant consent the person never gave. The property follows the code here.
* `LinksHold`: links in `lock.json` survive what is written later (while requests come
  one by one) and are in the database again when the re-link task is content.
* `Captured`: whatever overwrites `lock.json`, every live plugin ends up pinned, with
  the code it runs.

Instance `packages`: two designs, two plugins (one of them served by another host),
two requests, three ids, eleven scenarios. `Fairness`: the two tasks are loops with
timers; the daemon resurrects the files of its manifest. Handlers get none.

Not claimed, because the code does not promise or does not do it: two installs at the
same time can lose pins or links of each other (`together`); the whole plugin registry
of the profile is overwritten by a re-apply. Serving a plugin's assets and the tasks
of an earlier boot after a switch in the same process are not modelled.

### Proofs (`Packages_proofs`)

`Consented` (`ConsentedHere`) and `LinksSafe` (`LinksHold`), for any number of packages,
files, requests and versions, and any scenario.

`ConsentedHere` needs `Earned`: the ledger of this machine names only plugins the person
installed here, with code that was served while their pointers were live; a live pointer
comes from the person's hand or from the ledger; and the same holds of whatever a pass of
the task has collected when it awaits. So it is an invariant of everything a re-apply
may read, not only of what it did.

`LinksHold` is harder because several `lock.json` are about: the one on disk and those
that handlers read before an import and write after it (`Views`). On a package that was
not imported again since, they agree on the file (`SameFile`) and on the links, but for
those this life made itself, which are in the database already or have lost an end for
good (`SameLinks`); so a re-link pass that planned from one of them has planned for all
(`Planned`). A file belongs to one package wherever it is written down (`OneOwner`);
requests that come one by one leave one view (`OneByOne`). With TLC stays `Captured`.

## 7. `Readers`: board export and the index

Both poll the manifest the daemon saves *before* it swaps the tree in, and read
content later and elsewhere: the exporter from the database, board by board, the
indexer from the tree. The module composes them with the daemon's side (`Record`, then
`SwapTree` in one or two renames), moves, deletes, a change of vault, and a kill
between any two steps.

* `RendersKept`: a place that had renders has some again when the exporter polls,
  also after a kill between the two renames of its own swap. Proved.
* `NeverBehind`: a picture is never older than the state it is filed under. Proved.
* `AsRebuilt`: once nothing more happens, the pages show what an index and renders
  made from nothing would give: what was read in the middle of a swap does not stick.

Instance `readers`: two files, two places, one package, four versions with zero to two
boards, eleven scenarios. Four versions, because a reader has to see two changes in a
row; two places for a move or a second file. `Fairness`: weak on every step of the
daemon, the exporter, the indexer and the start; the person repairs a torn `lock.json`.

Left out: undo in Penpot (a version never comes back); two indexers on one database
after a failed boot. Renders of a moved or deleted file stay behind as directories of
nobody: no property says otherwise.

### Proofs (`Readers_proofs`)

`NeverOlder` (`NeverBehind`) and `RendersStay` (`RendersKept`), for every number of
files, places, packages, boards and versions.

`NeverBehind` is not inductive: that a picture is no older than its hash rests on the
database being no older than the manifest, which is the daemon's doing. `IInv` says so in
three parts. `Sound`: the types of what the daemon and the exporter hold. `Daemoned`: a
directory is known to the manifest and a file has one directory (`Kept`); only a directory
where the manifest has it is edited, so it is later and never earlier (`Later`); the
manifest's hash is at most the database's version, and a tree that waits for its import is
at least that (`Ahead`); while a directory is swapped in, its file is nowhere else
(`InSwap`). `Exported`: hashes that wait are at most the database's version (`Waiting`),
pictures are at least the hash they are made for (`Shooting`), and what is filed or set
aside is as the property says, in both vaults (`FiledIn`). There is one lemma per action;
`Enough` reduces a step of the daemon to the one file it touches, `Aside` and `Beside` say
which half a step leaves alone. TLC has checked each conjunct on `readers`.

`RendersStay` adds that a place with renders has them in place or set aside, and only
set aside inside the swap or after a kill there (`Shown`).

Assumed: at least two versions, one file and one place, and a `None` that is no record.
With TLC stay `AsRebuilt` (liveness) and the types of the index (`TypeOK`).

## 8. `Contracts`: the label of an update

A library's contract and the comparison of two, set by set as in `contract.rs`, against
a reference that looks at components one by one and knows neither groups nor keys.
TLC explores what an author can do between two versions (add, delete, rename, regroup,
combine and undo variants, axes, tokens, colours, a re-import under new ids), so that
every pair compared is one that edits can produce.

* `Labelled`: in a tidy library, where every component has a path, no path has more
  than one container and no key is used twice, the label is the reference's.

Instance `contracts`: three components, two names, two variant containers, one axis,
one token, four starting libraries, four edits.

`LabelTellsTrue` (in `Readers_proofs`, with the rest of vault-index) proves `Labelled`
for any components, words, variants, axes, tokens, exports and number of edits. Assumed:
words, variants and types are positive numbers (0 is "none"), and the libraries one
starts from have one path for each variant container, as Penpot's have
(`LibrariesAssumption`); that is inductive, and with tidiness it makes the groups of
`extract_contracts` the sets a user sees at one kind and path (`GroupsAreSpots`,
`IndexIsFound`). Then `diff_contracts` takes for migrated what a user saw migrate
(`SwitchedIsMigrated`), something is less between two indexes exactly where the user
misses something (`ShrunkIsMissed`, used both ways round), and the ranks of fields, sets
and libraries are those of the reference (`SetBump`, `SetsBump`, `LabelFits`).

## 9. `Desk` and `Windows`: the desktop shell

The shell keeps two late-bound copies of facts about the stack, the `LiveVault` slot
and the tray's `DaemonStatusBridge`; both are filled step by step by the boot task and
the Open Vault callback after the stack is up, while documents are opened, menu
commands run, pause is clicked and the stack is replaced again by the Preferences page,
the command line or a reboot. Inside `Desk` a replacement is two steps, down and up;
`VaultSwitch` has the rest.

| variable | code |
|---|---|
| `stack`, `flow` | the running stack; the boot, Open Vault, page, command line, reboot |
| `live`, `bridge`, `shown`, `prefs`, `open` | the slot, the bridge, the tray's display, preferences, the runner's slot and `runtime.json` |
| `ask`, `tree`, `known`, `landed` | opened documents and menu commands, copies in the vault, ids the daemon gave, where the bytes went |
| `screen`, `reg`, `key`, `bar` | windows on display, the registry, the key window, what the menu was drawn from |
| `task`, `name`, `news`, `recent`, `pop`, `strays` | tasks that open, retitle and draw; names in the manifests; status notices; recent files; the palette; redirects |

* `FactsFollow`: after a boot or Open Vault that ran alone, the slot names the open vault
  and its database, and the tray drives the daemon that runs.
* `PauseSticks`: a pause asked in the tray, before boot or between two vaults, holds on
  the daemon that runs in the end.
* `WritesPlaced`: a document confirmed lands in the open vault unless the stack is
  replaced between the answer and the copy; an export never lands in the vault.
* `AsksEnd`: dialogs, copies and polls end, also when the daemon polled for is gone.
* `WindowsTold`: registry, key window, menu, titles and the home window follow the screen,
  but for windows that were closed, or closed and opened anew, in the middle of a task
  that registers or retitles them (`odd`).

Instance `desk`: two vaults (interchangeable, so the first is fixed), up to two
replacements after the boot; five kinds of asks, presses of the tray and saves; five
histories with windows. Windows are only looked at in those. `Fairness`: dialogs are
answered, locks are fair, tasks go on; nobody has to start anything. A rename after a
switch was checked by hand on a larger instance
(`Opened(<<"menu">>, <<"folder">>, 0, 0, 1, 0)`: 1.6 million states, it holds).

What the code does not defend: a switch from the page or the command line refreshes
neither copy, so titles stop following; Open Vault attaches the bridge before it refreshes
the slot, so news may be read against the old vault; file windows stay open over a
switch with the old team's link; a window closed while it is registered or retitled
stays registered for ever; recent files in the menu lag one open behind; commands
of the tray work on the designs folder of the start. Two imports of one name race.
Quitting, a hidden palette that keeps the app alive, and failing boots are not modelled.

### Proofs (`Desk_proofs`)

`Follows` (`FactsFollow`), `Paused` (`PauseSticks`), `Placed` (`WritesPlaced`) and
`Typing`, for any number of vaults, flows, documents and clicks, each for the shell alone
and with its windows (`WindowsSpec` steps are `Desk` steps or leave its variables alone);
and `WindowsFollow` (`WindowsTold`), for any history of opens, closes, renames and clicks.

The properties speak of a shell at rest, so the invariant has to say what the copies are
on the way. As long as nobody took the stack during the tail of another flow (`raced`, the
exception the property has), at most one flow is telling the shell about the stack, it is the
flow that raised it, and what it has told so far is right (`Telling1`, `Right`). A wanted
pause is the daemon's from the replay on (`PauseHeld`). `Courses` and `Copies` say whose
vault an ask's snapshot names, and where bytes may be.

A title is kept in four places (the window, its registry entry, the menu that was drawn
and the recent files), and the news of a rename travels from the daemon to them in steps
of several tasks. `TellInv` follows it: what each job of opening a file has built and
registered (`JobsOK`, `BuiltOK`), that the registry lists what is on the screen but for
what a task still holds (`ListOK`), that the menu was drawn from it or somebody is about to
draw it anew (`DrawOK`), that a name which differs from a title is in the news, or in the
hands of the task that retitles (`NewsIn`, `UpsOK`), that links of an older database are
on windows of an older era (`StaleOK`), and where the home window is (`HomeOK`).
`WindowsFollow` uses the shell's own invariant for whose daemon the news is of. `AsksEnd`
(liveness) stays with TLC.

## 10. `FrontDoor` and `Proxy`: keys, preferences, assets

A boot makes the single user and a token, awaiting at every call; any call may fail and
the process may be killed at any moment. What must agree: secret, credentials and
preferences on disk; the user and the tokens in a database any switch may wipe; what the
running stack was built from. The Preferences page and the command line change
preferences and restart the stack; the page learns of its own restart by polling the
record of the last operation through the proxy that is being replaced.

* `HoldsKey`: a stack in the slot holds a token its database accepts, the password on
  disk is the user's, and a boot lets in one webview.
* `AsWished`: once no save is under way, disk and stack are as wished, save for what a
  restart is owed for.
* `OutcomeTold`: the page says applied only after a boot that read the preferences after
  the click, and failed only when its own restart did.
* `Opens`: a boot fails only because of a fault, torn credentials, or a user whose
  password was never written.
* `AssetRight`: an asset is answered as RFC 9110 says, also while a switch drains the
  proxy and wipes the storage. `Proxy` has `parse_range`, `serve_storage_file` and
  `safe_join` as operators, and the RFC's definition of what is selected.

Instance `front_door`: three processes one after the other at most; scenarios for
identities, preferences, restarts and assets (lengths 0, 1 and 3, every header with
bounds up to one more than the length). No fairness: all are safety properties.

What the code does not defend, and the histories `muddled`, `alone` and `locked` name:
overlapping saves of one page may be applied in the other order; a stale form overwrites
what another front end changed; a save while the new stack is being installed is not
applied live; another front end's restart may be told as this page's. Not modelled: two
processes on one data directory, the websocket tunnel, the forwarding of `/api/export`,
a profile without a default team, an orderly quit; the "Restart failed." of a page whose
POST was refused or answered 503 (preferences.html:446-451, 472-476), which no stack ever
saw; faults of the backend or the disk while an asset is read (502, 500). A restart in
place leaves the switch marker as it finds it; only a switch, and the start that makes up
for one, clear it (`Install`).

### Proofs (`FrontDoor_proofs`)

* `Served`: for a file of any length, any header and GET or HEAD, the answer of
  `serve_storage_file` (status, length, bytes) is the one the RFC asks for. The lemma
  `Interval` does the work: a usable header selects an interval of the file, and
  `parse_range` gives its ends or says that it is empty.
* `AssetsRight` (`AssetRight`): that the system answers so, also while a stack goes down.
* `KeyHeld` (`HoldsKey`), `BootsOpen` (`Opens`), `Told` (`OutcomeTold`), `Wishes`
  (`AsWished`), `Typing`: for any number of processes, saves, restarts and logins, any
  lengths and headers, and any budget of kills and faults.

The centre of `IInv` is `Listening`: where nobody listens nothing is in flight, because
the proxy drains what it let in before the children stop. So a wiped database or storage
meets no request (`Stored`), and no token of an earlier one (`Tokens`). The rest says
what a boot holds at each of its awaits: whose password (`Passwords`), what a refusal
means (`Refusals`), which preferences (`Matched`) and for which operation it runs
(`Running`, `Outcomes`); and what was wished in the meantime (`Wished`). The history
variables of the properties (`muddled`, `alone`, `locked`) are no assumptions of the
theorems: each theorem states the property with its exception.

## 11. Runs

| run | module | checks |
|---|---|---|
| `sync_one_file`, `sync_two_files`, `sync_converges` | `MCSyncEngine` | section 2 |
| `vault_switch`, `switch_ends` | `MCVaultSwitch` | section 3 |
| `supervisor` | `MCSupervisor` | `Orderly`, `NoOrphans`, `NeverAdopts`, `LifeMovesOn` |
| `vault_ops` | `MCVaultOps` | `GoneForGood`, `SyncAsWished`, `CheckpointHolds`, `EntriesCover`, `DeletesEnd` |
| `packages` | `MCPackages` | `ConsentedHere`, `LinksHold`, `Captured` |
| `readers` | `MCReaders` | `RendersKept`, `NeverBehind`, `AsRebuilt` |
| `contracts` | `MCContracts` | `Labelled` |
| `desk` | `MCDesk` | `FactsFollow`, `PauseSticks`, `WindowsTold`, `WritesPlaced`, `AsksEnd` |
| `front_door` | `MCFrontDoor` | `HoldsKey`, `AsWished`, `OutcomeTold`, `AssetRight`, `Opens` |

Deadlock is checked in `sync_one_file`, `sync_two_files`, `vault_switch` and
`switch_ends`. It is off elsewhere, because the budgets run out and the system then
rests for good. Every property has a mutant: a plausible bug in a definition that breaks
it in its run. `PROJECT.json` lists them; their definitions stand beside the originals,
marked `Mutant`.

The type invariants are not among the runs' properties: TLC has checked them, and the
proofs rest on them.

## 12. Promises the code does not keep

Each of these configurations is a counterexample that TLC finds; they are not among the
runs. `tlc -config <name>.cfg <module>` shows the behaviour.

| configuration | module | violated | what happens | what the source says |
|---|---|---|---|---|
| `crash_before_swap` | `MCSyncEngine` | `NothingLost` | engine.rs saves the manifest (1542) before it calls `commit_dir_swap` (1543): after a crash between the two the old tree looks like a local edit and is imported over the row | "Nothing is ever silently overwritten" (engine.rs:13); "the new data still lives in the DB and will re-sync" (swap.rs:21-22) |
| `shell_over_tree` | `MCSyncEngine` | `NothingLost` | `import_in_place` (engine.rs:1616) creates an empty row, then imports onto it: after a crash between the two the empty row is exported over the only copy | "Delete the entire database, restart the app, and every project/file is rebuilt from disk" (README.md:5-6) |
| `rebuild_of_copy` | `MCSyncEngine` | `AllRebuilt` | a copy imported as new keeps its old id in its tree until it is next exported; if the database is wiped before that, validate.rs:55 refuses it | the same |
| `move_during_edit` | `MCSyncEngine` | `OnlyKnownFiles` | a directory moved between the conflict guard and the swap is exported again at its old path, and the moved one is imported as a new file | "the same file id is renamed in Penpot" (docs/milestones/m5.md:17-18) |
| `last_rung_taken` | `MCSyncEngine` | `LastRungFree` (and `UniquePaths`) | two imports in place, at starts, of a directory edited while the application was closed, fail or are answered late while the row lives: its entry passes to a new id each time, and the row's next export finds the bare, the short and the full rung claimed and takes the full one unlooked at | "Last resort: the full id is unique by construction." (paths.rs:166) |
| `env_over_switch` | `MCVaultSwitch` | `NoSpill` | `decide_startup` (vault.rs:334) returns Normal for the environment's vault, whoever the database belongs to | "the existing DB, if any, belongs to this same vault" (vault.rs:298-300); "a switch must NEVER surface, import, or write a file of another vault" (docs/milestones/n5.md:26-27) |
| `cancel_at_install` | `MCVaultSwitch` | `NoSpill` | a client of `/open` hangs up while `switch_to` waits to install its stack (control.rs:455); a queued reboot then boots the old vault over the new rows | "A reboot in place keeps the SAME vault: nothing crossed a vault boundary, so there is nothing to scrub." (control.rs:121-122) |
| `servers_left` | `MCVaultSwitch` | `NobodyLeft` | a client of `/open` hangs up while the switch stops the services: `shutdown_done` is set (lib.rs:809), so `Drop` kills nobody; the locks are free, and a queued switch wipes (control.rs:436) while backend or Valkey wind down | a switch must not go "straight on to `vault::reset_disposable_state` and a fresh `boot()` while the old postgres and backend were still running"; "So the serialization is restored" (control.rs:332-340) |
| `pid_feeder` | `MCSupervisor` | `AlwaysCurrentSet` | a push that collected its pids earlier writes them after the feeder's line (lib.rs:932); the feeder compares with its own last line only | "the CURRENT child pid set; re-sent on every respawn" (watchdog.rs:26) |
| `removed_comes_back` | `MCPackages` | `NoResurrection` | a plugin removed within the last seconds of a session is still pinned, and the next boot puts it back (packages.rs:958) | "no resurrection against intent" (packages.rs:769-770) |
| `masked_removal` | `MCContracts` | `BreaksTold` | of two variant containers at one path only the last is compared (contract.rs:512): what is removed from the other is a patch | sets never "collide and mask each other's changes" (contract.rs:507-511) |
| `old_vault_import` | `MCDesk` | `LandsInActive` | after a switch from the page or the command line the slot still names the vault that was left, and documents are copied there (menubar/mod.rs:690) | "only the one active when the copy actually happens" (menubar/mod.rs:641-644); "refreshed again on every N5 vault switch" (main.rs:97) |
| `mended_tree` | `MCSyncEngine` | `BothChanged` | reconcile passes a broken tree over (engine.rs:1805), so the poll takes its row for new; when the tree is mended before the export's guard looks at it, a conflict copy is made although nothing changed in the database | "both the DB and the disk changed since lastSyncedHash" (engine.rs:1494) |
| `ghost_window` | `MCDesk` | `AlwaysOpened` | a window closed between its build and its registration, or while its title is rewritten, stays registered: its file cannot be opened again | the "ghost" that menubar/mod.rs:258-266 removes on close |
| `ghost_window` with `Scenarios <- MCLinks` and the invariant below | `MCDesk` | `LinksLive` | a file window, reused by its label after two switches, still has the link of a database that is gone | nothing; the window layer does not know eras |
| `locked_out` | `MCFrontDoor` | `AlwaysOpens` | a kill between `register` and the write of the credentials leaves a user whose password nobody has: every later boot fails | "Handles all three states" (boot.rs:388) |
| `overlapping_saves` | `MCFrontDoor` | `AlwaysAsWished` | two saves under way are written in the other order, and the stack follows one and the file the other | nothing |
| `stale_outcome` | `MCFrontDoor` | `AlwaysTold` | a restart asked for elsewhere ends after the page took its baseline: the page says applied before its own restart has run | "capture `seq` (or `None`) as a baseline before kicking off an operation, then wait for the persisted `seq` to differ" (last_op.rs) |
| `overlapping_saves` with the invariant below | `MCFrontDoor` | `BannerStays` | a save that needs no restart hides the banner of one that does (preferences.html:415-426) | nothing |

## 13. What is left

Out of reach of the prover: liveness and fairness (`Converges`, `Ends`, `LifeMovesOn`,
`DeletesEnd`, `Captured`, `AsRebuilt`, `AsksEnd`).

Only model-checked, because they are false for arbitrary constants and hold for the
events the run's budgets contain:

* `MoveKeepsIdentity`: the manifest has no inode, so two moves that rotate directories
  of equal content are not told apart (plan.rs:216).
* `Rebuilt` where directories are moved or trees broken: a directory moved while nobody
  looked, or a relocation that was not saved, is not found again at its place; a tree
  mended after reconcile passed it over waits for the next tick. `RebuiltAlways` proves
  it without those.

Composition: `SyncEngine` is seen by `VaultOps` and `Readers` through coarse daemons
written from the same code. That these are abstractions of `SyncEngine` is argued, not
checked: the mapping would have to hide the engine's job.

### What the proofs changed in the models

Proving for all constants found places where a model was right on its instance only, or
looked away:

* `Packages`: whether a package was imported again (`remade`) depends on the entries
  since the app started (`had`), not on the `lock.json` one request has read: a link and an
  install that overlap showed the difference. `FrontDoor`: the proxy serves as long as
  there is a stack (`Serving`), wherever a boot is; a failed restart followed by another
  showed that. `Windows`: a window closed while it is registered is remembered when it
  closes, so that `WindowsTold` excuses that window only. Each has a scenario of its own
  in the run now.
  A rename whose window is closed and opened again before the title is set writes to the
  new window what it read of the old (`odd.mixed`): `WindowsTold` excuses that window.
* `SyncEngine`: stamps carry the id, so that stamps of different rows differ.
  `ConflictNeedsBoth` said a change in the database where a broken tree is enough.
* `VaultOps`: two arms of a `CASE` overlapped. Several `None`s are now assumed to be no
  member of the sets they are added to.

## 14. Not modelled

Data formats (normalisation, archives, HTML), path computation, probes, the ranking of
search results and the palette's matching, the wording of menus and of the tray: they are pure functions
of their input or hold no state that two actors change. Several project folders and moves between
them. Local I/O errors (a full disk, missing permissions) in the engine. Network behaviour of the
websocket tunnel. The RPC client's encoding; a call takes effect or not, and answers or not.
