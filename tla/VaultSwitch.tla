------------------------------ MODULE VaultSwitch ------------------------------
(***************************************************************************)
(* The vault runner of Penpot Local (crates/app-core/src/control.rs): one  *)
(* process, one supervised stack, and the operations that take it down and *)
(* raise it again - a start, a switch to another vault, a reboot in place, *)
(* an exit - with what survives them on disk.                              *)
(*                                                                         *)
(* An operation is an asynchronous task that stops at its awaits: pc says  *)
(* where.  Tasks are concurrent; three locks order them.  Any step that    *)
(* can fail may fail, the process may be killed at any moment, and a       *)
(* switch asked for over the control port is dropped when its client goes  *)
(* away.                                                                   *)
(*                                                                         *)
(* Abstractions.  The database cluster and the media blobs are the sets of *)
(* vaults they hold anything of.  A killed process takes its children      *)
(* along: the watchdog's delay is another component's matter.  Dropping a  *)
(* stack stops its database before the locks are free, as EmbeddedPostgres *)
(* says of itself (a pg_ctl start cut off before there is a server to stop *)
(* is the library's matter); its other servers, and its daemon, may take   *)
(* longer.  The index is a step that may fail; its rows, and the thread    *)
(* that a boot failing at the proxy leaves behind, are not here.           *)
(***************************************************************************)
EXTENDS FiniteSets

CONSTANTS
  Vault,      \* vault folders
  None,       \* no vault, no task
  Ident,      \* the id in each folder's marker: a copied folder has the same
  Default,    \* the folder used when nothing else says which
  Envs,       \* what PENPOT_LOCAL_DESIGNS_DIR may be at a start: vaults or None
  Main,       \* the task that starts the process
  Worker,     \* tasks that run one operation at a time
  Request,    \* proxy requests that look at the running application
  CancelAt    \* where a task may be when its client goes away

ASSUME SwitchAssumption ==
  /\ None \notin Vault \cup Worker \cup Request \cup {Main}
  /\ Main \notin Worker /\ (Worker \cup {Main}) \cap Request = {}
  /\ Default \in Vault
  /\ Envs \subseteq Vault \cup {None}
  /\ Ident \in [Vault -> Vault]

Task == Worker \cup {Main}

VARIABLES
  marker,        \* vault-switch.json: the target of an unfinished switch
  active,        \* vaults.json: the active vault
  known,         \* ... and the list of those opened before
  cluster,       \* vaults with rows in the database cluster
  assets,        \* vaults with blobs in the objects storage
  runnerActive,  \* VaultRunner.active
  slot,          \* VaultRunner.app: the stack, by the task that raised it
  switchLock,    \* who holds VaultRunner.switch_lock
  teardownLock,  \* ... VaultRunner.teardown_lock
  appLock,       \* ... the lock around VaultRunner.app
  pc,            \* where each task is
  kind,          \* what each task is doing
  target,        \* the vault each task's operation will open
  taken,         \* the stack each task is tearing down
  parts,         \* what runs of the stack each task raised
  root,          \* the vault of that stack
  serversLeft,   \* servers of a dropped stack that still wind down
  daemonsLeft,   \* vaults whose dropped daemon still finishes what it does
  req            \* where each proxy request is, and in which stack

disk == <<marker, active, known, cluster, assets>>
locks == <<switchLock, teardownLock, appLock>>
tasks == <<pc, kind, target, taken>>
stacks == <<parts, root, serversLeft, daemonsLeft>>
vars == <<disk, runnerActive, slot, locks, tasks, stacks, req>>

StackOp == {"switch", "open", "reboot"}
Kind == StackOp \cup {"exit", "start", "recover", "none"}
Part == {"services", "index", "proxy", "daemon"}
PC == {"idle", "lock", "mark", "teardown", "take", "stopDaemon", "drain",
       "stopServices", "stopped", "wipeDb", "wipeAssets", "wipeIndex", "record",
       "bootServices", "bootProxy", "install", "adopt", "clear", "up"}

\* The places where an operation awaits, where it can be dropped.
Await == {"lock", "teardown", "take", "stopDaemon", "drain", "stopServices",
          "bootServices", "bootProxy", "install"}

ASSUME CancelAssumption == CancelAt \subseteq Await
-----------------------------------------------------------------------------
Go(t, p) == pc' = [pc EXCEPT ![t] = p]

\* A guard is dropped when the function that holds it returns or is dropped.
Dropped(lock, t) == IF lock = t THEN None ELSE lock

Running(t) == pc[t] \notin {"idle", "up"}

\* A stack's services are up, its database among them.
Alive(s) == "services" \in parts[s]

\* The runner exists: it is published as the last step of a start.
RunnerUp == pc[Main] = "up"

\* Mutant: a recovery trusts the interrupted switch to have wiped.
WipesOnSwitchOnly(k) == k \in {"switch", "open"}

\* A switch changes vaults, and so does the recovery of one; a reboot does not.
WipesDisposableState(k) == k \in {"switch", "open", "recover"}
WritesSwitchMarker(k) == k \in {"switch", "open"}

\* Task t's operation returns, successfully or not.
Return(t) ==
  /\ Go(t, "idle")
  /\ kind' = [kind EXCEPT ![t] = "none"]
  /\ target' = [target EXCEPT ![t] = None]
  /\ taken' = [taken EXCEPT ![t] = None]
  /\ switchLock' = Dropped(switchLock, t)
  /\ teardownLock' = Dropped(teardownLock, t)
  /\ appLock' = Dropped(appLock, t)

\* The process ends.  What is in memory goes, what is on disk stays.
ProcessEnds ==
  /\ runnerActive' = None /\ slot' = None
  /\ switchLock' = None /\ teardownLock' = None /\ appLock' = None
  /\ pc' = [t \in Task |-> "idle"]
  /\ kind' = [t \in Task |-> "none"]
  /\ target' = [t \in Task |-> None]
  /\ taken' = [t \in Task |-> None]
  /\ parts' = [t \in Task |-> {}]
  /\ root' = [t \in Task |-> None]
  /\ serversLeft' = FALSE /\ daemonsLeft' = {}
  /\ req' = [r \in Request |-> [at |-> "none", on |-> None]]
-----------------------------------------------------------------------------
(* A start, a request, an exit: where operations come from. *)

\* The vault to start with, and whether it has to be recovered.
DecideStartup(env) ==
  IF marker # None THEN [kind |-> "recover", vault |-> marker]
  ELSE IF env # None THEN [kind |-> "start", vault |-> env]
  ELSE IF active # None THEN [kind |-> "start", vault |-> active]
  ELSE [kind |-> "start", vault |-> Default]

Launch ==
  /\ pc[Main] = "idle"
  /\ \E env \in Envs :
       LET mode == DecideStartup(env)
       IN  /\ kind' = [kind EXCEPT ![Main] = mode.kind]
           /\ target' = [target EXCEPT ![Main] = mode.vault]
           /\ Go(Main, IF WipesDisposableState(mode.kind) THEN "wipeDb" ELSE "record")
  /\ UNCHANGED <<disk, runnerActive, slot, locks, taken, stacks, req>>

\* From the menu, the preferences page (both detached) or the control port.
RequestSwitch(t) ==
  /\ t # Main /\ pc[t] = "idle" /\ RunnerUp
  /\ \E k \in {"switch", "open"}, v \in Vault :
       /\ kind' = [kind EXCEPT ![t] = k]
       /\ target' = [target EXCEPT ![t] = v]
  /\ Go(t, "lock")
  /\ UNCHANGED <<disk, runnerActive, slot, locks, taken, stacks, req>>

\* From the preferences page alone, which the proxy of a running stack serves.
RequestReboot(t) ==
  /\ t # Main /\ pc[t] = "idle" /\ RunnerUp
  /\ \E s \in Task : "proxy" \in parts[s]
  /\ kind' = [kind EXCEPT ![t] = "reboot"]
  /\ Go(t, "lock")
  /\ UNCHANGED <<disk, runnerActive, slot, locks, target, taken, stacks, req>>

\* A signal, or the end of the event loop: there is one.
RequestExit(t) ==
  /\ t # Main /\ pc[t] = "idle" /\ RunnerUp
  /\ \A s \in Task : kind[s] # "exit"
  /\ kind' = [kind EXCEPT ![t] = "exit"]
  /\ Go(t, "teardown")
  /\ UNCHANGED <<disk, runnerActive, slot, locks, target, taken, stacks, req>>

\* switch_to and reboot_in_place take the switch lock.  A reboot opens what is
\* open.
Begin(t) ==
  /\ pc[t] = "lock" /\ switchLock = None
  /\ switchLock' = t
  /\ target' = [target EXCEPT ![t] = IF kind[t] = "reboot" THEN runnerActive ELSE @]
  /\ Go(t, IF WritesSwitchMarker(kind[t]) THEN "mark" ELSE "teardown")
  /\ UNCHANGED <<disk, runnerActive, slot, teardownLock, appLock, kind, taken, stacks, req>>

\* The target's folder gets its identity, the switch its marker.
Mark(t) ==
  /\ pc[t] = "mark"
  /\ marker' = target[t]
  /\ Go(t, "teardown")
  /\ UNCHANGED <<active, known, cluster, assets, runnerActive, slot, locks, kind,
                 target, taken, stacks, req>>
-----------------------------------------------------------------------------
(* VaultRunner::shutdown, and RunningApp::shutdown within it. *)

\* Mutant: teardowns are not serialized.
LockTeardownNever(t) ==
  /\ pc[t] = "teardown"
  /\ Go(t, "take")
  /\ UNCHANGED <<disk, runnerActive, slot, locks, kind, target, taken, stacks, req>>

LockTeardown(t) ==
  /\ pc[t] = "teardown" /\ teardownLock = None
  /\ teardownLock' = t
  /\ Go(t, "take")
  /\ UNCHANGED <<disk, runnerActive, slot, switchLock, appLock, kind, target, taken,
                 stacks, req>>

\* Mutant: take and await in one statement.
HolderDuringTeardown(t) == t

\* Who holds the application lock once the stack is taken out: the guard is
\* dropped before the teardown is awaited.
HolderAfterTake(t) == None

\* The index is told to stop at once.
TakeApp(t) ==
  /\ pc[t] = "take" /\ appLock = None
  /\ appLock' = HolderAfterTake(t)
  /\ slot' = None
  /\ taken' = [taken EXCEPT ![t] = slot]
  /\ parts' = [s \in Task |-> IF s = slot THEN parts[s] \ {"index"} ELSE parts[s]]
  /\ Go(t, IF slot = None THEN "stopped" ELSE "stopDaemon")
  /\ UNCHANGED <<disk, runnerActive, switchLock, teardownLock, kind, target,
                 root, serversLeft, daemonsLeft, req>>

\* Board exports and the daemon stop, then the proxy takes no more requests ...
StopDaemon(t) ==
  /\ pc[t] = "stopDaemon"
  /\ parts' = [parts EXCEPT ![taken[t]] = @ \ {"daemon", "proxy"}]
  /\ Go(t, "drain")
  /\ UNCHANGED <<disk, runnerActive, slot, locks, kind, target, taken, root,
                 serversLeft, daemonsLeft, req>>

\* ... and those it has are waited for.
Drain(t) ==
  /\ pc[t] = "drain"
  /\ \A r \in Request : req[r].on # taken[t]
  /\ Go(t, "stopServices")
  /\ UNCHANGED <<disk, runnerActive, slot, locks, kind, target, taken, stacks, req>>

StopServices(t) ==
  /\ pc[t] = "stopServices"
  /\ parts' = [parts EXCEPT ![taken[t]] = {}]
  /\ taken' = [taken EXCEPT ![t] = None]
  /\ Go(t, "stopped")
  /\ UNCHANGED <<disk, runnerActive, slot, locks, kind, target, root,
                 serversLeft, daemonsLeft, req>>

\* shutdown returns.  After an exit's, nothing is left to do but end.
Stopped(t) ==
  /\ pc[t] = "stopped" /\ kind[t] # "exit"
  /\ teardownLock' = Dropped(teardownLock, t)
  /\ appLock' = Dropped(appLock, t)
  /\ Go(t, IF WipesDisposableState(kind[t]) THEN "wipeDb" ELSE "bootServices")
  /\ UNCHANGED <<disk, runnerActive, slot, switchLock, kind, target, taken, stacks, req>>

Exit(t) ==
  /\ pc[t] = "stopped" /\ kind[t] = "exit"
  /\ ProcessEnds
  /\ UNCHANGED disk
-----------------------------------------------------------------------------
(* Wipe, record, boot: what stop_then_boot and boot_active_vault share. *)

\* The access token of a daemon that is left goes with its database.
WipeDb(t) ==
  /\ pc[t] = "wipeDb"
  /\ cluster' = {} /\ daemonsLeft' = {}
  /\ Go(t, "wipeAssets")
  /\ UNCHANGED <<marker, active, known, assets, runnerActive, slot, locks, kind,
                 target, taken, parts, root, serversLeft, req>>

\* Mutant: the blobs are left where they are.
WipeAssetsKept(t) ==
  /\ pc[t] = "wipeAssets"
  /\ Go(t, "wipeIndex")
  /\ UNCHANGED <<disk, runnerActive, slot, locks, kind, target, taken, stacks, req>>

WipeAssets(t) ==
  /\ pc[t] = "wipeAssets"
  /\ assets' = {}
  /\ Go(t, "wipeIndex")
  /\ UNCHANGED <<marker, active, known, cluster, runnerActive, slot, locks, kind,
                 target, taken, stacks, req>>

WipeIndex(t) ==
  /\ pc[t] = "wipeIndex"
  /\ Go(t, "record")
  /\ UNCHANGED <<disk, runnerActive, slot, locks, kind, target, taken, stacks, req>>

\* VaultRegistry::upsert: one entry for each path and for each id.
Upsert(list, v) == {w \in list : Ident[w] # Ident[v]} \cup {v}

\* A switch reads the list again, and makes do without when it cannot; it
\* lists the vault it leaves, then the one it opens.
Recorded(t) ==
  IF t = Main THEN {Upsert(known, target[t])}
  ELSE {Upsert(Upsert(list, runnerActive), target[t]) : list \in {known, {}}}

\* Mutant: a switch lists its target and leaves the active vault alone.
RecordUnrepointed(t) ==
  /\ pc[t] = "record"
  /\ known' \in Recorded(t)
  /\ active' = IF t = Main THEN target[t] ELSE active
  /\ Go(t, "bootServices")
  /\ UNCHANGED <<marker, cluster, assets, runnerActive, slot, locks, kind, target,
                 taken, stacks, req>>

Record(t) ==
  /\ pc[t] = "record"
  /\ known' \in Recorded(t)
  /\ active' = target[t]
  /\ Go(t, "bootServices")
  /\ UNCHANGED <<marker, cluster, assets, runnerActive, slot, locks, kind, target,
                 taken, stacks, req>>

\* The services, the user in them, and the index.
BootServices(t) ==
  /\ pc[t] = "bootServices"
  /\ parts' = [parts EXCEPT ![t] = {"services", "index"}]
  /\ root' = [root EXCEPT ![t] = target[t]]
  /\ Go(t, "bootProxy")
  /\ UNCHANGED <<disk, runnerActive, slot, locks, kind, target, taken,
                 serversLeft, daemonsLeft, req>>

\* The proxy binds; from there to the end of boot nothing fails or waits.
BootProxy(t) ==
  /\ pc[t] = "bootProxy"
  /\ parts' = [parts EXCEPT ![t] = Part]
  /\ Go(t, IF kind[t] = "recover" THEN "clear" ELSE "install")
  /\ UNCHANGED <<disk, runnerActive, slot, locks, kind, target, taken, root,
                 serversLeft, daemonsLeft, req>>

\* The stack goes into the slot.  A reboot is done; a switch has two steps left.
Install(t) ==
  /\ pc[t] = "install" /\ t # Main /\ appLock = None
  /\ slot' = t
  /\ IF kind[t] = "reboot"
     THEN Return(t)
     ELSE Go(t, "adopt") /\ UNCHANGED <<locks, kind, target, taken>>
  /\ UNCHANGED <<disk, runnerActive, stacks, req>>

\* Mutant: the runner still takes the vault it left for the open one.
AdoptForgotten(t) ==
  /\ pc[t] = "adopt"
  /\ Go(t, "clear")
  /\ UNCHANGED <<disk, runnerActive, slot, locks, kind, target, taken, stacks, req>>

Adopt(t) ==
  /\ pc[t] = "adopt"
  /\ runnerActive' = target[t]
  /\ Go(t, "clear")
  /\ UNCHANGED <<disk, slot, locks, kind, target, taken, stacks, req>>

\* A start makes its runner around the stack.
Publish ==
  /\ pc[Main] = "install"
  /\ slot' = Main
  /\ runnerActive' = target[Main]
  /\ kind' = [kind EXCEPT ![Main] = "none"]
  /\ target' = [target EXCEPT ![Main] = None]
  /\ Go(Main, "up")
  /\ UNCHANGED <<disk, locks, taken, stacks, req>>

\* The switch landed: a recovered one has its runner still to make.
Clear(t) ==
  /\ pc[t] = "clear"
  /\ marker' = None
  /\ IF t = Main
     THEN Go(t, "install") /\ UNCHANGED <<locks, kind, target, taken>>
     ELSE Return(t)
  /\ UNCHANGED <<active, known, cluster, assets, runnerActive, slot, stacks, req>>
-----------------------------------------------------------------------------
(* What runs beside the operations, and what goes wrong. *)

\* The daemon of a running stack brings the folder into the database.
Reconcile(s) ==
  /\ "daemon" \in parts[s]
  /\ cluster' = cluster \cup {root[s]}
  /\ assets' = assets \cup {root[s]}
  /\ UNCHANGED <<marker, active, known, runnerActive, slot, locks, tasks, stacks, req>>

\* A preferences request reaches the proxy, needs the application lock, holds it
\* while it stops the board exports, and is answered.
Arrive(r) ==
  /\ req[r].at = "none" /\ RunnerUp
  /\ \E s \in Task : "proxy" \in parts[s] /\ req' = [req EXCEPT ![r] = [at |-> "waits", on |-> s]]
  /\ UNCHANGED <<disk, runnerActive, slot, locks, tasks, stacks>>

LockApp(r) ==
  /\ req[r].at = "waits" /\ appLock = None
  /\ appLock' = r
  /\ req' = [req EXCEPT ![r].at = "holds"]
  /\ UNCHANGED <<disk, runnerActive, slot, switchLock, teardownLock, tasks, stacks>>

Answer(r) ==
  /\ req[r].at = "holds"
  /\ appLock' = None
  /\ req' = [req EXCEPT ![r] = [at |-> "none", on |-> None]]
  /\ UNCHANGED <<disk, runnerActive, slot, switchLock, teardownLock, tasks, stacks>>

Crash ==
  /\ pc[Main] # "idle"
  /\ ProcessEnds
  /\ UNCHANGED disk

\* Steps that return an error.  A failed boot drops what it had raised; a failed
\* start ends the process.
Fails == {"mark", "wipeDb", "wipeAssets", "wipeIndex", "record", "bootServices",
          "bootProxy", "clear"}

Fail(t) ==
  /\ pc[t] \in Fails
  /\ IF t = Main
     THEN ProcessEnds
     ELSE /\ Return(t)
          /\ parts' = [parts EXCEPT ![t] = IF pc[t] = "bootProxy" THEN {} ELSE @]
          /\ UNCHANGED <<runnerActive, slot, root, serversLeft, daemonsLeft, req>>
  /\ UNCHANGED disk

\* What a task has in its hands when it is dropped.
DroppedStacks(t) ==
  {s \in Task : s = taken[t] \/ (s = t /\ pc[t] \in {"bootProxy", "install"})}

\* The client of a POST /open hangs up and the handler is dropped where it
\* awaits, with the stack it was tearing down or raising.  It awaits the
\* application lock only when another holds it.  A supervisor that was already
\* stopping its children, or still starting them, leaves those it had in hand to
\* end by themselves; a daemon finishes its pass before it sees that it is to
\* stop.  The locks are free at once.
Cancel(t) ==
  /\ kind[t] = "open" /\ pc[t] \in CancelAt
  /\ pc[t] = "install" => appLock # None
  /\ Return(t)
  /\ parts' = [s \in Task |-> IF s \in DroppedStacks(t) THEN {} ELSE parts[s]]
  /\ serversLeft' = (serversLeft \/ pc[t] \in {"stopServices", "bootServices"})
  /\ daemonsLeft' = daemonsLeft \cup {root[s] : s \in {u \in DroppedStacks(t) : "daemon" \in parts[u]}}
  /\ UNCHANGED <<disk, runnerActive, slot, root, req>>

\* The last of those servers is gone.
ServersEnd ==
  /\ serversLeft
  /\ serversLeft' = FALSE
  /\ UNCHANGED <<disk, runnerActive, slot, locks, tasks, parts, root, daemonsLeft, req>>

\* A daemon that is left brings in what it had begun, if a stack answers it, and
\* ends.
FinishImport(v) ==
  /\ v \in daemonsLeft /\ \E s \in Task : Alive(s)
  /\ cluster' = cluster \cup {v}
  /\ assets' = assets \cup {v}
  /\ UNCHANGED <<marker, active, known, runnerActive, slot, locks, tasks, stacks, req>>

DaemonEnds(v) ==
  /\ v \in daemonsLeft
  /\ daemonsLeft' = daemonsLeft \ {v}
  /\ UNCHANGED <<disk, runnerActive, slot, locks, tasks, parts, root, serversLeft, req>>
-----------------------------------------------------------------------------
Init ==
  /\ marker = None /\ active = None /\ known = {}
  /\ cluster = {} /\ assets = {}
  /\ runnerActive = None /\ slot = None
  /\ switchLock = None /\ teardownLock = None /\ appLock = None
  /\ pc = [t \in Task |-> "idle"]
  /\ kind = [t \in Task |-> "none"]
  /\ target = [t \in Task |-> None]
  /\ taken = [t \in Task |-> None]
  /\ parts = [t \in Task |-> {}]
  /\ root = [t \in Task |-> None]
  /\ serversLeft = FALSE /\ daemonsLeft = {}
  /\ req = [r \in Request |-> [at |-> "none", on |-> None]]

\* What a task does of its own accord, once it has something to do: steps that
\* wait for a lock, and steps that do not.
Waits(t) == Begin(t) \/ LockTeardown(t) \/ TakeApp(t) \/ Install(t)

Works(t) ==
  \/ Mark(t) \/ StopDaemon(t) \/ Drain(t) \/ StopServices(t) \/ Stopped(t) \/ Exit(t)
  \/ WipeDb(t) \/ WipeAssets(t) \/ WipeIndex(t) \/ Record(t)
  \/ BootServices(t) \/ BootProxy(t) \/ Adopt(t) \/ Clear(t)

Next ==
  \/ Launch \/ Publish \/ Crash
  \/ \E t \in Task :
       \/ RequestSwitch(t) \/ RequestReboot(t) \/ RequestExit(t)
       \/ Waits(t) \/ Works(t)
       \/ Reconcile(t) \/ Fail(t) \/ Cancel(t)
  \/ \E r \in Request : Arrive(r) \/ LockApp(r) \/ Answer(r)
  \/ ServersEnd
  \/ \E v \in Vault : FinishImport(v) \/ DaemonEnds(v)

Spec == Init /\ [][Next]_vars

\* Tasks are polled until they finish, and the locks are first come, first
\* served.
Fairness ==
  /\ WF_vars(Publish)
  /\ \A t \in Task : SF_vars(Waits(t)) /\ WF_vars(Works(t))
  /\ \A r \in Request : SF_vars(LockApp(r)) /\ WF_vars(Answer(r))

FairSpec == Spec /\ Fairness
-----------------------------------------------------------------------------
Maybe(S) == S \cup {None}

TypeOK ==
  /\ marker \in Maybe(Vault) /\ active \in Maybe(Vault) /\ runnerActive \in Maybe(Vault)
  /\ known \subseteq Vault /\ cluster \subseteq Vault /\ assets \subseteq Vault
  /\ slot \in Maybe(Task) /\ switchLock \in Maybe(Task) /\ teardownLock \in Maybe(Task)
  /\ appLock \in Maybe(Task \cup Request)
  /\ pc \in [Task -> PC] /\ kind \in [Task -> Kind]
  /\ target \in [Task -> Maybe(Vault)] /\ taken \in [Task -> Maybe(Task)]
  /\ parts \in [Task -> SUBSET Part] /\ root \in [Task -> Maybe(Vault)]
  /\ serversLeft \in BOOLEAN /\ daemonsLeft \subseteq Vault
  /\ req \in [Request -> [at : {"none", "waits", "holds"}, on : Maybe(Task)]]

\* A daemon only ever works on a database that is empty or its own vault's:
\* otherwise its first poll exports the other vault's files into its folder
\* (reset_disposable_state before every boot that changes vaults).  So does one
\* that a dropped switch has left behind, while a stack answers it.
NoSpill ==
  /\ \A s \in Task : "daemon" \in parts[s] => cluster \cup assets \subseteq {root[s]}
  /\ \A v \in daemonsLeft :
       (\E s \in Task : Alive(s)) => cluster \cup assets \subseteq {v}

\* The state is wiped, or a stack is about to be raised.
Clearing(t) == pc[t] \in {"wipeDb", "wipeAssets", "wipeIndex", "record", "bootServices"}

\* No stack is up while the state is wiped or a boot begins - neither in the slot
\* nor in the hands of another teardown - so no database runs over the files that
\* go: the claim shutdown's teardown lock is there for.
Alone == \A t \in Task : Clearing(t) => \A s \in Task : ~Alive(s)

\* Nor is there a server of an earlier stack: what shutdown's comment says, and
\* what a dropped switch breaks (servers_left).
NobodyLeft == Alone /\ \A t \in Task : Clearing(t) => ~serversLeft

\* Whatever is on disk, the next start can tell whose the database is: with no
\* marker it belongs to the registry's active vault.  This is what lets a start
\* without a marker keep it.
MarkerCovers == marker = None => cluster \cup assets \subseteq {active}

\* The active vault is in the list, also when a copied folder shares its id
\* with the vault it replaces (upsert, then active_ref).
ActiveKnown == active # None => active \in known

\* The registry is consistent, and when no operation runs and none is owed,
\* the stack, the runner and the registry agree on the open vault.
Settled ==
  /\ ActiveKnown
  /\ (RunnerUp /\ marker = None /\ (\A t \in Task : ~Running(t)) /\ slot # None)
       => root[slot] = runnerActive /\ runnerActive = active

\* Every operation ends: no lock, and no request being drained, stops it for
\* ever (the argument of shutdown's comment).
Ends == \A t \in Task : Running(t) ~> ~Running(t)

\* The promise: see OneVault.
Promise == INSTANCE OneVault WITH
  data <- cluster \cup assets,
  open <- {root[s] : s \in {u \in Task : Alive(u)}}
OneVaultAtATime == Promise!Spec
=============================================================================
