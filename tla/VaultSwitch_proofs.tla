--------------------------- MODULE VaultSwitch_proofs ---------------------------
(***************************************************************************)
(* The vault runner's safety for any number of vaults, tasks and requests. *)
(* Typing, WipedAlone and Settles hold of the program as it is; NobodyElse *)
(* leaves out requests dropped while their services stop or start.         *)
(* NeverSpills, DiskTells and KeepsPromise assume a closed system: the     *)
(* environment names no vault, and no switch is dropped where its complete *)
(* stack waits to be installed.  Without any of these the program does     *)
(* otherwise (servers_left, env_over_switch and cancel_at_install).        *)
(*                                                                         *)
(* The inductive invariant IInv is a conjunction of named parts; there is  *)
(* a lemma for each part, with the parts it rests on as assumptions and a  *)
(* step for each group of actions.                                         *)
(***************************************************************************)
EXTENDS VaultSwitch, TLAPS

\* The system is closed: no vault from the environment, no client that leaves at
\* the installation.
Closed == Envs = {None} /\ "install" \notin CancelAt

\* Operations that change vaults, and what they may not mix.
Switching(t) == kind[t] \in {"switch", "open"}
Data == cluster \cup assets

\* Parts of an operation: the teardown, the closed state, the new stack.
Stopping == {"stopDaemon", "drain", "stopServices"}
Past == {"stopped", "wipeDb", "wipeAssets", "wipeIndex", "record", "bootServices"}
Booting == {"bootProxy", "install", "adopt", "clear"}

\* What each kind of task can be at.
Kinds ==
  /\ \A t \in Task : kind[t] = "none" <=> pc[t] \in {"idle", "up"}
  /\ kind[Main] \in {"none", "start", "recover"}
  /\ pc[Main] \in {"idle", "up", "wipeDb", "wipeAssets", "wipeIndex", "record",
                   "bootServices", "bootProxy", "clear", "install"}
  /\ pc[Main] \in {"wipeDb", "wipeAssets", "wipeIndex", "clear"} => kind[Main] = "recover"
  /\ \A t \in Worker :
       /\ kind[t] \in StackOp \cup {"exit", "none"} /\ pc[t] # "up"
       /\ kind[t] = "exit" => pc[t] \in {"teardown", "take", "stopped"} \cup Stopping
       /\ kind[t] = "reboot" => pc[t] \notin {"mark", "wipeDb", "wipeAssets", "wipeIndex",
                                             "record", "adopt", "clear"}

\* Before there is a runner there is nothing but the start.
Starting ==
  ~RunnerUp =>
    /\ slot = None
    /\ \A t \in Worker : pc[t] = "idle" /\ parts[t] = {}
    /\ parts[Main] # {} => pc[Main] \in Booting

\* Who holds which lock, and who has a stack in his hands.
Holders ==
  /\ \A t \in Worker : kind[t] \in StackOp /\ pc[t] # "lock" => switchLock = t
  /\ \A t \in Task : pc[t] \in {"take", "stopped"} \cup Stopping => teardownLock = t
  /\ \A t \in Task : taken[t] # None <=> pc[t] \in Stopping

\* A stack that runs is in the slot, in the hands of who stops it, or of who
\* raises it.
Placed ==
  \A s \in Task : parts[s] # {} =>
    \/ slot = s \/ (\E t \in Task : taken[t] = s)
    \/ pc[s] \in {"bootProxy", "install"} \/ (s = Main /\ pc[s] = "clear")

\* From the teardown to the boot the slot is empty ...
SlotFree ==
  \A t \in Worker :
    kind[t] \in StackOp /\ pc[t] \in Stopping \cup Past \cup {"bootProxy", "install"}
      => slot = None

\* ... then nothing runs, and then nothing but the new stack.
Sole ==
  /\ \A t \in Task : kind[t] # "exit" /\ pc[t] \in Past => \A s \in Task : parts[s] = {}
  /\ \A t \in Task : pc[t] \in Booting => \A s \in Task : s # t => parts[s] = {}
  /\ \A t \in Task : pc[t] = "bootProxy" => "daemon" \notin parts[t]

\* Which vault an operation means, and that every running stack has one.
Targets ==
  /\ \A s \in Task : parts[s] # {} => root[s] \in Vault
  /\ \A t \in Task : kind[t] \in {"switch", "open", "start", "recover"} => target[t] \in Vault
  /\ RunnerUp => runnerActive \in Vault
  /\ \A t \in Worker : kind[t] = "reboot" /\ pc[t] # "lock" => target[t] = runnerActive
  /\ \A t \in Task : pc[t] \in Booting => root[t] = target[t]
  /\ \A t \in Worker : Switching(t) /\ pc[t] = "clear" => target[t] = runnerActive

\* A stack runs over the runner's vault, unless a switch has just raised it.
Roots ==
  \A s \in Task :
    RunnerUp /\ parts[s] # {} /\ ~(Switching(s) /\ pc[s] \in {"bootProxy", "install", "adopt"})
      => root[s] = runnerActive

\* What an operation knows of the disposable state.
Holdings ==
  /\ \A t \in Task : pc[t] = "wipeAssets" => cluster = {}
  /\ \A t \in Task :
       /\ Switching(t) \/ kind[t] = "recover"
       /\ pc[t] \in {"wipeIndex", "record", "bootServices", "bootProxy"}
       => Data = {}
  /\ \A t \in Worker :
       Switching(t) /\ pc[t] \in {"install", "adopt", "clear"} => Data \subseteq {target[t]}
  /\ kind[Main] = "start" \/ pc[Main] \in {"clear", "install"} => Data \subseteq {target[Main]}

\* It is the runner's, unless a switch has just raised its stack.
Owned ==
  RunnerUp => \/ Data \subseteq {runnerActive}
              \/ \E t \in Worker : Switching(t) /\ pc[t] \in {"install", "adopt"}

\* A daemon that a dropped switch left behind is of the runner's vault, and gone
\* with its database once the next switch has wiped that.
LeftOver ==
  /\ ~RunnerUp => daemonsLeft = {}
  /\ \A v \in daemonsLeft : v = runnerActive
  /\ \A t \in Worker :
       /\ Switching(t)
       /\ pc[t] \in {"wipeAssets", "wipeIndex", "record", "bootServices", "bootProxy",
                    "install", "adopt"}
       => daemonsLeft = {}

\* What the disk says about it.
Records ==
  /\ \A t \in Worker : Switching(t) /\ pc[t] \notin {"lock", "mark"} => marker # None
  /\ kind[Main] = "recover" /\ pc[Main] # "install" => marker # None
  /\ kind[Main] = "start" => marker = None
  /\ \A t \in Worker : Switching(t) /\ pc[t] \in {"bootServices"} \cup Booting => active = target[t]
  /\ pc[Main] \in {"bootServices"} \cup Booting => active = target[Main]
  /\ RunnerUp /\ marker = None => active = runnerActive

\* The slot's stack is over the runner's vault, unless a switch has just put it
\* there and has not told the runner yet; nobody else's is there meanwhile.
SlotTells ==
  /\ \A t \in Task : pc[t] = "adopt" => slot \in {t, None}
  /\ slot # None /\ pc[slot] # "adopt" => root[slot] = runnerActive

\* There is at most one stack, whole down to its services, and the disposable
\* state is at most one vault's.
Single ==
  /\ \A s, u \in Task : parts[s] # {} /\ parts[u] # {} => s = u
  /\ \A s \in Task : parts[s] # {} => Alive(s)
  /\ \A x, y \in Data : x = y

\* What holds whatever the environment and the clients do ...
Control == TypeOK /\ Kinds /\ Starting /\ Holders /\ Targets
Order == Control /\ Placed /\ SlotFree /\ Sole /\ Records

\* ... and what takes a closed system.
IInv == Order /\ Roots /\ Holdings /\ LeftOver /\ Owned /\ MarkerCovers /\ Single
-----------------------------------------------------------------------------
\* Every step keeps the types.
LEMMA TypeOKStep ==
  ASSUME TypeOK, Kinds, Starting, Targets, [Next]_vars
  PROVE  TypeOK'
<1> USE SwitchAssumption, CancelAssumption DEF Booting, Data, Go, Kind, Maybe, PC, Part, Past,
      RunnerUp, StackOp, Stopping, Switching, Task, TypeOK, Kinds, Starting, Targets
<1>1. CASE Launch \/ Publish
  BY <1>1 DEF Launch, Publish, disk, locks, stacks, DecideStartup, WipesDisposableState
<1>2. CASE Crash
  BY <1>2 DEF Crash, disk, ProcessEnds
<1>3. ASSUME NEW t \in Task, RequestSwitch(t) \/ RequestReboot(t) \/ RequestExit(t)
      PROVE  TypeOK'
  BY <1>3 DEF RequestSwitch, RequestReboot, RequestExit, disk, locks, stacks
<1>4. ASSUME NEW t \in Task, Begin(t) \/ LockTeardown(t) \/ Mark(t)
      PROVE  TypeOK'
  BY <1>4 DEF Begin, LockTeardown, Mark, disk, stacks, WritesSwitchMarker, locks
<1>5. ASSUME NEW t \in Task, TakeApp(t)
      PROVE  TypeOK'
  BY <1>5 DEF TakeApp, disk, HolderAfterTake
<1>6. ASSUME NEW t \in Task, StopDaemon(t) \/ Drain(t) \/ StopServices(t) \/ Stopped(t)
      PROVE  TypeOK'
  BY <1>6 DEF StopDaemon, Drain, StopServices, Stopped, disk, locks, stacks, Dropped,
    WipesDisposableState
<1>7. ASSUME NEW t \in Task, Exit(t)
      PROVE  TypeOK'
  BY <1>7 DEF Exit, disk, ProcessEnds
<1>8. ASSUME NEW t \in Task, WipeDb(t) \/ WipeAssets(t) \/ WipeIndex(t) \/ Record(t)
      PROVE  TypeOK'
  BY <1>8 DEF WipeDb, WipeAssets, WipeIndex, Record, locks, stacks, disk, Recorded, Upsert
<1>9. ASSUME NEW t \in Task, BootServices(t) \/ BootProxy(t)
      PROVE  TypeOK'
  BY <1>9 DEF BootServices, BootProxy, disk, locks
<1>10. ASSUME NEW t \in Task, Install(t)
       PROVE  TypeOK'
  BY <1>10 DEF Install, disk, stacks, locks, Return, Dropped
<1>11. ASSUME NEW t \in Task, Adopt(t) \/ Clear(t)
       PROVE  TypeOK'
  BY <1>11 DEF Adopt, Clear, disk, stacks, locks, Return, Dropped
<1>12. ASSUME NEW t \in Task, Reconcile(t)
       PROVE  TypeOK'
  BY <1>12 DEF Reconcile, stacks, locks, tasks
<1>13. ASSUME NEW t \in Task, Fail(t)
       PROVE  TypeOK'
  <2>1. CASE t = Main
    <3>1. ProcessEnds /\ UNCHANGED disk
      BY <1>13, <2>1 DEF Fail
    <3> QED BY <3>1 DEF disk, ProcessEnds
  <2>2. CASE t # Main
    <3>1. parts' \in [Task -> SUBSET Part] /\ UNCHANGED <<root, serversLeft, daemonsLeft, req>>
      BY <1>13, <2>2 DEF Fail
    <3> QED BY <1>13, <2>2, <3>1 DEF Fail, disk, Return, Dropped
  <2> QED BY <2>1, <2>2
<1>14. ASSUME NEW t \in Task, Cancel(t)
       PROVE  TypeOK'
  <2>1. daemonsLeft' \subseteq Vault
    BY <1>14 DEF Cancel, DroppedStacks
  <2>2. serversLeft' \in BOOLEAN
    BY <1>14 DEF Cancel
  <2>3. parts' \in [Task -> SUBSET Part]
    BY <1>14 DEF Cancel
  <2> QED BY <1>14, <2>1, <2>2, <2>3 DEF Cancel, disk, Return, Dropped
<1>15. ASSUME NEW r \in Request, Arrive(r) \/ LockApp(r) \/ Answer(r)
       PROVE  TypeOK'
  BY <1>15 DEF Arrive, LockApp, Answer, disk, locks, stacks, tasks
<1>16. CASE UNCHANGED vars
  BY <1>16 DEF vars, disk, locks, tasks, stacks
<1>17. CASE ServersEnd \/ \E v \in Vault : FinishImport(v) \/ DaemonEnds(v)
  BY <1>17 DEF ServersEnd, FinishImport, DaemonEnds, disk, locks, tasks, stacks
<1> QED BY <1>1, <1>2, <1>3, <1>4, <1>5, <1>6, <1>7, <1>8, <1>9, <1>10, <1>11, <1>12, <1>13,
    <1>14, <1>15, <1>16, <1>17 DEF Next, Waits, Works

\* A task is only where its kind of operation leads.
LEMMA KindsStep ==
  ASSUME TypeOK, Kinds, [Next]_vars
  PROVE  Kinds'
<1> USE SwitchAssumption, CancelAssumption DEF Booting, Data, Go, Kind, Maybe, PC, Part, Past,
      RunnerUp, StackOp, Stopping, Switching, Task, TypeOK, Kinds
<1>1. CASE Launch \/ Publish
  BY <1>1 DEF Launch, Publish, disk, locks, stacks, DecideStartup, WipesDisposableState
<1>2. CASE Crash
  BY <1>2 DEF Crash, disk, ProcessEnds
<1>3. ASSUME NEW t \in Task, RequestSwitch(t) \/ RequestReboot(t) \/ RequestExit(t)
      PROVE  Kinds'
  BY <1>3 DEF RequestSwitch, RequestReboot, RequestExit, disk, locks, stacks
<1>4. ASSUME NEW t \in Task, Begin(t) \/ LockTeardown(t) \/ Mark(t)
      PROVE  Kinds'
  BY <1>4 DEF Begin, LockTeardown, Mark, disk, stacks, WritesSwitchMarker, locks
<1>5. ASSUME NEW t \in Task, TakeApp(t)
      PROVE  Kinds'
  BY <1>5 DEF TakeApp, disk, HolderAfterTake
<1>6. ASSUME NEW t \in Task, StopDaemon(t) \/ Drain(t) \/ StopServices(t) \/ Stopped(t)
      PROVE  Kinds'
  BY <1>6 DEF StopDaemon, Drain, StopServices, Stopped, disk, locks, stacks, Dropped,
    WipesDisposableState
<1>7. ASSUME NEW t \in Task, Exit(t)
      PROVE  Kinds'
  BY <1>7 DEF Exit, disk, ProcessEnds
<1>8. ASSUME NEW t \in Task, WipeDb(t) \/ WipeAssets(t) \/ WipeIndex(t) \/ Record(t)
      PROVE  Kinds'
  BY <1>8 DEF WipeDb, WipeAssets, WipeIndex, Record, locks, stacks, disk, Recorded, Upsert
<1>9. ASSUME NEW t \in Task, BootServices(t) \/ BootProxy(t)
      PROVE  Kinds'
  BY <1>9 DEF BootServices, BootProxy, disk, locks
<1>10. ASSUME NEW t \in Task, Install(t)
       PROVE  Kinds'
  BY <1>10 DEF Install, disk, stacks, locks, Return, Dropped
<1>11. ASSUME NEW t \in Task, Adopt(t) \/ Clear(t)
       PROVE  Kinds'
  BY <1>11 DEF Adopt, Clear, disk, stacks, locks, Return, Dropped
<1>12. ASSUME NEW t \in Task, Reconcile(t)
       PROVE  Kinds'
  BY <1>12 DEF Reconcile, stacks, locks, tasks
<1>13. ASSUME NEW t \in Task, Fail(t)
       PROVE  Kinds'
  BY <1>13 DEF Fail, disk, ProcessEnds, Return, Dropped, Fails
<1>14. ASSUME NEW t \in Task, Cancel(t)
       PROVE  Kinds'
  BY <1>14 DEF Cancel, DroppedStacks, disk, Return, Dropped
<1>15. ASSUME NEW r \in Request, Arrive(r) \/ LockApp(r) \/ Answer(r)
       PROVE  Kinds'
  BY <1>15 DEF Arrive, LockApp, Answer, disk, locks, stacks, tasks
<1>16. CASE UNCHANGED vars
  BY <1>16 DEF vars, disk, locks, tasks, stacks
<1>17. CASE ServersEnd \/ \E v \in Vault : FinishImport(v) \/ DaemonEnds(v)
  BY <1>17 DEF ServersEnd, FinishImport, DaemonEnds, disk, locks, tasks, stacks
<1> QED BY <1>1, <1>2, <1>3, <1>4, <1>5, <1>6, <1>7, <1>8, <1>9, <1>10, <1>11, <1>12, <1>13,
    <1>14, <1>15, <1>16, <1>17 DEF Next, Waits, Works

\* Until the start publishes the runner, no worker does anything.
LEMMA StartingStep ==
  ASSUME TypeOK, Kinds, Starting, [Next]_vars
  PROVE  Starting'
<1> USE SwitchAssumption, CancelAssumption DEF Booting, Data, Go, Kind, Maybe, PC, Part, Past,
      RunnerUp, StackOp, Stopping, Switching, Task, TypeOK, Kinds, Starting
<1>1. CASE Launch \/ Publish
  BY <1>1 DEF Launch, Publish, disk, locks, stacks, DecideStartup, WipesDisposableState
<1>2. CASE Crash
  BY <1>2 DEF Crash, disk, ProcessEnds
<1>3. ASSUME NEW t \in Task, RequestSwitch(t) \/ RequestReboot(t) \/ RequestExit(t)
      PROVE  Starting'
  BY <1>3 DEF RequestSwitch, RequestReboot, RequestExit, disk, locks, stacks
<1>4. ASSUME NEW t \in Task, Begin(t) \/ LockTeardown(t) \/ Mark(t)
      PROVE  Starting'
  BY <1>4 DEF Begin, LockTeardown, Mark, disk, stacks, WritesSwitchMarker, locks
<1>5. ASSUME NEW t \in Task, TakeApp(t)
      PROVE  Starting'
  BY <1>5 DEF TakeApp, disk, HolderAfterTake
<1>6. ASSUME NEW t \in Task, StopDaemon(t) \/ Drain(t) \/ StopServices(t) \/ Stopped(t)
      PROVE  Starting'
  BY <1>6 DEF StopDaemon, Drain, StopServices, Stopped, disk, locks, stacks, Dropped,
    WipesDisposableState
<1>7. ASSUME NEW t \in Task, Exit(t)
      PROVE  Starting'
  BY <1>7 DEF Exit, disk, ProcessEnds
<1>8. ASSUME NEW t \in Task, WipeDb(t) \/ WipeAssets(t) \/ WipeIndex(t) \/ Record(t)
      PROVE  Starting'
  BY <1>8 DEF WipeDb, WipeAssets, WipeIndex, Record, locks, stacks, disk, Recorded, Upsert
<1>9. ASSUME NEW t \in Task, BootServices(t) \/ BootProxy(t)
      PROVE  Starting'
  BY <1>9 DEF BootServices, BootProxy, disk, locks
<1>10. ASSUME NEW t \in Task, Install(t)
       PROVE  Starting'
  BY <1>10 DEF Install, disk, stacks, locks, Return, Dropped
<1>11. ASSUME NEW t \in Task, Adopt(t) \/ Clear(t)
       PROVE  Starting'
  BY <1>11 DEF Adopt, Clear, disk, stacks, locks, Return, Dropped
<1>12. ASSUME NEW t \in Task, Reconcile(t)
       PROVE  Starting'
  BY <1>12 DEF Reconcile, stacks, locks, tasks
<1>13. ASSUME NEW t \in Task, Fail(t)
       PROVE  Starting'
  BY <1>13 DEF Fail, disk, ProcessEnds, Return, Dropped, Fails
<1>14. ASSUME NEW t \in Task, Cancel(t)
       PROVE  Starting'
  BY <1>14 DEF Cancel, DroppedStacks, disk, Return, Dropped
<1>15. ASSUME NEW r \in Request, Arrive(r) \/ LockApp(r) \/ Answer(r)
       PROVE  Starting'
  BY <1>15 DEF Arrive, LockApp, Answer, disk, locks, stacks, tasks
<1>16. CASE UNCHANGED vars
  BY <1>16 DEF vars, disk, locks, tasks, stacks
<1>17. CASE ServersEnd \/ \E v \in Vault : FinishImport(v) \/ DaemonEnds(v)
  BY <1>17 DEF ServersEnd, FinishImport, DaemonEnds, disk, locks, tasks, stacks
<1> QED BY <1>1, <1>2, <1>3, <1>4, <1>5, <1>6, <1>7, <1>8, <1>9, <1>10, <1>11, <1>12, <1>13,
    <1>14, <1>15, <1>16, <1>17 DEF Next, Waits, Works

\* Locks are held for as long as the code says.
LEMMA HoldersStep ==
  ASSUME TypeOK, Holders, [Next]_vars
  PROVE  Holders'
<1> USE SwitchAssumption, CancelAssumption DEF Booting, Data, Go, Kind, Maybe, PC, Part, Past,
      RunnerUp, StackOp, Stopping, Switching, Task, TypeOK, Holders
<1>1. CASE Launch \/ Publish
  BY <1>1 DEF Launch, Publish, disk, locks, stacks, DecideStartup, WipesDisposableState
<1>2. CASE Crash
  BY <1>2 DEF Crash, disk, ProcessEnds
<1>3. ASSUME NEW t \in Task, RequestSwitch(t) \/ RequestReboot(t) \/ RequestExit(t)
      PROVE  Holders'
  BY <1>3 DEF RequestSwitch, RequestReboot, RequestExit, disk, locks, stacks
<1>4. ASSUME NEW t \in Task, Begin(t) \/ LockTeardown(t) \/ Mark(t)
      PROVE  Holders'
  BY <1>4 DEF Begin, LockTeardown, Mark, disk, stacks, WritesSwitchMarker, locks
<1>5. ASSUME NEW t \in Task, TakeApp(t)
      PROVE  Holders'
  BY <1>5 DEF TakeApp, disk, HolderAfterTake
<1>6. ASSUME NEW t \in Task, StopDaemon(t) \/ Drain(t) \/ StopServices(t) \/ Stopped(t)
      PROVE  Holders'
  BY <1>6 DEF StopDaemon, Drain, StopServices, Stopped, disk, locks, stacks, Dropped,
    WipesDisposableState
<1>7. ASSUME NEW t \in Task, Exit(t)
      PROVE  Holders'
  BY <1>7 DEF Exit, disk, ProcessEnds
<1>8. ASSUME NEW t \in Task, WipeDb(t) \/ WipeAssets(t) \/ WipeIndex(t) \/ Record(t)
      PROVE  Holders'
  BY <1>8 DEF WipeDb, WipeAssets, WipeIndex, Record, locks, stacks, disk, Recorded, Upsert
<1>9. ASSUME NEW t \in Task, BootServices(t) \/ BootProxy(t)
      PROVE  Holders'
  BY <1>9 DEF BootServices, BootProxy, disk, locks
<1>10. ASSUME NEW t \in Task, Install(t)
       PROVE  Holders'
  BY <1>10 DEF Install, disk, stacks, locks, Return, Dropped
<1>11. ASSUME NEW t \in Task, Adopt(t) \/ Clear(t)
       PROVE  Holders'
  BY <1>11 DEF Adopt, Clear, disk, stacks, locks, Return, Dropped
<1>12. ASSUME NEW t \in Task, Reconcile(t)
       PROVE  Holders'
  BY <1>12 DEF Reconcile, stacks, locks, tasks
<1>13. ASSUME NEW t \in Task, Fail(t)
       PROVE  Holders'
  BY <1>13 DEF Fail, disk, ProcessEnds, Return, Dropped, Fails
<1>14. ASSUME NEW t \in Task, Cancel(t)
       PROVE  Holders'
  BY <1>14 DEF Cancel, DroppedStacks, disk, Return, Dropped
<1>15. ASSUME NEW r \in Request, Arrive(r) \/ LockApp(r) \/ Answer(r)
       PROVE  Holders'
  BY <1>15 DEF Arrive, LockApp, Answer, disk, locks, stacks, tasks
<1>16. CASE UNCHANGED vars
  BY <1>16 DEF vars, disk, locks, tasks, stacks
<1>17. CASE ServersEnd \/ \E v \in Vault : FinishImport(v) \/ DaemonEnds(v)
  BY <1>17 DEF ServersEnd, FinishImport, DaemonEnds, disk, locks, tasks, stacks
<1> QED BY <1>1, <1>2, <1>3, <1>4, <1>5, <1>6, <1>7, <1>8, <1>9, <1>10, <1>11, <1>12, <1>13,
    <1>14, <1>15, <1>16, <1>17 DEF Next, Waits, Works

\* The target of an operation outlives its steps; a start decides on a vault.
LEMMA TargetsStep ==
  ASSUME TypeOK, Kinds, Starting, Holders, Targets, [Next]_vars
  PROVE  Targets'
<1> USE SwitchAssumption, CancelAssumption DEF Booting, Data, Go, Kind, Maybe, PC, Part, Past,
      RunnerUp, StackOp, Stopping, Switching, Task, TypeOK, Kinds, Starting, Holders, Targets
<1>1. CASE Launch \/ Publish
  BY <1>1 DEF Launch, Publish, disk, locks, stacks, DecideStartup, WipesDisposableState
<1>2. CASE Crash
  BY <1>2 DEF Crash, disk, ProcessEnds
<1>3. ASSUME NEW t \in Task, RequestSwitch(t) \/ RequestReboot(t) \/ RequestExit(t)
      PROVE  Targets'
  BY <1>3 DEF RequestSwitch, RequestReboot, RequestExit, disk, locks, stacks
<1>4. ASSUME NEW t \in Task, Begin(t) \/ LockTeardown(t) \/ Mark(t)
      PROVE  Targets'
  BY <1>4 DEF Begin, LockTeardown, Mark, disk, stacks, WritesSwitchMarker, locks
<1>5. ASSUME NEW t \in Task, TakeApp(t)
      PROVE  Targets'
  <2>1. \A s \in Task : parts'[s] # {} => parts[s] # {}
    BY <1>5 DEF TakeApp
  <2>2. UNCHANGED <<root, kind, target, runnerActive>>
    BY <1>5 DEF TakeApp
  <2>3. \A s \in Task : \/ s # t /\ pc'[s] = pc[s]
                        \/ s = t /\ pc[s] = "take" /\ pc'[s] \in {"stopped", "stopDaemon"}
    BY <1>5 DEF TakeApp
  <2> QED BY <2>1, <2>2, <2>3
<1>6. ASSUME NEW t \in Task, StopDaemon(t) \/ Drain(t) \/ StopServices(t) \/ Stopped(t)
      PROVE  Targets'
  BY <1>6 DEF StopDaemon, Drain, StopServices, Stopped, disk, locks, stacks, Dropped,
    WipesDisposableState
<1>7. ASSUME NEW t \in Task, Exit(t)
      PROVE  Targets'
  BY <1>7 DEF Exit, disk, ProcessEnds
<1>8. ASSUME NEW t \in Task, WipeDb(t) \/ WipeAssets(t) \/ WipeIndex(t) \/ Record(t)
      PROVE  Targets'
  BY <1>8 DEF WipeDb, WipeAssets, WipeIndex, Record, locks, stacks, disk, Recorded, Upsert
<1>9. ASSUME NEW t \in Task, BootServices(t) \/ BootProxy(t)
      PROVE  Targets'
  BY <1>9 DEF BootServices, BootProxy, disk, locks
<1>10. ASSUME NEW t \in Task, Install(t)
       PROVE  Targets'
  BY <1>10 DEF Install, disk, stacks, locks, Return, Dropped
<1>11. ASSUME NEW t \in Task, Adopt(t) \/ Clear(t)
       PROVE  Targets'
  BY <1>11 DEF Adopt, Clear, disk, stacks, locks, Return, Dropped
<1>12. ASSUME NEW t \in Task, Reconcile(t)
       PROVE  Targets'
  BY <1>12 DEF Reconcile, stacks, locks, tasks
<1>13. ASSUME NEW t \in Task, Fail(t)
       PROVE  Targets'
  BY <1>13 DEF Fail, disk, ProcessEnds, Return, Dropped, Fails
<1>14. ASSUME NEW t \in Task, Cancel(t)
       PROVE  Targets'
  BY <1>14 DEF Cancel, DroppedStacks, disk, Return, Dropped
<1>15. ASSUME NEW r \in Request, Arrive(r) \/ LockApp(r) \/ Answer(r)
       PROVE  Targets'
  BY <1>15 DEF Arrive, LockApp, Answer, disk, locks, stacks, tasks
<1>16. CASE UNCHANGED vars
  BY <1>16 DEF vars, disk, locks, tasks, stacks
<1>17. CASE ServersEnd \/ \E v \in Vault : FinishImport(v) \/ DaemonEnds(v)
  BY <1>17 DEF ServersEnd, FinishImport, DaemonEnds, disk, locks, tasks, stacks
<1> QED BY <1>1, <1>2, <1>3, <1>4, <1>5, <1>6, <1>7, <1>8, <1>9, <1>10, <1>11, <1>12, <1>13,
    <1>14, <1>15, <1>16, <1>17 DEF Next, Waits, Works

\* No stack runs out of reach of the next teardown.
LEMMA PlacedStep ==
  ASSUME TypeOK, Kinds, Starting, Holders, Placed, SlotFree, [Next]_vars
  PROVE  Placed'
<1> USE SwitchAssumption, CancelAssumption DEF Booting, Data, Go, Kind, Maybe, PC, Part, Past,
      RunnerUp, StackOp, Stopping, Switching, Task, TypeOK, Kinds, Starting, Holders, Placed,
      SlotFree
<1>1. CASE Launch \/ Publish
  BY <1>1 DEF Launch, Publish, disk, locks, stacks, DecideStartup, WipesDisposableState
<1>2. CASE Crash
  BY <1>2 DEF Crash, disk, ProcessEnds
<1>3. ASSUME NEW t \in Task, RequestSwitch(t) \/ RequestReboot(t) \/ RequestExit(t)
      PROVE  Placed'
  BY <1>3 DEF RequestSwitch, RequestReboot, RequestExit, disk, locks, stacks
<1>4. ASSUME NEW t \in Task, Begin(t) \/ LockTeardown(t) \/ Mark(t)
      PROVE  Placed'
  BY <1>4 DEF Begin, LockTeardown, Mark, disk, stacks, WritesSwitchMarker, locks
<1>5. ASSUME NEW t \in Task, TakeApp(t)
      PROVE  Placed'
  BY <1>5 DEF TakeApp, disk, HolderAfterTake
<1>6. ASSUME NEW t \in Task, StopDaemon(t) \/ Drain(t) \/ StopServices(t) \/ Stopped(t)
      PROVE  Placed'
  BY <1>6 DEF StopDaemon, Drain, StopServices, Stopped, disk, locks, stacks, Dropped,
    WipesDisposableState
<1>7. ASSUME NEW t \in Task, Exit(t)
      PROVE  Placed'
  BY <1>7 DEF Exit, disk, ProcessEnds
<1>8. ASSUME NEW t \in Task, WipeDb(t) \/ WipeAssets(t) \/ WipeIndex(t) \/ Record(t)
      PROVE  Placed'
  BY <1>8 DEF WipeDb, WipeAssets, WipeIndex, Record, locks, stacks, disk, Recorded, Upsert
<1>9. ASSUME NEW t \in Task, BootServices(t) \/ BootProxy(t)
      PROVE  Placed'
  BY <1>9 DEF BootServices, BootProxy, disk, locks
<1>10. ASSUME NEW t \in Task, Install(t)
       PROVE  Placed'
  BY <1>10 DEF Install, disk, stacks, locks, Return, Dropped
<1>11. ASSUME NEW t \in Task, Adopt(t) \/ Clear(t)
       PROVE  Placed'
  BY <1>11 DEF Adopt, Clear, disk, stacks, locks, Return, Dropped
<1>12. ASSUME NEW t \in Task, Reconcile(t)
       PROVE  Placed'
  BY <1>12 DEF Reconcile, stacks, locks, tasks
<1>13. ASSUME NEW t \in Task, Fail(t)
       PROVE  Placed'
  BY <1>13 DEF Fail, disk, ProcessEnds, Return, Dropped, Fails
<1>14. ASSUME NEW t \in Task, Cancel(t)
       PROVE  Placed'
  BY <1>14 DEF Cancel, DroppedStacks, disk, Return, Dropped
<1>15. ASSUME NEW r \in Request, Arrive(r) \/ LockApp(r) \/ Answer(r)
       PROVE  Placed'
  BY <1>15 DEF Arrive, LockApp, Answer, disk, locks, stacks, tasks
<1>16. CASE UNCHANGED vars
  BY <1>16 DEF vars, disk, locks, tasks, stacks
<1>17. CASE ServersEnd \/ \E v \in Vault : FinishImport(v) \/ DaemonEnds(v)
  BY <1>17 DEF ServersEnd, FinishImport, DaemonEnds, disk, locks, tasks, stacks
<1> QED BY <1>1, <1>2, <1>3, <1>4, <1>5, <1>6, <1>7, <1>8, <1>9, <1>10, <1>11, <1>12, <1>13,
    <1>14, <1>15, <1>16, <1>17 DEF Next, Waits, Works

\* The slot stays empty from the teardown on: only the holder of the switch lock fills it.
LEMMA SlotFreeStep ==
  ASSUME TypeOK, Kinds, Starting, Holders, SlotFree, [Next]_vars
  PROVE  SlotFree'
<1> USE SwitchAssumption, CancelAssumption DEF Booting, Data, Go, Kind, Maybe, PC, Part, Past,
      RunnerUp, StackOp, Stopping, Switching, Task, TypeOK, Kinds, Starting, Holders, SlotFree
<1>1. CASE Launch \/ Publish
  BY <1>1 DEF Launch, Publish, disk, locks, stacks, DecideStartup, WipesDisposableState
<1>2. CASE Crash
  BY <1>2 DEF Crash, disk, ProcessEnds
<1>3. ASSUME NEW t \in Task, RequestSwitch(t) \/ RequestReboot(t) \/ RequestExit(t)
      PROVE  SlotFree'
  BY <1>3 DEF RequestSwitch, RequestReboot, RequestExit, disk, locks, stacks
<1>4. ASSUME NEW t \in Task, Begin(t) \/ LockTeardown(t) \/ Mark(t)
      PROVE  SlotFree'
  BY <1>4 DEF Begin, LockTeardown, Mark, disk, stacks, WritesSwitchMarker, locks
<1>5. ASSUME NEW t \in Task, TakeApp(t)
      PROVE  SlotFree'
  BY <1>5 DEF TakeApp, disk, HolderAfterTake
<1>6. ASSUME NEW t \in Task, StopDaemon(t) \/ Drain(t) \/ StopServices(t) \/ Stopped(t)
      PROVE  SlotFree'
  BY <1>6 DEF StopDaemon, Drain, StopServices, Stopped, disk, locks, stacks, Dropped,
    WipesDisposableState
<1>7. ASSUME NEW t \in Task, Exit(t)
      PROVE  SlotFree'
  BY <1>7 DEF Exit, disk, ProcessEnds
<1>8. ASSUME NEW t \in Task, WipeDb(t) \/ WipeAssets(t) \/ WipeIndex(t) \/ Record(t)
      PROVE  SlotFree'
  BY <1>8 DEF WipeDb, WipeAssets, WipeIndex, Record, locks, stacks, disk, Recorded, Upsert
<1>9. ASSUME NEW t \in Task, BootServices(t) \/ BootProxy(t)
      PROVE  SlotFree'
  BY <1>9 DEF BootServices, BootProxy, disk, locks
<1>10. ASSUME NEW t \in Task, Install(t)
       PROVE  SlotFree'
  BY <1>10 DEF Install, disk, stacks, locks, Return, Dropped
<1>11. ASSUME NEW t \in Task, Adopt(t) \/ Clear(t)
       PROVE  SlotFree'
  BY <1>11 DEF Adopt, Clear, disk, stacks, locks, Return, Dropped
<1>12. ASSUME NEW t \in Task, Reconcile(t)
       PROVE  SlotFree'
  BY <1>12 DEF Reconcile, stacks, locks, tasks
<1>13. ASSUME NEW t \in Task, Fail(t)
       PROVE  SlotFree'
  BY <1>13 DEF Fail, disk, ProcessEnds, Return, Dropped, Fails
<1>14. ASSUME NEW t \in Task, Cancel(t)
       PROVE  SlotFree'
  BY <1>14 DEF Cancel, DroppedStacks, disk, Return, Dropped
<1>15. ASSUME NEW r \in Request, Arrive(r) \/ LockApp(r) \/ Answer(r)
       PROVE  SlotFree'
  BY <1>15 DEF Arrive, LockApp, Answer, disk, locks, stacks, tasks
<1>16. CASE UNCHANGED vars
  BY <1>16 DEF vars, disk, locks, tasks, stacks
<1>17. CASE ServersEnd \/ \E v \in Vault : FinishImport(v) \/ DaemonEnds(v)
  BY <1>17 DEF ServersEnd, FinishImport, DaemonEnds, disk, locks, tasks, stacks
<1> QED BY <1>1, <1>2, <1>3, <1>4, <1>5, <1>6, <1>7, <1>8, <1>9, <1>10, <1>11, <1>12, <1>13,
    <1>14, <1>15, <1>16, <1>17 DEF Next, Waits, Works

\* Nothing is raised beside an operation that has torn the old stack down.
LEMMA SoleStep ==
  ASSUME TypeOK, Kinds, Starting, Holders, Placed, SlotFree, Sole, [Next]_vars
  PROVE  Sole'
<1> USE SwitchAssumption, CancelAssumption DEF Booting, Data, Go, Kind, Maybe, PC, Part, Past,
      RunnerUp, StackOp, Stopping, Switching, Task, TypeOK, Kinds, Starting, Holders, Placed,
      SlotFree, Sole
<1>1. CASE Launch \/ Publish
  BY <1>1 DEF Launch, Publish, disk, locks, stacks, DecideStartup, WipesDisposableState
<1>2. CASE Crash
  BY <1>2 DEF Crash, disk, ProcessEnds
<1>3. ASSUME NEW t \in Task, RequestSwitch(t) \/ RequestReboot(t) \/ RequestExit(t)
      PROVE  Sole'
  BY <1>3 DEF RequestSwitch, RequestReboot, RequestExit, disk, locks, stacks
<1>4. ASSUME NEW t \in Task, Begin(t) \/ LockTeardown(t) \/ Mark(t)
      PROVE  Sole'
  BY <1>4 DEF Begin, LockTeardown, Mark, disk, stacks, WritesSwitchMarker, locks
<1>5. ASSUME NEW t \in Task, TakeApp(t)
      PROVE  Sole'
  BY <1>5 DEF TakeApp, disk, HolderAfterTake
<1>6. ASSUME NEW t \in Task, StopDaemon(t) \/ Drain(t) \/ StopServices(t) \/ Stopped(t)
      PROVE  Sole'
  BY <1>6 DEF StopDaemon, Drain, StopServices, Stopped, disk, locks, stacks, Dropped,
    WipesDisposableState
<1>7. ASSUME NEW t \in Task, Exit(t)
      PROVE  Sole'
  BY <1>7 DEF Exit, disk, ProcessEnds
<1>8. ASSUME NEW t \in Task, WipeDb(t) \/ WipeAssets(t) \/ WipeIndex(t) \/ Record(t)
      PROVE  Sole'
  BY <1>8 DEF WipeDb, WipeAssets, WipeIndex, Record, locks, stacks, disk, Recorded, Upsert
<1>9. ASSUME NEW t \in Task, BootServices(t) \/ BootProxy(t)
      PROVE  Sole'
  BY <1>9 DEF BootServices, BootProxy, disk, locks
<1>10. ASSUME NEW t \in Task, Install(t)
       PROVE  Sole'
  BY <1>10 DEF Install, disk, stacks, locks, Return, Dropped
<1>11. ASSUME NEW t \in Task, Adopt(t) \/ Clear(t)
       PROVE  Sole'
  BY <1>11 DEF Adopt, Clear, disk, stacks, locks, Return, Dropped
<1>12. ASSUME NEW t \in Task, Reconcile(t)
       PROVE  Sole'
  BY <1>12 DEF Reconcile, stacks, locks, tasks
<1>13. ASSUME NEW t \in Task, Fail(t)
       PROVE  Sole'
  BY <1>13 DEF Fail, disk, ProcessEnds, Return, Dropped, Fails
<1>14. ASSUME NEW t \in Task, Cancel(t)
       PROVE  Sole'
  BY <1>14 DEF Cancel, DroppedStacks, disk, Return, Dropped
<1>15. ASSUME NEW r \in Request, Arrive(r) \/ LockApp(r) \/ Answer(r)
       PROVE  Sole'
  BY <1>15 DEF Arrive, LockApp, Answer, disk, locks, stacks, tasks
<1>16. CASE UNCHANGED vars
  BY <1>16 DEF vars, disk, locks, tasks, stacks
<1>17. CASE ServersEnd \/ \E v \in Vault : FinishImport(v) \/ DaemonEnds(v)
  BY <1>17 DEF ServersEnd, FinishImport, DaemonEnds, disk, locks, tasks, stacks
<1> QED BY <1>1, <1>2, <1>3, <1>4, <1>5, <1>6, <1>7, <1>8, <1>9, <1>10, <1>11, <1>12, <1>13,
    <1>14, <1>15, <1>16, <1>17 DEF Next, Waits, Works

\* The marker outlives the switch that wrote it, and a recorded target stays recorded.
LEMMA RecordsStep ==
  ASSUME TypeOK, Kinds, Starting, Holders, Targets, Records, [Next]_vars
  PROVE  Records'
<1> USE SwitchAssumption, CancelAssumption DEF Booting, Data, Go, Kind, Maybe, PC, Part, Past,
      RunnerUp, StackOp, Stopping, Switching, Task, TypeOK, Kinds, Starting, Holders, Targets,
      Records
<1>1. CASE Launch \/ Publish
  BY <1>1 DEF Launch, Publish, disk, locks, stacks, DecideStartup, WipesDisposableState
<1>2. CASE Crash
  BY <1>2 DEF Crash, disk, ProcessEnds
<1>3. ASSUME NEW t \in Task, RequestSwitch(t) \/ RequestReboot(t) \/ RequestExit(t)
      PROVE  Records'
  BY <1>3 DEF RequestSwitch, RequestReboot, RequestExit, disk, locks, stacks
<1>4. ASSUME NEW t \in Task, Begin(t) \/ LockTeardown(t) \/ Mark(t)
      PROVE  Records'
  BY <1>4 DEF Begin, LockTeardown, Mark, disk, stacks, WritesSwitchMarker, locks
<1>5. ASSUME NEW t \in Task, TakeApp(t)
      PROVE  Records'
  BY <1>5 DEF TakeApp, disk, HolderAfterTake
<1>6. ASSUME NEW t \in Task, StopDaemon(t) \/ Drain(t) \/ StopServices(t) \/ Stopped(t)
      PROVE  Records'
  BY <1>6 DEF StopDaemon, Drain, StopServices, Stopped, disk, locks, stacks, Dropped,
    WipesDisposableState
<1>7. ASSUME NEW t \in Task, Exit(t)
      PROVE  Records'
  BY <1>7 DEF Exit, disk, ProcessEnds
<1>8. ASSUME NEW t \in Task, WipeDb(t) \/ WipeAssets(t) \/ WipeIndex(t) \/ Record(t)
      PROVE  Records'
  BY <1>8 DEF WipeDb, WipeAssets, WipeIndex, Record, locks, stacks, disk, Recorded, Upsert
<1>9. ASSUME NEW t \in Task, BootServices(t) \/ BootProxy(t)
      PROVE  Records'
  BY <1>9 DEF BootServices, BootProxy, disk, locks
<1>10. ASSUME NEW t \in Task, Install(t)
       PROVE  Records'
  BY <1>10 DEF Install, disk, stacks, locks, Return, Dropped
<1>11. ASSUME NEW t \in Task, Adopt(t) \/ Clear(t)
       PROVE  Records'
  BY <1>11 DEF Adopt, Clear, disk, stacks, locks, Return, Dropped
<1>12. ASSUME NEW t \in Task, Reconcile(t)
       PROVE  Records'
  BY <1>12 DEF Reconcile, stacks, locks, tasks
<1>13. ASSUME NEW t \in Task, Fail(t)
       PROVE  Records'
  BY <1>13 DEF Fail, disk, ProcessEnds, Return, Dropped, Fails
<1>14. ASSUME NEW t \in Task, Cancel(t)
       PROVE  Records'
  BY <1>14 DEF Cancel, DroppedStacks, disk, Return, Dropped
<1>15. ASSUME NEW r \in Request, Arrive(r) \/ LockApp(r) \/ Answer(r)
       PROVE  Records'
  BY <1>15 DEF Arrive, LockApp, Answer, disk, locks, stacks, tasks
<1>16. CASE UNCHANGED vars
  BY <1>16 DEF vars, disk, locks, tasks, stacks
<1>17. CASE ServersEnd \/ \E v \in Vault : FinishImport(v) \/ DaemonEnds(v)
  BY <1>17 DEF ServersEnd, FinishImport, DaemonEnds, disk, locks, tasks, stacks
<1> QED BY <1>1, <1>2, <1>3, <1>4, <1>5, <1>6, <1>7, <1>8, <1>9, <1>10, <1>11, <1>12, <1>13,
    <1>14, <1>15, <1>16, <1>17 DEF Next, Waits, Works

\* An operation that changes vaults finds no old stack running when it adopts.
LEMMA RootsStep ==
  ASSUME TypeOK, Kinds, Sole, Targets, Roots, Closed, [Next]_vars
  PROVE  Roots'
<1> USE SwitchAssumption, CancelAssumption DEF Booting, Data, Go, Kind, Maybe, PC, Part, Past,
      RunnerUp, StackOp, Stopping, Switching, Task, TypeOK, Kinds, Sole, Targets, Roots, Closed
<1>1. CASE Launch \/ Publish
  BY <1>1 DEF Launch, Publish, disk, locks, stacks, DecideStartup, WipesDisposableState
<1>2. CASE Crash
  BY <1>2 DEF Crash, disk, ProcessEnds
<1>3. ASSUME NEW t \in Task, RequestSwitch(t) \/ RequestReboot(t) \/ RequestExit(t)
      PROVE  Roots'
  BY <1>3 DEF RequestSwitch, RequestReboot, RequestExit, disk, locks, stacks
<1>4. ASSUME NEW t \in Task, Begin(t) \/ LockTeardown(t) \/ Mark(t)
      PROVE  Roots'
  BY <1>4 DEF Begin, LockTeardown, Mark, disk, stacks, WritesSwitchMarker, locks
<1>5. ASSUME NEW t \in Task, TakeApp(t)
      PROVE  Roots'
  BY <1>5 DEF TakeApp, disk, HolderAfterTake
<1>6. ASSUME NEW t \in Task, StopDaemon(t) \/ Drain(t) \/ StopServices(t) \/ Stopped(t)
      PROVE  Roots'
  BY <1>6 DEF StopDaemon, Drain, StopServices, Stopped, disk, locks, stacks, Dropped,
    WipesDisposableState
<1>7. ASSUME NEW t \in Task, Exit(t)
      PROVE  Roots'
  BY <1>7 DEF Exit, disk, ProcessEnds
<1>8. ASSUME NEW t \in Task, WipeDb(t) \/ WipeAssets(t) \/ WipeIndex(t) \/ Record(t)
      PROVE  Roots'
  BY <1>8 DEF WipeDb, WipeAssets, WipeIndex, Record, locks, stacks, disk, Recorded, Upsert
<1>9. ASSUME NEW t \in Task, BootServices(t) \/ BootProxy(t)
      PROVE  Roots'
  BY <1>9 DEF BootServices, BootProxy, disk, locks
<1>10. ASSUME NEW t \in Task, Install(t)
       PROVE  Roots'
  BY <1>10 DEF Install, disk, stacks, locks, Return, Dropped
<1>11. ASSUME NEW t \in Task, Adopt(t) \/ Clear(t)
       PROVE  Roots'
  BY <1>11 DEF Adopt, Clear, disk, stacks, locks, Return, Dropped
<1>12. ASSUME NEW t \in Task, Reconcile(t)
       PROVE  Roots'
  BY <1>12 DEF Reconcile, stacks, locks, tasks
<1>13. ASSUME NEW t \in Task, Fail(t)
       PROVE  Roots'
  BY <1>13 DEF Fail, disk, ProcessEnds, Return, Dropped, Fails
<1>14. ASSUME NEW t \in Task, Cancel(t)
       PROVE  Roots'
  <2>1. pc[t] \notin {"install", "adopt"}
    BY <1>14 DEF Cancel, Await
  <2>2. \A s \in Task : s # t => pc'[s] = pc[s] /\ kind'[s] = kind[s]
    BY <1>14 DEF Cancel, Return
  <2>3. \A s \in Task : parts'[s] # {} => parts'[s] = parts[s] /\ ~(s = t /\ pc[t] = "bootProxy")
    BY <1>14 DEF Cancel, DroppedStacks
  <2>4. UNCHANGED <<root, runnerActive>> /\ (RunnerUp' => RunnerUp)
    BY <1>14 DEF Cancel, Return
  <2>5. ASSUME NEW s \in Task, RunnerUp', parts'[s] # {},
               ~(Switching(s) /\ pc[s] \in {"bootProxy", "install", "adopt"})'
        PROVE  root'[s] = runnerActive'
    <3>1. ~(Switching(s) /\ pc[s] \in {"bootProxy", "install", "adopt"})
      BY <2>1, <2>2, <2>3, <2>5
    <3> QED BY <2>3, <2>4, <2>5, <3>1
  <2> QED BY <2>5
<1>15. ASSUME NEW r \in Request, Arrive(r) \/ LockApp(r) \/ Answer(r)
       PROVE  Roots'
  BY <1>15 DEF Arrive, LockApp, Answer, disk, locks, stacks, tasks
<1>16. CASE UNCHANGED vars
  BY <1>16 DEF vars, disk, locks, tasks, stacks
<1>17. CASE ServersEnd \/ \E v \in Vault : FinishImport(v) \/ DaemonEnds(v)
  BY <1>17 DEF ServersEnd, FinishImport, DaemonEnds, disk, locks, tasks, stacks
<1> QED BY <1>1, <1>2, <1>3, <1>4, <1>5, <1>6, <1>7, <1>8, <1>9, <1>10, <1>11, <1>12, <1>13,
    <1>14, <1>15, <1>16, <1>17 DEF Next, Waits, Works

\* What a wipe leaves empty stays empty until the stack has a daemon.
LEMMA HoldingsStep ==
  ASSUME TypeOK, Kinds, Sole, Targets, Holdings, LeftOver, MarkerCovers, Closed, [Next]_vars
  PROVE  Holdings'
<1> USE SwitchAssumption, CancelAssumption DEF Booting, Data, Go, Kind, Maybe, PC, Part, Past,
      RunnerUp, StackOp, Stopping, Switching, Task, TypeOK, Kinds, Sole, Targets, Holdings,
      LeftOver, MarkerCovers, Closed
<1>1. CASE Launch \/ Publish
  BY <1>1 DEF Launch, Publish, disk, locks, stacks, DecideStartup, WipesDisposableState
<1>2. CASE Crash
  BY <1>2 DEF Crash, disk, ProcessEnds
<1>3. ASSUME NEW t \in Task, RequestSwitch(t) \/ RequestReboot(t) \/ RequestExit(t)
      PROVE  Holdings'
  BY <1>3 DEF RequestSwitch, RequestReboot, RequestExit, disk, locks, stacks
<1>4. ASSUME NEW t \in Task, Begin(t) \/ LockTeardown(t) \/ Mark(t)
      PROVE  Holdings'
  BY <1>4 DEF Begin, LockTeardown, Mark, disk, stacks, WritesSwitchMarker, locks
<1>5. ASSUME NEW t \in Task, TakeApp(t)
      PROVE  Holdings'
  BY <1>5 DEF TakeApp, disk, HolderAfterTake
<1>6. ASSUME NEW t \in Task, StopDaemon(t) \/ Drain(t) \/ StopServices(t) \/ Stopped(t)
      PROVE  Holdings'
  BY <1>6 DEF StopDaemon, Drain, StopServices, Stopped, disk, locks, stacks, Dropped,
    WipesDisposableState
<1>7. ASSUME NEW t \in Task, Exit(t)
      PROVE  Holdings'
  BY <1>7 DEF Exit, disk, ProcessEnds
<1>8. ASSUME NEW t \in Task, WipeDb(t) \/ WipeAssets(t) \/ WipeIndex(t) \/ Record(t)
      PROVE  Holdings'
  BY <1>8 DEF WipeDb, WipeAssets, WipeIndex, Record, locks, stacks, disk, Recorded, Upsert
<1>9. ASSUME NEW t \in Task, BootServices(t) \/ BootProxy(t)
      PROVE  Holdings'
  BY <1>9 DEF BootServices, BootProxy, disk, locks
<1>10. ASSUME NEW t \in Task, Install(t)
       PROVE  Holdings'
  BY <1>10 DEF Install, disk, stacks, locks, Return, Dropped
<1>11. ASSUME NEW t \in Task, Adopt(t) \/ Clear(t)
       PROVE  Holdings'
  BY <1>11 DEF Adopt, Clear, disk, stacks, locks, Return, Dropped
<1>12. ASSUME NEW t \in Task, Reconcile(t)
       PROVE  Holdings'
  BY <1>12 DEF Reconcile, stacks, locks, tasks
<1>13. ASSUME NEW t \in Task, Fail(t)
       PROVE  Holdings'
  BY <1>13 DEF Fail, disk, ProcessEnds, Return, Dropped, Fails
<1>14. ASSUME NEW t \in Task, Cancel(t)
       PROVE  Holdings'
  BY <1>14 DEF Cancel, DroppedStacks, disk, Return, Dropped
<1>15. ASSUME NEW r \in Request, Arrive(r) \/ LockApp(r) \/ Answer(r)
       PROVE  Holdings'
  BY <1>15 DEF Arrive, LockApp, Answer, disk, locks, stacks, tasks
<1>16. CASE UNCHANGED vars
  BY <1>16 DEF vars, disk, locks, tasks, stacks
<1>17. CASE ServersEnd \/ \E v \in Vault : FinishImport(v) \/ DaemonEnds(v)
  BY <1>17 DEF ServersEnd, FinishImport, DaemonEnds, disk, locks, tasks, stacks
<1> QED BY <1>1, <1>2, <1>3, <1>4, <1>5, <1>6, <1>7, <1>8, <1>9, <1>10, <1>11, <1>12, <1>13,
    <1>14, <1>15, <1>16, <1>17 DEF Next, Waits, Works

\* A dropped switch leaves a daemon of the vault it was leaving; the next to wipe
\* takes its database from it.
LEMMA LeftOverStep ==
  ASSUME TypeOK, Kinds, Starting, Holders, Sole, Roots, LeftOver, Closed, [Next]_vars
  PROVE  LeftOver'
<1> USE SwitchAssumption, CancelAssumption DEF Booting, Data, Go, Kind, Maybe, PC, Part, Past,
      RunnerUp, StackOp, Stopping, Switching, Task, TypeOK, Kinds, Starting, Holders,
      Sole, Roots, LeftOver, Closed
<1>1. CASE Launch \/ Publish
  BY <1>1 DEF Launch, Publish, disk, locks, stacks, DecideStartup, WipesDisposableState
<1>2. CASE Crash
  BY <1>2 DEF Crash, disk, ProcessEnds
<1>3. ASSUME NEW t \in Task, RequestSwitch(t) \/ RequestReboot(t) \/ RequestExit(t)
      PROVE  LeftOver'
  BY <1>3 DEF RequestSwitch, RequestReboot, RequestExit, disk, locks, stacks
<1>4. ASSUME NEW t \in Task, Begin(t) \/ LockTeardown(t) \/ Mark(t)
      PROVE  LeftOver'
  BY <1>4 DEF Begin, LockTeardown, Mark, disk, stacks, WritesSwitchMarker, locks
<1>5. ASSUME NEW t \in Task, TakeApp(t)
      PROVE  LeftOver'
  BY <1>5 DEF TakeApp, disk, HolderAfterTake
<1>6. ASSUME NEW t \in Task, StopDaemon(t) \/ Drain(t) \/ StopServices(t) \/ Stopped(t)
      PROVE  LeftOver'
  BY <1>6 DEF StopDaemon, Drain, StopServices, Stopped, disk, locks, stacks, Dropped,
    WipesDisposableState
<1>7. ASSUME NEW t \in Task, Exit(t)
      PROVE  LeftOver'
  BY <1>7 DEF Exit, disk, ProcessEnds
<1>8. ASSUME NEW t \in Task, WipeDb(t) \/ WipeAssets(t) \/ WipeIndex(t) \/ Record(t)
      PROVE  LeftOver'
  BY <1>8 DEF WipeDb, WipeAssets, WipeIndex, Record, locks, stacks, disk, Recorded, Upsert
<1>9. ASSUME NEW t \in Task, BootServices(t) \/ BootProxy(t)
      PROVE  LeftOver'
  BY <1>9 DEF BootServices, BootProxy, disk, locks
<1>10. ASSUME NEW t \in Task, Install(t)
       PROVE  LeftOver'
  BY <1>10 DEF Install, disk, stacks, locks, Return, Dropped
<1>11. ASSUME NEW t \in Task, Adopt(t) \/ Clear(t)
       PROVE  LeftOver'
  BY <1>11 DEF Adopt, Clear, disk, stacks, locks, Return, Dropped
<1>12. ASSUME NEW t \in Task, Reconcile(t)
       PROVE  LeftOver'
  BY <1>12 DEF Reconcile, stacks, locks, tasks
<1>13. ASSUME NEW t \in Task, Fail(t)
       PROVE  LeftOver'
  BY <1>13 DEF Fail, disk, ProcessEnds, Return, Dropped, Fails
<1>14. ASSUME NEW t \in Task, Cancel(t)
       PROVE  LeftOver'
  <2>1. pc[t] \notin {"install", "adopt", "clear"} /\ t # Main /\ RunnerUp /\ RunnerUp'
    BY <1>14 DEF Cancel, Await, Return
  <2>2. \A s \in DroppedStacks(t) :
          "daemon" \in parts[s] => root[s] = runnerActive /\ taken[t] = s /\ switchLock = t
    BY <1>14, <2>1 DEF Cancel, DroppedStacks
  <2>3. \A v \in daemonsLeft' : v = runnerActive'
    BY <1>14, <2>2 DEF Cancel
  <2>4. \A u \in Worker : Switching(u)' => u # t /\ Switching(u) /\ pc'[u] = pc[u]
    BY <1>14 DEF Cancel, Return
  <2>5. ASSUME NEW u \in Worker, Switching(u)',
               pc'[u] \in {"wipeAssets", "wipeIndex", "record", "bootServices", "bootProxy",
                          "install", "adopt"}
        PROVE  daemonsLeft' = {}
    <3>1. switchLock = u /\ u # t
      BY <2>4, <2>5
    <3>2. daemonsLeft = {}
      BY <2>4, <2>5
    <3> QED BY <1>14, <2>2, <3>1, <3>2 DEF Cancel
  <2> QED BY <2>1, <2>3, <2>5
<1>15. ASSUME NEW r \in Request, Arrive(r) \/ LockApp(r) \/ Answer(r)
       PROVE  LeftOver'
  BY <1>15 DEF Arrive, LockApp, Answer, disk, locks, stacks, tasks
<1>16. CASE UNCHANGED vars
  BY <1>16 DEF vars, disk, locks, tasks, stacks
<1>17. CASE ServersEnd \/ \E v \in Vault : FinishImport(v) \/ DaemonEnds(v)
  BY <1>17 DEF ServersEnd, FinishImport, DaemonEnds, disk, locks, tasks, stacks
<1> QED BY <1>1, <1>2, <1>3, <1>4, <1>5, <1>6, <1>7, <1>8, <1>9, <1>10, <1>11, <1>12, <1>13,
    <1>14, <1>15, <1>16, <1>17 DEF Next, Waits, Works

\* The disposable state changes owner only under a switch.
LEMMA OwnedStep ==
  ASSUME TypeOK, Kinds, Sole, Roots, Holdings, LeftOver, Owned, Closed, [Next]_vars
  PROVE  Owned'
<1> USE SwitchAssumption, CancelAssumption DEF Booting, Data, Go, Kind, Maybe, PC, Part, Past,
      RunnerUp, StackOp, Stopping, Switching, Task, TypeOK, Kinds, Sole, Roots, Holdings,
      LeftOver, Owned, Closed
<1>1. CASE Launch \/ Publish
  BY <1>1 DEF Launch, Publish, disk, locks, stacks, DecideStartup, WipesDisposableState
<1>2. CASE Crash
  BY <1>2 DEF Crash, disk, ProcessEnds
<1>3. ASSUME NEW t \in Task, RequestSwitch(t) \/ RequestReboot(t) \/ RequestExit(t)
      PROVE  Owned'
  BY <1>3 DEF RequestSwitch, RequestReboot, RequestExit, disk, locks, stacks
<1>4. ASSUME NEW t \in Task, Begin(t) \/ LockTeardown(t) \/ Mark(t)
      PROVE  Owned'
  BY <1>4 DEF Begin, LockTeardown, Mark, disk, stacks, WritesSwitchMarker, locks
<1>5. ASSUME NEW t \in Task, TakeApp(t)
      PROVE  Owned'
  BY <1>5 DEF TakeApp, disk, HolderAfterTake
<1>6. ASSUME NEW t \in Task, StopDaemon(t) \/ Drain(t) \/ StopServices(t) \/ Stopped(t)
      PROVE  Owned'
  BY <1>6 DEF StopDaemon, Drain, StopServices, Stopped, disk, locks, stacks, Dropped,
    WipesDisposableState
<1>7. ASSUME NEW t \in Task, Exit(t)
      PROVE  Owned'
  BY <1>7 DEF Exit, disk, ProcessEnds
<1>8. ASSUME NEW t \in Task, WipeDb(t) \/ WipeAssets(t) \/ WipeIndex(t) \/ Record(t)
      PROVE  Owned'
  BY <1>8 DEF WipeDb, WipeAssets, WipeIndex, Record, locks, stacks, disk, Recorded, Upsert
<1>9. ASSUME NEW t \in Task, BootServices(t) \/ BootProxy(t)
      PROVE  Owned'
  BY <1>9 DEF BootServices, BootProxy, disk, locks
<1>10. ASSUME NEW t \in Task, Install(t)
       PROVE  Owned'
  BY <1>10 DEF Install, disk, stacks, locks, Return, Dropped
<1>11. ASSUME NEW t \in Task, Adopt(t) \/ Clear(t)
       PROVE  Owned'
  BY <1>11 DEF Adopt, Clear, disk, stacks, locks, Return, Dropped
<1>12. ASSUME NEW t \in Task, Reconcile(t)
       PROVE  Owned'
  BY <1>12 DEF Reconcile, stacks, locks, tasks
<1>13. ASSUME NEW t \in Task, Fail(t)
       PROVE  Owned'
  BY <1>13 DEF Fail, disk, ProcessEnds, Return, Dropped, Fails
<1>14. ASSUME NEW t \in Task, Cancel(t)
       PROVE  Owned'
  <2>1. pc[t] \notin {"install", "adopt"}
    BY <1>14 DEF Cancel, Await
  <2>2. \A s \in Task : s # t => pc'[s] = pc[s] /\ kind'[s] = kind[s]
    BY <1>14 DEF Cancel, Return
  <2> QED BY <1>14, <2>1, <2>2 DEF Cancel, disk
<1>15. ASSUME NEW r \in Request, Arrive(r) \/ LockApp(r) \/ Answer(r)
       PROVE  Owned'
  BY <1>15 DEF Arrive, LockApp, Answer, disk, locks, stacks, tasks
<1>16. CASE UNCHANGED vars
  BY <1>16 DEF vars, disk, locks, tasks, stacks
<1>17. CASE ServersEnd \/ \E v \in Vault : FinishImport(v) \/ DaemonEnds(v)
  BY <1>17 DEF ServersEnd, FinishImport, DaemonEnds, disk, locks, tasks, stacks
<1> QED BY <1>1, <1>2, <1>3, <1>4, <1>5, <1>6, <1>7, <1>8, <1>9, <1>10, <1>11, <1>12, <1>13,
    <1>14, <1>15, <1>16, <1>17 DEF Next, Waits, Works

\* A marker goes only once the registry and the database agree.
LEMMA MarkerCoversStep ==
  ASSUME TypeOK, Kinds, Starting, Targets, Roots, Holdings, LeftOver, Records, MarkerCovers,
         [Next]_vars
  PROVE  MarkerCovers'
<1> USE SwitchAssumption, CancelAssumption DEF Booting, Data, Go, Kind, Maybe, PC, Part, Past,
      RunnerUp, StackOp, Stopping, Switching, Task, TypeOK, Kinds, Starting, Targets, Roots,
      Holdings, LeftOver, Records, MarkerCovers
<1>1. CASE Launch \/ Publish
  BY <1>1 DEF Launch, Publish, disk, locks, stacks, DecideStartup, WipesDisposableState
<1>2. CASE Crash
  BY <1>2 DEF Crash, disk, ProcessEnds
<1>3. ASSUME NEW t \in Task, RequestSwitch(t) \/ RequestReboot(t) \/ RequestExit(t)
      PROVE  MarkerCovers'
  BY <1>3 DEF RequestSwitch, RequestReboot, RequestExit, disk, locks, stacks
<1>4. ASSUME NEW t \in Task, Begin(t) \/ LockTeardown(t)
      PROVE  MarkerCovers'
  BY <1>4 DEF Begin, LockTeardown, disk, stacks, WritesSwitchMarker
<1>5. ASSUME NEW t \in Task, Mark(t)
      PROVE  MarkerCovers'
  <2>1. Switching(t) /\ t # Main /\ target[t] \in Vault
    BY <1>5 DEF Mark
  <2> QED BY <1>5, <2>1 DEF Mark
<1>6. ASSUME NEW t \in Task, TakeApp(t)
      PROVE  MarkerCovers'
  BY <1>6 DEF TakeApp, disk, HolderAfterTake
<1>7. ASSUME NEW t \in Task, StopDaemon(t) \/ Drain(t) \/ StopServices(t) \/ Stopped(t)
      PROVE  MarkerCovers'
  BY <1>7 DEF StopDaemon, Drain, StopServices, Stopped, disk, locks, stacks, Dropped,
    WipesDisposableState
<1>8. ASSUME NEW t \in Task, Exit(t)
      PROVE  MarkerCovers'
  BY <1>8 DEF Exit, disk, ProcessEnds
<1>9. ASSUME NEW t \in Task, WipeDb(t) \/ WipeAssets(t) \/ WipeIndex(t) \/ Record(t)
      PROVE  MarkerCovers'
  BY <1>9 DEF WipeDb, WipeAssets, WipeIndex, Record, locks, stacks, disk, Recorded, Upsert
<1>10. ASSUME NEW t \in Task, BootServices(t) \/ BootProxy(t)
       PROVE  MarkerCovers'
  BY <1>10 DEF BootServices, BootProxy, disk, locks
<1>11. ASSUME NEW t \in Task, Install(t)
       PROVE  MarkerCovers'
  BY <1>11 DEF Install, disk, stacks, locks, Return, Dropped
<1>12. ASSUME NEW t \in Task, Adopt(t) \/ Clear(t)
       PROVE  MarkerCovers'
  BY <1>12 DEF Adopt, Clear, disk, stacks, locks, Return, Dropped
<1>13. ASSUME NEW t \in Task, Reconcile(t)
       PROVE  MarkerCovers'
  BY <1>13 DEF Reconcile, stacks, locks, tasks
<1>14. ASSUME NEW t \in Task, Fail(t)
       PROVE  MarkerCovers'
  BY <1>14 DEF Fail, disk, ProcessEnds, Return, Dropped, Fails
<1>15. ASSUME NEW t \in Task, Cancel(t)
       PROVE  MarkerCovers'
  BY <1>15 DEF Cancel, DroppedStacks, disk, Return, Dropped
<1>16. ASSUME NEW r \in Request, Arrive(r) \/ LockApp(r) \/ Answer(r)
       PROVE  MarkerCovers'
  BY <1>16 DEF Arrive, LockApp, Answer, disk, locks, stacks, tasks
<1>17. CASE UNCHANGED vars
  BY <1>17 DEF vars, disk, locks, tasks, stacks
<1>18. CASE ServersEnd \/ \E v \in Vault : FinishImport(v) \/ DaemonEnds(v)
  BY <1>18 DEF ServersEnd, FinishImport, DaemonEnds, disk, locks, tasks, stacks
<1> QED BY <1>1, <1>2, <1>3, <1>4, <1>5, <1>6, <1>7, <1>8, <1>9, <1>10, <1>11, <1>12, <1>13,
    <1>14, <1>15, <1>16, <1>17, <1>18 DEF Next, Waits, Works

\* There is never a second stack.
LEMMA SingleStep ==
  ASSUME TypeOK, Kinds, Starting, Sole, Targets, Roots, Holdings, LeftOver, Owned, Single, NoSpill,
         [Next]_vars
  PROVE  Single'
<1> USE SwitchAssumption, CancelAssumption DEF Booting, Data, Go, Kind, Maybe, PC, Part, Past,
      RunnerUp, StackOp, Stopping, Switching, Task, TypeOK, Kinds, Starting, Sole, Targets,
      Roots, Holdings, LeftOver, Owned, Single, NoSpill, Alive
<1>1. CASE Launch \/ Publish
  BY <1>1 DEF Launch, Publish, disk, locks, stacks, DecideStartup, WipesDisposableState
<1>2. CASE Crash
  BY <1>2 DEF Crash, disk, ProcessEnds
<1>3. ASSUME NEW t \in Task, RequestSwitch(t) \/ RequestReboot(t) \/ RequestExit(t)
      PROVE  Single'
  BY <1>3 DEF RequestSwitch, RequestReboot, RequestExit, disk, locks, stacks
<1>4. ASSUME NEW t \in Task, Begin(t) \/ LockTeardown(t) \/ Mark(t)
      PROVE  Single'
  BY <1>4 DEF Begin, LockTeardown, Mark, disk, stacks, WritesSwitchMarker, locks
<1>5. ASSUME NEW t \in Task, TakeApp(t)
      PROVE  Single'
  <2>1. \A s \in Task : 
         parts'[s] # {} => parts[s] # {} /\ ("services" \in parts[s] => "services" \in parts'[s])
    BY <1>5 DEF TakeApp
  <2>2. Data' = Data
    BY <1>5 DEF TakeApp, disk
  <2>3. \A s, u \in Task : parts[s] # {} /\ parts[u] # {} => s = u
    BY DEF Single
  <2>4. \A s \in Task : parts'[s] # {} => "services" \in parts'[s]
    BY <2>1
  <2>5. \A s, u \in Task : parts'[s] # {} /\ parts'[u] # {} => s = u
    BY <2>1, <2>3
  <2>6. \A x, y \in Data' : x = y
    BY <2>2
  <2> QED BY <2>4, <2>5, <2>6
<1>6. ASSUME NEW t \in Task, StopDaemon(t) \/ Drain(t) \/ StopServices(t) \/ Stopped(t)
      PROVE  Single'
  BY <1>6 DEF StopDaemon, Drain, StopServices, Stopped, disk, locks, stacks, Dropped,
    WipesDisposableState
<1>7. ASSUME NEW t \in Task, Exit(t)
      PROVE  Single'
  BY <1>7 DEF Exit, disk, ProcessEnds
<1>8. ASSUME NEW t \in Task, WipeDb(t) \/ WipeAssets(t) \/ WipeIndex(t) \/ Record(t)
      PROVE  Single'
  BY <1>8 DEF WipeDb, WipeAssets, WipeIndex, Record, locks, stacks, disk, Recorded, Upsert
<1>9. ASSUME NEW t \in Task, BootServices(t) \/ BootProxy(t)
      PROVE  Single'
  BY <1>9 DEF BootServices, BootProxy, disk, locks
<1>10. ASSUME NEW t \in Task, Install(t)
       PROVE  Single'
  BY <1>10 DEF Install, disk, stacks, locks, Return, Dropped
<1>11. ASSUME NEW t \in Task, Adopt(t) \/ Clear(t)
       PROVE  Single'
  BY <1>11 DEF Adopt, Clear, disk, stacks, locks, Return, Dropped
<1>12. ASSUME NEW t \in Task, Reconcile(t)
       PROVE  Single'
  BY <1>12 DEF Reconcile, stacks, locks, tasks
<1>13. ASSUME NEW t \in Task, Fail(t)
       PROVE  Single'
  BY <1>13 DEF Fail, disk, ProcessEnds, Return, Dropped, Fails
<1>14. ASSUME NEW t \in Task, Cancel(t)
       PROVE  Single'
  <2>1. \A s \in Task : parts'[s] # {} => parts'[s] = parts[s]
    BY <1>14 DEF Cancel
  <2>2. Data' = Data
    BY <1>14 DEF Cancel, disk
  <2> QED BY <2>1, <2>2
<1>15. ASSUME NEW r \in Request, Arrive(r) \/ LockApp(r) \/ Answer(r)
       PROVE  Single'
  BY <1>15 DEF Arrive, LockApp, Answer, disk, locks, stacks, tasks
<1>16. CASE UNCHANGED vars
  BY <1>16 DEF vars, disk, locks, tasks, stacks
<1>17. CASE ServersEnd \/ \E v \in Vault : FinishImport(v) \/ DaemonEnds(v)
  BY <1>17 DEF ServersEnd, FinishImport, DaemonEnds, disk, locks, tasks, stacks
<1> QED BY <1>1, <1>2, <1>3, <1>4, <1>5, <1>6, <1>7, <1>8, <1>9, <1>10, <1>11, <1>12, <1>13,
    <1>14, <1>15, <1>16, <1>17 DEF Next, Waits, Works

\* While a switch has its stack in the slot and the runner untold, no other
\* operation installs one: they share the switch lock.
LEMMA SlotTellsStep ==
  ASSUME TypeOK, Kinds, Starting, Holders, Targets, SlotFree, SlotTells, [Next]_vars
  PROVE  SlotTells'
<1> USE SwitchAssumption, CancelAssumption DEF Booting, Go, Kind, Maybe, PC, Part, Past,
      RunnerUp, StackOp, Stopping, Switching, Task, TypeOK, Kinds, Starting, Holders, Targets,
      SlotFree, SlotTells
<1>1. CASE Launch \/ Publish
  BY <1>1 DEF Launch, Publish, disk, locks, stacks, DecideStartup, WipesDisposableState
<1>2. CASE Crash
  BY <1>2 DEF Crash, disk, ProcessEnds
<1>3. ASSUME NEW t \in Task, RequestSwitch(t) \/ RequestReboot(t) \/ RequestExit(t)
      PROVE  SlotTells'
  BY <1>3 DEF RequestSwitch, RequestReboot, RequestExit, disk, locks, stacks
<1>4. ASSUME NEW t \in Task, Begin(t) \/ LockTeardown(t) \/ Mark(t)
      PROVE  SlotTells'
  BY <1>4 DEF Begin, LockTeardown, Mark, disk, stacks, WritesSwitchMarker, locks
<1>5. ASSUME NEW t \in Task, TakeApp(t)
      PROVE  SlotTells'
  BY <1>5 DEF TakeApp, disk, HolderAfterTake
<1>6. ASSUME NEW t \in Task, StopDaemon(t) \/ Drain(t) \/ StopServices(t) \/ Stopped(t)
      PROVE  SlotTells'
  BY <1>6 DEF StopDaemon, Drain, StopServices, Stopped, disk, locks, stacks, Dropped,
    WipesDisposableState
<1>7. ASSUME NEW t \in Task, Exit(t)
      PROVE  SlotTells'
  BY <1>7 DEF Exit, disk, ProcessEnds
<1>8. ASSUME NEW t \in Task, WipeDb(t) \/ WipeAssets(t) \/ WipeIndex(t) \/ Record(t)
      PROVE  SlotTells'
  BY <1>8 DEF WipeDb, WipeAssets, WipeIndex, Record, locks, stacks, disk
<1>9. ASSUME NEW t \in Task, BootServices(t) \/ BootProxy(t)
      PROVE  SlotTells'
  BY <1>9 DEF BootServices, BootProxy, disk, locks
<1>10. ASSUME NEW t \in Task, Install(t)
       PROVE  SlotTells'
  BY <1>10 DEF Install, disk, stacks, locks, Return, Dropped
<1>11. ASSUME NEW t \in Task, Adopt(t) \/ Clear(t)
       PROVE  SlotTells'
  BY <1>11 DEF Adopt, Clear, disk, stacks, locks, Return, Dropped
<1>12. ASSUME NEW t \in Task, Reconcile(t)
       PROVE  SlotTells'
  BY <1>12 DEF Reconcile, stacks, locks, tasks
<1>13. ASSUME NEW t \in Task, Fail(t)
       PROVE  SlotTells'
  BY <1>13 DEF Fail, disk, ProcessEnds, Return, Dropped, Fails
<1>14. ASSUME NEW t \in Task, Cancel(t)
       PROVE  SlotTells'
  <2>1. pc[t] # "adopt" /\ pc' = [pc EXCEPT ![t] = "idle"] /\ UNCHANGED <<slot, root, runnerActive>>
    BY <1>14 DEF Cancel, Return, Await
  <2>2. \A u \in Task : pc'[u] = "adopt" <=> pc[u] = "adopt"
    BY <2>1
  <2> QED BY <2>1, <2>2
<1>15. ASSUME NEW r \in Request, Arrive(r) \/ LockApp(r) \/ Answer(r)
       PROVE  SlotTells'
  BY <1>15 DEF Arrive, LockApp, Answer, disk, locks, stacks, tasks
<1>16. CASE UNCHANGED vars
  BY <1>16 DEF vars, disk, locks, tasks, stacks
<1>17. CASE ServersEnd \/ \E v \in Vault : FinishImport(v) \/ DaemonEnds(v)
  BY <1>17 DEF ServersEnd, FinishImport, DaemonEnds, disk, locks, tasks, stacks
<1> QED BY <1>1, <1>2, <1>3, <1>4, <1>5, <1>6, <1>7, <1>8, <1>9, <1>10, <1>11, <1>12, <1>13,
    <1>14, <1>15, <1>16, <1>17 DEF Next, Waits, Works

\* Whoever records a vault lists it in the same write.
LEMMA ActiveKnownStep ==
  ASSUME ActiveKnown, [Next]_vars
  PROVE  ActiveKnown'
<1>1. ASSUME NEW t \in Task, Record(t)  PROVE ActiveKnown'
  BY <1>1 DEF Record, Recorded, Upsert, ActiveKnown
<1>2. CASE UNCHANGED <<active, known>>
  BY <1>2 DEF ActiveKnown
<1>3. CASE Launch \/ Publish \/ Crash \/ UNCHANGED vars
  BY <1>2, <1>3 DEF Launch, Publish, Crash, vars, disk
<1>4. ASSUME NEW t \in Task,
             \/ RequestSwitch(t) \/ RequestReboot(t) \/ RequestExit(t)
             \/ Waits(t) \/ Reconcile(t) \/ Fail(t) \/ Cancel(t)
      PROVE  ActiveKnown'
  BY <1>2, <1>4 DEF RequestSwitch, RequestReboot, RequestExit, Waits, Begin, LockTeardown,
    TakeApp, Install, Reconcile, Fail, Cancel, disk
<1>5. ASSUME NEW t \in Task, Works(t)  PROVE ActiveKnown'
  BY <1>1, <1>2, <1>5 DEF Works, Mark, StopDaemon, Drain, StopServices, Stopped, Exit, WipeDb,
    WipeAssets, WipeIndex, BootServices, BootProxy, Adopt, Clear, disk
<1>6. ASSUME NEW r \in Request, Arrive(r) \/ LockApp(r) \/ Answer(r)  PROVE ActiveKnown'
  BY <1>2, <1>6 DEF Arrive, LockApp, Answer, disk
<1>7. CASE ServersEnd \/ \E v \in Vault : FinishImport(v) \/ DaemonEnds(v)
  BY <1>2, <1>7 DEF ServersEnd, FinishImport, DaemonEnds, disk
<1> QED BY <1>3, <1>4, <1>5, <1>6, <1>7 DEF Next

\* Nothing runs and nothing is stored at first.
LEMMA InitInv ==
  ASSUME Init  PROVE IInv
BY SwitchAssumption DEF Init, IInv, Order, Control, TypeOK, Kinds, Starting, Holders, Placed,
  SlotFree, Sole, Targets, Roots, Holdings, LeftOver, Owned, Records, MarkerCovers, Single, Alive, Task,
  Maybe, PC, Kind, StackOp, Part, Stopping, Past, Booting, Switching, Data, RunnerUp

\* Where a daemon is, the state is its own: its vault is the runner's, or a switch
\* has just raised it.
LEMMA SpillFree ==
  ASSUME IInv  PROVE NoSpill
BY SwitchAssumption DEF NoSpill, IInv, Order, Control, TypeOK, Kinds, Starting, Sole, Targets,
  Roots, Holdings, LeftOver, Owned, Task, Part, Booting, Switching, Data, RunnerUp, StackOp

\* Every reachable state is typed, whatever the environment names and wherever
\* control requests are dropped.
THEOREM Typing == Spec => []TypeOK
<1>1. Init => Control
  BY InitInv DEF IInv, Order
<1>2. Control /\ [Next]_vars => Control'
  BY TypeOKStep, KindsStep, StartingStep, HoldersStep, TargetsStep DEF Control
<1>3. Control => TypeOK
  BY DEF Control
<1> QED BY <1>1, <1>2, <1>3, PTL DEF Spec

\* No stack is up, and no database runs, while the cluster, the blobs or the index
\* are wiped or a boot begins: what the teardown lock of shutdown is for.
THEOREM WipedAlone == Spec => []Alone
<1>1. Init => Order
  BY InitInv DEF IInv
<1>2. Order /\ [Next]_vars => Order'
  BY TypeOKStep, KindsStep, StartingStep, HoldersStep, TargetsStep, PlacedStep, SlotFreeStep,
     SoleStep, RecordsStep DEF Order, Control
<1>3. Order => Alone
  BY SwitchAssumption DEF Alone, Clearing, Order, Control, Kinds, Sole, Alive, Past, Task, Stopping
<1> QED BY <1>1, <1>2, <1>3, PTL DEF Spec

\* Nor is there any server of an earlier stack, if no request is dropped while its
\* services stop or start: there is no other way to leave one behind.
THEOREM NobodyElse ==
  ASSUME CancelAt \cap {"stopServices", "bootServices"} = {}
  PROVE  Spec => []NobodyLeft
<1>1. Spec => []Alone
  BY WipedAlone
<1>2. Init => ~serversLeft
  BY DEF Init
<1>3. ~serversLeft /\ [Next]_vars => ~serversLeft'
  <2> SUFFICES ASSUME ~serversLeft, [Next]_vars  PROVE ~serversLeft'
    OBVIOUS
  <2>1. ASSUME NEW t \in Task, Cancel(t)  PROVE ~serversLeft'
    BY <2>1 DEF Cancel
  <2>2. ASSUME NEW t \in Task, Exit(t) \/ Fail(t)  PROVE ~serversLeft'
    BY <2>2 DEF Exit, Fail, ProcessEnds
  <2>3. CASE Launch \/ Publish \/ Crash \/ ServersEnd \/ UNCHANGED vars
    BY <2>3 DEF Launch, Publish, Crash, ProcessEnds, ServersEnd, vars, stacks
  <2>4. ASSUME NEW t \in Task,
               \/ RequestSwitch(t) \/ RequestReboot(t) \/ RequestExit(t)
               \/ Waits(t) \/ Reconcile(t)
        PROVE  ~serversLeft'
    BY <2>4 DEF RequestSwitch, RequestReboot, RequestExit, Waits, Begin, LockTeardown, TakeApp,
      Install, Reconcile, stacks
  <2>5. ASSUME NEW t \in Task, Works(t)  PROVE ~serversLeft'
    BY <2>2, <2>5 DEF Works, Mark, StopDaemon, Drain, StopServices, Stopped, WipeDb, WipeAssets,
      WipeIndex, Record, BootServices, BootProxy, Adopt, Clear, stacks
  <2>6. ASSUME NEW r \in Request, Arrive(r) \/ LockApp(r) \/ Answer(r)  PROVE ~serversLeft'
    BY <2>6 DEF Arrive, LockApp, Answer, stacks
  <2>7. ASSUME NEW v \in Vault, FinishImport(v) \/ DaemonEnds(v)  PROVE ~serversLeft'
    BY <2>7 DEF FinishImport, DaemonEnds, stacks
  <2> QED BY <2>1, <2>2, <2>3, <2>4, <2>5, <2>6, <2>7 DEF Next
<1>4. Alone /\ ~serversLeft => NobodyLeft
  BY DEF NobodyLeft
<1> QED BY <1>1, <1>2, <1>3, <1>4, PTL DEF Spec

\* The active vault is always listed, and once no operation runs and none is owed
\* the stack, the runner and the registry agree on the open vault, whatever the
\* environment names and wherever control requests are dropped.
THEOREM Settles == Spec => []Settled
<1> DEFINE Inv == Order /\ SlotTells /\ ActiveKnown
<1>1. Init => Inv
  <2> SUFFICES ASSUME Init  PROVE Inv
    OBVIOUS
  <2>1. Order
    BY InitInv DEF IInv
  <2>2. SlotTells /\ ActiveKnown
    BY DEF Init, SlotTells, ActiveKnown
  <2> QED BY <2>1, <2>2
<1>2. Inv /\ [Next]_vars => Inv'
  <2> SUFFICES ASSUME Inv, [Next]_vars  PROVE Inv'
    OBVIOUS
  <2>1. Order'
    BY TypeOKStep, KindsStep, StartingStep, HoldersStep, TargetsStep, PlacedStep, SlotFreeStep,
       SoleStep, RecordsStep DEF Order, Control
  <2>2. SlotTells' /\ ActiveKnown'
    BY SlotTellsStep, ActiveKnownStep DEF Order, Control
  <2> QED BY <2>1, <2>2
<1>3. Inv => Settled
  BY SwitchAssumption DEF Settled, Order, Control, TypeOK, Records, SlotTells, Running, RunnerUp,
    Maybe
<1> QED BY <1>1, <1>2, <1>3, PTL DEF Spec

\* In a closed system the whole invariant is inductive.
LEMMA Inductive ==
  ASSUME IInv, Closed, [Next]_vars  PROVE IInv'
<1>1. Order'
  BY TypeOKStep, KindsStep, StartingStep, HoldersStep, TargetsStep, PlacedStep, SlotFreeStep,
     SoleStep, RecordsStep DEF IInv, Order, Control
<1>2. Roots' /\ Holdings' /\ LeftOver' /\ Owned' /\ MarkerCovers'
  BY RootsStep, HoldingsStep, LeftOverStep, OwnedStep, MarkerCoversStep DEF IInv, Order, Control
<1>3. Single'
  BY SpillFree, SingleStep DEF IInv, Order, Control
<1> QED BY <1>1, <1>2, <1>3 DEF IInv

\* A daemon only works on a database that is empty or its own vault's.
THEOREM NeverSpills == ASSUME Closed  PROVE Spec => []NoSpill
<1>1. Init => IInv
  BY InitInv
<1>2. IInv /\ [Next]_vars => IInv'
  BY Inductive
<1>3. IInv => NoSpill
  BY SpillFree
<1> QED BY <1>1, <1>2, <1>3, PTL DEF Spec

\* Without a marker the database is the registry's active vault's, at every point
\* where the process may be killed.
THEOREM DiskTells == ASSUME Closed  PROVE Spec => []MarkerCovers
<1>1. Init => IInv
  BY InitInv
<1>2. IInv /\ [Next]_vars => IInv'
  BY Inductive
<1>3. IInv => MarkerCovers
  BY DEF IInv
<1> QED BY <1>1, <1>2, <1>3, PTL DEF Spec
-----------------------------------------------------------------------------
(* The runner implements OneVault. *)

Opened == {root[s] : s \in {u \in Task : Alive(u)}}

\* A stack that has services is the only one.
LEMMA OpenedBy ==
  ASSUME Single, NEW s \in Task, Alive(s)  PROVE Opened = {root[s]}
BY DEF Single, Opened, Alive

\* A step that raises no stack and writes no row leaves things as they are, or
\* closes the stack.
LEMMA Closes ==
  ASSUME Single, UNCHANGED <<cluster, assets, root>>,
         \A s \in Task : Alive(s)' => Alive(s)
  PROVE  [Promise!Next]_(Promise!vars)
<1>1. Data' = Data
  BY DEF Data
<1>2. Opened' = Opened \/ Opened' = {}
  <2>1. CASE \E s \in Task : Alive(s)'
    <3>1. PICK s \in Task : Alive(s)'
      BY <2>1
    <3>2. Opened = {root[s]}
      BY <3>1, OpenedBy
    <3>3. \A u \in Task : Alive(u)' => u = s
      BY <3>1 DEF Single, Alive
    <3> QED BY <3>1, <3>2, <3>3 DEF Opened
  <2> QED BY <2>1 DEF Opened
<1> QED BY <1>1, <1>2 DEF Promise!Next, Promise!Close, Promise!vars, Data, Opened

\* Every step of the runner is a step of OneVault, or none.
LEMMA PromiseStep ==
  ASSUME IInv, Closed, [Next]_vars
  PROVE  [Promise!Next]_(Promise!vars)
<1> USE SwitchAssumption DEF Alive
<1>1. Single /\ NoSpill
  BY SpillFree DEF IInv
<1>2. ASSUME NEW t \in Task, BootServices(t)  PROVE Promise!Next
  <2>1. Opened = {}
    BY <1>2 DEF BootServices, IInv, Order, Control, Kinds, Sole, Past, Task, Opened, Stopping
  <2>2. Opened' = {target[t]}
    <3>1. \A s \in Task : parts[s] = {}
      BY <1>2 DEF BootServices, IInv, Order, Control, Kinds, Sole, Past, Task, Stopping
    <3> QED BY <1>2, <3>1 DEF BootServices, IInv, Order, Control, TypeOK, Opened
  <2>3. target[t] \in Vault
    BY <1>2 DEF BootServices, IInv, Order, Control, Kinds, Starting, Targets, Task, RunnerUp,
      StackOp, Stopping
  <2>4. Data \subseteq {target[t]} /\ UNCHANGED Data
    BY <1>2 DEF BootServices, disk, IInv, Order, Control, Kinds, Starting, Holders, Targets,
      Holdings, Owned, Task, RunnerUp, StackOp, Stopping, Switching, Data
  <2> QED BY <2>1, <2>2, <2>3, <2>4 DEF Promise!Next, Promise!Open, Data, Opened
<1>3. ASSUME NEW s \in Task, Reconcile(s)  PROVE Promise!Next
  <2>1. Alive(s)
    BY <1>1, <1>3 DEF Reconcile, Single
  <2>2. Opened = {root[s]} /\ UNCHANGED Opened
    BY <1>1, <1>3, <2>1, OpenedBy DEF Reconcile, Opened, stacks
  <2>3. Data' = {root[s]}
    BY <1>1, <1>3 DEF Reconcile, NoSpill, Data
  <2> QED BY <2>2, <2>3 DEF Promise!Next, Promise!Import, Data, Opened
<1>4. ASSUME NEW t \in Task, WipeDb(t) \/ WipeAssets(t)
      PROVE  [Promise!Next]_(Promise!vars)
  <2>1. Opened = {} /\ UNCHANGED Opened
    BY <1>4 DEF WipeDb, WipeAssets, IInv, Order, Control, Kinds, Sole, Past, Task, Opened,
      stacks, Stopping
  <2>2. Data' = {} \/ Data' = Data
    BY <1>1, <1>4 DEF WipeDb, WipeAssets, Single, Data
  <2> QED BY <2>1, <2>2 DEF Promise!Next, Promise!Wipe, Promise!vars, Data, Opened
<1>5. ASSUME NEW t \in Task,
             \/ TakeApp(t) \/ StopDaemon(t) \/ StopServices(t) \/ Exit(t) \/ Fail(t) \/ Cancel(t)
      PROVE  [Promise!Next]_(Promise!vars)
  <2>1. UNCHANGED <<cluster, assets>>
    BY <1>5 DEF TakeApp, StopDaemon, StopServices, Exit, Fail, Cancel, disk
  <2>2. CASE parts' = [s \in Task |-> {}]
    BY <2>1, <2>2 DEF Promise!Next, Promise!Close, Data, Opened
  <2>3. CASE UNCHANGED root /\ \A s \in Task : "services" \in parts'[s] => "services" \in parts[s]
    BY <1>1, <2>1, <2>3, Closes
  <2>4. CASE TakeApp(t) \/ StopDaemon(t) \/ StopServices(t)
    <3>1. UNCHANGED root /\ \A s \in Task : "services" \in parts'[s] => "services" \in parts[s]
      BY <2>4 DEF TakeApp, StopDaemon, StopServices, IInv, Order, Control, TypeOK
    <3> QED BY <3>1, <2>3
  <2>5. CASE Exit(t)
    BY <2>5, <2>2 DEF Exit, ProcessEnds
  <2>6. CASE Fail(t)
    <3>1. \/ parts' = [s \in Task |-> {}]
          \/ UNCHANGED root /\ \A s \in Task : "services" \in parts'[s] => "services" \in parts[s]
      BY <2>6 DEF Fail, ProcessEnds, IInv, Order, Control, TypeOK
    <3> QED BY <3>1, <2>2, <2>3
  <2>7. CASE Cancel(t)
    <3>1. UNCHANGED root /\ \A s \in Task : "services" \in parts'[s] => "services" \in parts[s]
      BY <2>7 DEF Cancel, DroppedStacks
    <3> QED BY <3>1, <2>3
  <2> QED BY <1>5, <2>4, <2>5, <2>6, <2>7
<1>6. ASSUME NEW t \in Task, BootProxy(t)  PROVE [Promise!Next]_(Promise!vars)
  <2>1. Opened \subseteq {target[t]}
    BY <1>6 DEF BootProxy, IInv, Order, Control, Sole, Targets, Booting, Opened
  <2>2. Opened' = {target[t]}
    <3>1. root[t] = target[t] /\ \A s \in Task : s # t => parts[s] = {}
      BY <1>6 DEF BootProxy, IInv, Order, Control, Sole, Targets, Booting
    <3>2. parts' = [parts EXCEPT ![t] = Part] /\ UNCHANGED root
      BY <1>6 DEF BootProxy
    <3> QED BY <3>1, <3>2 DEF IInv, Order, Control, TypeOK, Opened, Part
  <2>3. target[t] \in Vault
    BY <1>6 DEF BootProxy, IInv, Order, Control, Kinds, Starting, Targets, Task, RunnerUp,
      StackOp, Stopping
  <2>4. Data \subseteq {target[t]} /\ UNCHANGED Data
    BY <1>6 DEF BootProxy, disk, IInv, Order, Control, Kinds, Starting, Holders, Targets,
      Holdings, Owned, Task, RunnerUp, StackOp, Stopping, Switching, Data
  <2> QED BY <2>1, <2>2, <2>3, <2>4 DEF Promise!Next, Promise!Open, Promise!vars, Data, Opened
<1>7. ASSUME UNCHANGED <<cluster, assets, parts, root>>
      PROVE  [Promise!Next]_(Promise!vars)
  BY <1>7 DEF Promise!vars, Data, Opened
<1>8. CASE Launch \/ Publish
  BY <1>7, <1>8 DEF Launch, Publish, disk, stacks
<1>9. CASE Crash
  BY <1>9 DEF Crash, ProcessEnds, disk, Promise!Next, Promise!Close, Opened
<1>10. ASSUME NEW t \in Task,
              RequestSwitch(t) \/ RequestReboot(t) \/ RequestExit(t) \/ Begin(t) \/ LockTeardown(t)
       PROVE  [Promise!Next]_(Promise!vars)
  BY <1>7, <1>10 DEF RequestSwitch, RequestReboot, RequestExit, Begin, LockTeardown, disk, stacks
<1>11. ASSUME NEW t \in Task,
              Install(t) \/ Mark(t) \/ Drain(t) \/ Stopped(t) \/ WipeIndex(t) \/ Record(t)
              \/ Adopt(t) \/ Clear(t)
       PROVE  [Promise!Next]_(Promise!vars)
  BY <1>7, <1>11 DEF Install, Mark, Drain, Stopped, WipeIndex, Record, Adopt, Clear, disk, stacks
<1>12. ASSUME NEW r \in Request, Arrive(r) \/ LockApp(r) \/ Answer(r)
       PROVE  [Promise!Next]_(Promise!vars)
  BY <1>7, <1>12 DEF Arrive, LockApp, Answer, disk, stacks
<1>13. CASE UNCHANGED vars
  BY <1>7, <1>13 DEF vars, disk, stacks
<1>14. ASSUME NEW v \in Vault, FinishImport(v)  PROVE Promise!Next
  <2>1. PICK s \in Task : Alive(s)
    BY <1>14 DEF FinishImport
  <2>2. root[s] = v
    BY <1>14, <2>1 DEF FinishImport, IInv, LeftOver, Roots, Order, Control, Kinds, Task, Switching
  <2>3. Opened = {v} /\ UNCHANGED Opened
    BY <1>1, <1>14, <2>1, <2>2, OpenedBy DEF FinishImport, Opened, stacks
  <2>4. Data' = {v}
    BY <1>1, <1>14 DEF FinishImport, NoSpill, Data
  <2> QED BY <2>3, <2>4 DEF Promise!Next, Promise!Import, Data, Opened
<1>15. CASE ServersEnd \/ \E v \in Vault : DaemonEnds(v)
  BY <1>7, <1>15 DEF ServersEnd, DaemonEnds, disk
<1> QED
  BY <1>2, <1>3, <1>4, <1>5, <1>6, <1>8, <1>9, <1>10, <1>11, <1>12, <1>13, <1>14, <1>15
     DEF Next, Waits, Works

\* The runner keeps the promise of OneVault: a stack opens alone and over an empty
\* or own state, and only a closed state is wiped.
THEOREM KeepsPromise == ASSUME Closed  PROVE Spec => OneVaultAtATime
<1>1. Init => Promise!Init
  BY DEF Init, Promise!Init, Alive
<1>2. Init => IInv
  BY InitInv
<1>3. IInv /\ [Next]_vars => IInv'
  BY Inductive
<1>4. IInv /\ [Next]_vars => [Promise!Next]_(Promise!vars)
  BY PromiseStep
<1> QED BY <1>1, <1>2, <1>3, <1>4, PTL DEF Spec, OneVaultAtATime, Promise!Spec
=============================================================================
