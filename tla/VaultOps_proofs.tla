--------------------------- MODULE VaultOps_proofs ---------------------------
(***************************************************************************)
(* Deletes, the pause, the manifest and checkpoints, for any number of     *)
(* files, requests and checkpoints and any budget of outside events:       *)
(*                                                                         *)
(*   StaysGone    a file whose delete was answered with ok stays away      *)
(*   PauseKept    deletes leave the pause as the person left it            *)
(*   EntriesStay  an entry leaves the manifest only after its directory    *)
(*   Committed    what a checkpoint saw is in HEAD when it says so         *)
(*                                                                         *)
(* The argument is one invariant.  From the acknowledgement to the end of  *)
(* a delete the daemon stands still (Quieted), unless the person resumed   *)
(* sync under it.  So what the delete takes away nobody puts back before   *)
(* it answers (Removed), and what the daemon does afterwards starts from   *)
(* a database and a tree that both lack the file (Away).                   *)
(***************************************************************************)
EXTENDS VaultOps, TLAPS

\* A delete after its acknowledgement, and the parts of what it has done.
Quiet == {"acked", "deleted", "moved", "trashed", "failing"}
RowGone == {"deleted", "moved", "trashed"}
TreeGone == {"moved", "trashed"}

\* The duplicate may still import onto row i.
DupOn(i) == dup.pc \in {"settle", "reimport"} /\ dup.id = i

-----------------------------------------------------------------------------
(* The parts of the inductive invariant. *)

\* Who holds the delete lock, and that nobody does while there is no daemon.
Held ==
  /\ \A r \in Reqs : (req[r].pc \in Holding) = (lock = r)
  /\ \A r \in Reqs : req[r].pc # "none" => req[r].file \in Ids
  /\ ~Up => lock = None /\ \A r \in Reqs : req[r].pc # "queued"

\* Between an acknowledgement and the end of its delete the daemon does not
\* work, unless the person resumed it: for that file (exposed) and in that run
\* of the daemon (toggled).
Quieted ==
  /\ ~Working => eng.item = None
  /\ \A r \in Reqs :
       req[r].pc \in Quiet /\ (req[r].file \notin exposed \/ ~toggled) => flag /\ ~Working

\* What a delete under way has taken away is away.
Removed ==
  \A r \in Reqs :
    /\ req[r].pc \in RowGone /\ req[r].file \notin exposed
         => db[req[r].file] = "none" /\ ~DupOn(req[r].file)
    /\ req[r].pc \in TreeGone /\ (req[r].file \notin exposed \/ ~toggled)
         => tree[req[r].file] = "none"

\* ... and stays away after the answer; nothing in the daemon's hands or in the
\* duplicate's names it.
Away ==
  \A i \in gone \ exposed :
    /\ db[i] = "none" /\ tree[i] = "none" /\ ~DupOn(i)
    /\ eng.item # None => eng.item.id # i

\* The duplicate works on a row, and has cycles left when it imports again.
Duping ==
  /\ dup.pc \in {"settle", "reimport"} => dup.id \in Ids
  /\ dup.pc = "reimport" => dup.cycles < MaxSettle

\* What the flag is, and what the guard will make of it.
Flagged ==
  Up /\ ~toggled =>
    /\ lock = None => flag = wish
    /\ \A r \in Reqs :
         /\ req[r].pc = "held" => flag = wish /\ req[r].was = wish
         /\ req[r].pc \in Holding \ {"held"} => flag /\ req[r].was = wish
    /\ boot \in {"attach", "done"} /\ ~pref /\ ~resumed => wish

\* The daemon's manifest has every entry of the saved one, and the delete's
\* copy is the saved one: nobody else saves it meanwhile.
Saved ==
  Up /\ ~toggled =>
    /\ man \subseteq mem
    /\ \A r \in Reqs : req[r].pc = "moved" => req[r].copy = man

\* A checkpoint that has staged the vault will commit what it saw of it, or
\* another one did already, or it changed.
Staged ==
  \A c \in Checkpoints : cp[c].pc = "added" => cp[c].saw \cap unsaved \subseteq staged \cup touched[c]

IInv == TypeOK /\ Duping /\ Held /\ Quieted /\ Removed /\ Away /\ Flagged /\ Saved /\ Staged

-----------------------------------------------------------------------------
(* Frames: what groups of actions leave alone. *)

GitStep == UserGit \/ \E c \in Checkpoints : Probe(c) \/ Checkpoint(c)

\* Git changes nothing but what git knows.
LEMMA GitFrame ==
  ASSUME GitStep
  PROVE  UNCHANGED <<vaultVars, engVars, pauseVars, delVars, dup, histVars>>
BY DEF GitStep, UserGit, Probe, Checkpoint, GitInit, GitAdd, GitCommit

DupStep == Duplicate \/ \E i \in Ids : DupStart(i)

\* The duplicate, the drawing and a new file change rows only.
LEMMA RowFrame ==
  ASSUME DupStep \/ new_file \/ (\E i \in Ids : Edit(i))
  PROVE  UNCHANGED <<tree, dirty, man, engVars, pauseVars, delVars, gitVars, histVars>>
BY DEF DupStep, Duplicate, DupStart, DupImport, Settle, Reimport, DupFails, new_file, Edit,
  vaultVars

\* What a pass wants of a file follows from what there is of it.
LEMMA WantsWhatIs ==
  ASSUME NEW i \in Ids, Working
  PROVE  /\ Wants(i) = "export" => db[i] # "none"
         /\ Wants(i) \in {"import", "new"} => tree[i] # "none"
         /\ Wants(i) = "forget" => db[i] = "none" /\ tree[i] = "none"
<1>1. CASE eng.pc = "reconcile"
  <2>1. Wants(i) = decide(i)
    BY <1>1 DEF Wants
  <2> QED
    BY <2>1 DEF decide
<1>2. CASE eng.pc = "poll"
  BY <1>2 DEF Wants
<1>3. CASE eng.pc = "fs"
  <2>1. Wants(i) = CASE tree[i] # "none" /\ i \notin mem          -> "new"
                     [] tree[i] # "none" /\ i \in mem \cap dirty  -> "import"
                     [] OTHER                                      -> "noop"
    BY <1>3 DEF Wants
  <2> QED
    BY <2>1
<1> QED
  BY <1>1, <1>2, <1>3 DEF Working

\* A pass takes a file up to write what it read of it, or it does not.
LEMMA TakesUp ==
  ASSUME NEW i \in Ids, Take(i)
  PROVE  \E item :
           /\ eng' = [eng EXCEPT !.todo = @ \ {i}, !.item = item]
           /\ \/ item = None
              \/ item = [op |-> "export", id |-> i, form |-> db[i]] /\ db[i] # "none"
              \/ /\ item \in {[op |-> "import", id |-> i, form |-> tree[i]],
                             [op |-> "new", id |-> i, form |-> tree[i]]}
                 /\ tree[i] # "none"
<1> DEFINE op == Wants(i)
           item == CASE op = "export" -> [op |-> op, id |-> i, form |-> db[i]]
                     [] op \in {"import", "new"} -> [op |-> op, id |-> i, form |-> tree[i]]
                     [] OTHER -> None
<1>1. eng' = [eng EXCEPT !.todo = @ \ {i}, !.item = item]
  BY DEF Take
<1> HIDE DEF op
<1>2. CASE op = "export"
  <2>1. item = [op |-> "export", id |-> i, form |-> db[i]]
    BY <1>2
  <2> QED
    BY <1>1, <1>2, <2>1, WantsWhatIs DEF Take, op
<1>3. CASE op \in {"import", "new"}
  <2>1. item = [op |-> op, id |-> i, form |-> tree[i]]
    BY <1>3
  <2>2. tree[i] # "none"
    BY <1>3, WantsWhatIs DEF Take, op
  <2>3. item \in {[op |-> "import", id |-> i, form |-> tree[i]],
                 [op |-> "new", id |-> i, form |-> tree[i]]}
    BY <1>3, <2>1
  <2> QED
    BY <1>1, <2>2, <2>3
<1>4. CASE op \notin {"export", "import", "new"}
  <2>1. item = None
    BY <1>4
  <2> QED
    BY <1>1, <2>1
<1> QED
  BY <1>2, <1>3, <1>4

-----------------------------------------------------------------------------
(* The types, part by part: SMT loses its way in all of TypeOK at once. *)

EngOK == eng \in [pc : EngPC, todo : SUBSET Ids, item : Item \cup {None}]
ReqOK ==
  /\ lock \in Reqs \cup {None}
  /\ req \in [Reqs -> [pc : ReqPC, file : Ids \cup {None}, was : BOOLEAN, copy : SUBSET Ids]]
DupOK == dup \in [pc : DupPC, id : Ids \cup {None}, cycles : 0 .. MaxSettle, last : Forms]
CpOK ==
  /\ cp \in [Checkpoints -> [pc : CpPC, saw : SUBSET Ids]]
  /\ repo \in {"none", "free", "busy"}
GitOK ==
  /\ unsaved \subseteq Ids /\ staged \subseteq unsaved
  /\ touched \in [Checkpoints -> SUBSET Ids]
SidesOK ==
  /\ db \in [Ids -> Forms] /\ tree \in [Ids -> Forms]
  /\ moved \subseteq Ids /\ dirty \subseteq Ids /\ man \subseteq Ids /\ mem \subseteq Ids
  /\ due \subseteq Ids
PauseOK ==
  /\ flag \in BOOLEAN /\ news \in BOOLEAN /\ pref \in BOOLEAN /\ want \in BOOLEAN
  /\ boot \in {"prefs", "attach", "done"}
  /\ toggled \in BOOLEAN /\ resumed \in BOOLEAN /\ wish \in BOOLEAN
RestOK ==
  /\ left \in [BudgetKinds -> Nat]
  /\ gone \subseteq Ids /\ exposed \subseteq Ids

LEMMA TypeParts ==
  TypeOK <=> EngOK /\ ReqOK /\ DupOK /\ CpOK /\ GitOK /\ SidesOK /\ PauseOK /\ RestOK
BY DEF TypeOK, EngOK, ReqOK, DupOK, CpOK, GitOK, SidesOK, PauseOK, RestOK

-----------------------------------------------------------------------------
(* The initial states. *)

LEMMA InitIInv ==
  ASSUME Init
  PROVE  IInv
<1> USE IdAssumption, BudgetAssumption
<1>1. EngOK /\ ReqOK
  BY DEF Init, EngOK, ReqOK, Off, EngPC, NoReq, ReqPC
<1>2. DupOK /\ CpOK
  BY DEF Init, DupOK, CpOK, NoDup, DupPC, Forms, NoCp, CpPC
<1>3. GitOK /\ SidesOK /\ PauseOK /\ RestOK
  BY DEF Init, GitOK, SidesOK, PauseOK, RestOK, Ids, Forms
<1>4. Duping /\ Held /\ Removed
  BY DEF Init, Duping, NoDup, Held, Removed, Holding, RowGone, TreeGone, NoReq, Up, Off
<1>5. Quieted /\ Away /\ Flagged
  BY DEF Init, Quieted, Away, Flagged, Quiet, NoReq, Off, Up
<1>6. Saved /\ Staged
  BY DEF Init, Saved, Staged, Off, Up, NoCp
<1> QED
  BY <1>1, <1>2, <1>3, <1>4, <1>5, <1>6, TypeParts DEF IInv

-----------------------------------------------------------------------------
(* Every step keeps the types. *)

LEMMA EngOKStep ==
  ASSUME TypeOK, [Next]_vars
  PROVE  EngOK'
<1> USE TypeParts, IdAssumption DEF EngOK
<1>1. CASE Spawn \/ Crash \/ Reboot
  BY <1>1 DEF Spawn, Crash, Reboot, Off, EngPC
<1>2. CASE PreLoop
  BY <1>2 DEF PreLoop, EngPC
<1>3. CASE FsTick
  BY <1>3 DEF FsTick, SidesOK, EngPC
<1>11. CASE PollTick
  <2>1. PICK changed \in SUBSET Ids : eng' = [eng EXCEPT !.pc = "poll", !.todo = changed]
    BY <1>11 DEF PollTick
  <2> QED
    BY <2>1 DEF EngPC
<1>4. ASSUME NEW i \in Ids, Take(i)
      PROVE  EngOK'
  <2>1. PICK item \in Item \cup {None} : eng' = [eng EXCEPT !.todo = @ \ {i}, !.item = item]
    BY <1>4, TakesUp DEF SidesOK, Item
  <2> QED
    BY <2>1
<1>5. CASE PassFails \/ PassEnds
  BY <1>5 DEF PassFails, PassEnds, EngPC
<1>6. CASE Export \/ Import \/ ImportNew
  BY <1>6 DEF Export, Import, ImportNew
<1>7. CASE GitStep \/ DupStep \/ new_file \/ \E i \in Ids : Edit(i)
  BY <1>7, GitFrame, RowFrame DEF engVars
<1>8. CASE BootPause \/ PauseSeen \/ Ack \/ TrayToggle \/ post_prefs \/ \E i \in Ids : EditTree(i)
  BY <1>8 DEF BootPause, PauseSeen, Ack, TrayToggle, post_prefs, EditTree, engVars
<1>9. ASSUME NEW r \in Reqs, delete_file(r) \/ Delete(r)
      PROVE  EngOK'
  BY <1>9 DEF delete_file, Delete, TakeLock, PauseAndWait, Timeout, RpcDelete, TrashMove,
    TrashSave, DropGuard, engVars
<1>10. CASE UNCHANGED vars
  BY <1>10 DEF vars, engVars
<1> QED
  BY <1>1, <1>2, <1>3, <1>4, <1>5, <1>6, <1>7, <1>8, <1>9, <1>10, <1>11
  DEF Next, Daemon, Pass, Person, DupStep, GitStep

LEMMA ReqOKStep ==
  ASSUME TypeOK, [Next]_vars
  PROVE  ReqOK'
<1> USE TypeParts, IdAssumption DEF ReqOK
<1>1. CASE Crash
  BY <1>1 DEF Crash, ReqPC
<1>2. CASE PreLoop \/ Ack
  BY <1>2 DEF PreLoop, Ack, Acknowledge, ReqPC
<1>3. ASSUME NEW r \in Reqs, delete_file(r)
      PROVE  ReqOK'
  <2>1. PICK i \in Ids : req' = [req EXCEPT ![r] = [NoReq EXCEPT !.pc = "queued", !.file = i]]
    BY <1>3 DEF delete_file
  <2> QED
    BY <1>3, <2>1 DEF delete_file, NoReq, ReqPC
<1>4. ASSUME NEW r \in Reqs, TakeLock(r)
      PROVE  ReqOK'
  <2>1. PICK b \in BOOLEAN : req' = [req EXCEPT ![r].pc = "held", ![r].was = b]
    BY <1>4 DEF TakeLock, PauseOK
  <2>2. lock' = r
    BY <1>4 DEF TakeLock
  <2> QED
    BY <2>1, <2>2 DEF ReqPC
<1>11. ASSUME NEW r \in Reqs, PauseAndWait(r) \/ Timeout(r) \/ DropGuard(r)
      PROVE  ReqOK'
  <2>1. \E pc \in ReqPC : Step(r, pc)
    BY <1>11 DEF PauseAndWait, Timeout, DropGuard, Release, ReqPC
  <2>2. lock' \in {lock, None}
    BY <1>11 DEF PauseAndWait, Timeout, DropGuard, Release
  <2> QED
    BY <2>1, <2>2 DEF Step
<1>5. ASSUME NEW r \in Reqs, RpcDelete(r) \/ TrashSave(r)
      PROVE  ReqOK'
  BY <1>5 DEF RpcDelete, TrashSave, Step, ReqPC
<1>6. ASSUME NEW r \in Reqs, TrashMove(r)
      PROVE  ReqOK'
  <2>1. man \in SUBSET Ids
    BY DEF SidesOK
  <2> QED
    BY <1>6, <2>1 DEF TrashMove, Step, ReqPC
<1>7. CASE GitStep \/ DupStep \/ new_file \/ \E i \in Ids : Edit(i)
  BY <1>7, GitFrame, RowFrame DEF delVars
<1>8. CASE Spawn \/ BootPause \/ PauseSeen \/ FsTick \/ PollTick \/ TrayToggle \/ post_prefs \/ Reboot
  BY <1>8 DEF Spawn, BootPause, PauseSeen, FsTick, PollTick, TrayToggle, post_prefs, Reboot, delVars
<1>9. CASE Pass \/ \E i \in Ids : EditTree(i)
  BY <1>9 DEF Pass, PassFails, PassEnds, Export, Import, ImportNew, Take, EditTree, delVars
<1>10. CASE UNCHANGED vars
  BY <1>10 DEF vars, delVars
<1> QED
  BY <1>1, <1>2, <1>3, <1>4, <1>5, <1>6, <1>7, <1>8, <1>9, <1>10, <1>11
  DEF Next, Daemon, Person, DupStep, GitStep, Delete

LEMMA DupOKStep ==
  ASSUME TypeOK, Duping, [Next]_vars
  PROVE  DupOK' /\ Duping'
<1> USE TypeParts, IdAssumption, BudgetAssumption DEF DupOK, Duping
<1>1. CASE Crash \/ DupFails
  BY <1>1 DEF Crash, DupFails, DupPC
<1>2. CASE \E i \in Ids : DupStart(i)
  BY <1>2 DEF DupStart, NoDup, DupPC, Forms
<1>3. CASE DupImport
  <2>1. PICK j \in Unused : dup' = [dup EXCEPT !.pc = "settle", !.id = j]
    BY <1>3 DEF DupImport
  <2>2. j \in Ids
    BY DEF Unused, Ids
  <2> QED
    BY <2>1, <2>2 DEF DupPC
<1>4. CASE Settle
  <2>1. CASE dup' = [dup EXCEPT !.pc = "done"] \/ dup' = [dup EXCEPT !.pc = "failed"]
    BY <2>1 DEF DupPC
  <2>2. CASE dup' = [dup EXCEPT !.pc = "reimport", !.last = db[dup.id]] /\ dup.cycles < MaxSettle
    <3>1. dup.id \in Ids /\ db[dup.id] \in Forms
      BY <1>4 DEF Settle, SidesOK
    <3> QED
      BY <2>2, <3>1 DEF DupPC
  <2> QED
    BY <1>4, <2>1, <2>2 DEF Settle
<1>5. CASE Reimport
  <2>1. dup.cycles + 1 \in 0 .. MaxSettle
    BY <1>5 DEF Reimport
  <2> QED
    BY <1>5, <2>1 DEF Reimport, DupPC
<1>6. CASE GitStep \/ new_file \/ \E i \in Ids : Edit(i)
  BY <1>6, GitFrame DEF new_file, Edit
<1>7. CASE Spawn \/ BootPause \/ PreLoop \/ PauseSeen \/ FsTick \/ PollTick \/ Ack \/ TrayToggle
             \/ post_prefs \/ Reboot
  BY <1>7 DEF Spawn, BootPause, PreLoop, PauseSeen, FsTick, PollTick, Ack, TrayToggle, post_prefs,
    Reboot
<1>8. CASE Pass \/ \E i \in Ids : EditTree(i)
  BY <1>8 DEF Pass, PassFails, PassEnds, Export, Import, ImportNew, Take, EditTree
<1>9. ASSUME NEW r \in Reqs, delete_file(r) \/ Delete(r)
      PROVE  DupOK' /\ Duping'
  BY <1>9 DEF delete_file, Delete, TakeLock, PauseAndWait, Timeout, RpcDelete, TrashMove,
    TrashSave, DropGuard
<1>10. CASE UNCHANGED vars
  BY <1>10 DEF vars
<1> QED
  BY <1>1, <1>2, <1>3, <1>4, <1>5, <1>6, <1>7, <1>8, <1>9, <1>10
  DEF Next, Daemon, Person, Duplicate, GitStep

LEMMA GitOKStep ==
  ASSUME TypeOK, [Next]_vars
  PROVE  CpOK' /\ GitOK'
<1> USE TypeParts, IdAssumption DEF CpOK, GitOK
<1>1. CASE Crash
  BY <1>1 DEF Crash, CpPC
<1>2. CASE UserGit
  BY <1>2 DEF UserGit
<1>3. ASSUME NEW c \in Checkpoints, Probe(c)
      PROVE  CpOK' /\ GitOK'
  <2>1. PICK pc \in CpPC : cp' = [cp EXCEPT ![c].saw = unsaved, ![c].pc = pc]
    BY <1>3 DEF Probe, CpPC
  <2>2. touched' = [touched EXCEPT ![c] = {}] /\ UNCHANGED <<unsaved, staged, repo>>
    BY <1>3 DEF Probe
  <2> QED
    BY <2>1, <2>2
<1>4. ASSUME NEW c \in Checkpoints, Checkpoint(c)
      PROVE  CpOK' /\ GitOK'
  BY <1>4 DEF Checkpoint, GitInit, GitAdd, GitCommit, CpPC
<1>5. ASSUME NEW i \in Ids, Touch(i), UNCHANGED <<cp, repo>>
      PROVE  CpOK' /\ GitOK'
  BY <1>5 DEF Touch
<1>6. CASE Export
  <2>1. eng.item.id \in Ids
    BY <1>6 DEF Export, EngOK, Item
  <2> QED
    BY <1>5, <1>6, <2>1 DEF Export
<1>7. ASSUME NEW i \in Ids, EditTree(i)
      PROVE  CpOK' /\ GitOK'
  BY <1>5, <1>7 DEF EditTree
<1>8. ASSUME NEW r \in Reqs, TrashMove(r)
      PROVE  CpOK' /\ GitOK'
  <2>1. CASE req[r].file \in Ids
    BY <1>5, <1>8, <2>1 DEF TrashMove
  <2>2. CASE req[r].file \notin Ids
    BY <1>8, <2>2 DEF TrashMove, SidesOK
  <2> QED
    BY <2>1, <2>2
<1>9. CASE DupStep \/ new_file \/ \E i \in Ids : Edit(i)
  BY <1>9, RowFrame DEF gitVars
<1>10. CASE Spawn \/ BootPause \/ PreLoop \/ PauseSeen \/ FsTick \/ PollTick \/ Ack \/ TrayToggle
             \/ post_prefs \/ Reboot
  BY <1>10 DEF Spawn, BootPause, PreLoop, PauseSeen, FsTick, PollTick, Ack, TrayToggle, post_prefs,
    Reboot, gitVars
<1>11. CASE PassFails \/ PassEnds \/ Import \/ ImportNew \/ \E i \in Ids : Take(i)
  BY <1>11 DEF PassFails, PassEnds, Import, ImportNew, Take, gitVars
<1>12. ASSUME NEW r \in Reqs, delete_file(r) \/ TakeLock(r) \/ PauseAndWait(r) \/ Timeout(r)
                                \/ RpcDelete(r) \/ TrashSave(r) \/ DropGuard(r)
       PROVE  CpOK' /\ GitOK'
  BY <1>12 DEF delete_file, TakeLock, PauseAndWait, Timeout, RpcDelete, TrashSave, DropGuard, gitVars
<1>13. CASE UNCHANGED vars
  BY <1>13 DEF vars, gitVars
<1> QED
  BY <1>1, <1>2, <1>3, <1>4, <1>6, <1>7, <1>8, <1>9, <1>10, <1>11, <1>12, <1>13
  DEF Next, Daemon, Pass, Person, DupStep, Delete

LEMMA SidesOKStep ==
  ASSUME TypeOK, Duping, Held, [Next]_vars
  PROVE  SidesOK'
<1> USE TypeParts, IdAssumption DEF SidesOK
<1>1. CASE Spawn \/ Crash \/ Reboot \/ FsTick \/ PauseSeen
  BY <1>1 DEF Spawn, Crash, Reboot, FsTick, PauseSeen, vaultVars
<1>2. CASE BootPause \/ PreLoop \/ PollTick \/ Ack \/ TrayToggle \/ post_prefs \/ PassFails \/ PassEnds
  BY <1>2 DEF BootPause, PreLoop, PollTick, Ack, TrayToggle, post_prefs, PassFails, PassEnds,
    vaultVars, engVars
<1>3. ASSUME NEW i \in Ids, Take(i)
      PROVE  SidesOK'
  BY <1>3 DEF Take
<1>4. ASSUME eng.item # None, eng.item \in Item
      PROVE  eng.item.id \in Ids /\ eng.item.form \in Forms
  BY <1>4 DEF Item
<1>5. CASE Export
  BY <1>4, <1>5 DEF Export, EngOK
<1>6. CASE Import
  BY <1>4, <1>6 DEF Import, EngOK
<1>7. CASE ImportNew
  <2>1. PICK j \in Ids :
          /\ db' = [db EXCEPT ![j] = eng.item.form]
          /\ tree' = [tree EXCEPT ![eng.item.id] = "none", ![j] = tree[eng.item.id]]
          /\ mem' = mem \cup {j} /\ man' = mem'
    BY <1>7 DEF ImportNew, Unused, Ids
  <2>2. tree[eng.item.id] \in Forms /\ eng.item.form \in Forms
    BY <1>4, <1>7 DEF ImportNew, EngOK
  <2> QED
    BY <1>7, <2>1, <2>2 DEF ImportNew, Forms
<1>8. CASE new_file \/ \E i \in Ids : Edit(i) \/ EditTree(i)
  BY <1>8 DEF new_file, Edit, EditTree, Unused, Ids, Forms, engVars
<1>9. CASE DupStep
  BY <1>9 DEF DupStep, Duplicate, DupStart, DupImport, Settle, Reimport, DupFails, Unused, Ids,
    Forms, Duping, vaultVars, engVars
<1>10. CASE GitStep
  BY <1>10, GitFrame DEF vaultVars, engVars
<1>11. ASSUME NEW r \in Reqs, delete_file(r) \/ TakeLock(r) \/ PauseAndWait(r) \/ Timeout(r)
                                \/ DropGuard(r)
       PROVE  SidesOK'
  BY <1>11 DEF delete_file, TakeLock, PauseAndWait, Timeout, DropGuard, vaultVars, engVars
<1>12. ASSUME NEW r \in Reqs, RpcDelete(r) \/ TrashMove(r)
       PROVE  SidesOK'
  BY <1>12 DEF RpcDelete, TrashMove, Forms, engVars
<1>13. ASSUME NEW r \in Reqs, TrashSave(r)
       PROVE  SidesOK'
  <2>1. req[r].copy \subseteq Ids
    BY DEF ReqOK
  <2> QED
    BY <1>13, <2>1 DEF TrashSave, engVars
<1>14. CASE UNCHANGED vars
  BY <1>14 DEF vars, vaultVars, engVars
<1> QED
  BY <1>1, <1>2, <1>3, <1>5, <1>6, <1>7, <1>8, <1>9, <1>10, <1>11, <1>12, <1>13, <1>14
  DEF Next, Daemon, Pass, Person, DupStep, GitStep, Delete

LEMMA PauseOKStep ==
  ASSUME TypeOK, [Next]_vars
  PROVE  PauseOK'
<1> USE TypeParts DEF PauseOK
<1>1. CASE Spawn \/ Crash \/ Reboot \/ PauseSeen
  BY <1>1 DEF Spawn, Crash, Reboot, PauseSeen, pauseVars, histVars
<1>2. CASE BootPause \/ TrayToggle \/ post_prefs
  BY <1>2, Zenon DEF BootPause, TrayToggle, post_prefs, SetFlag, Moved, histVars
<1>3. CASE PreLoop
  BY <1>3 DEF PreLoop, histVars
<1>4. CASE FsTick \/ PollTick \/ Ack \/ PassFails \/ PassEnds \/ Export \/ Import \/ ImportNew
           \/ \E i \in Ids : Take(i) \/ EditTree(i)
  <2>1. UNCHANGED <<pauseVars, histVars>>
    BY <1>4 DEF FsTick, PollTick, Ack, PassFails, PassEnds, Export, Import, ImportNew, Take, EditTree
  <2> QED
    BY <2>1 DEF pauseVars, histVars
<1>5. CASE GitStep \/ DupStep \/ new_file \/ \E i \in Ids : Edit(i)
  BY <1>5, GitFrame, RowFrame DEF pauseVars, histVars
<1>6. ASSUME NEW r \in Reqs, PauseAndWait(r) \/ Timeout(r) \/ DropGuard(r)
      PROVE  PauseOK'
  BY <1>6 DEF PauseAndWait, Timeout, DropGuard, Release, SetFlag, histVars
<1>7. ASSUME NEW r \in Reqs, delete_file(r) \/ TakeLock(r) \/ RpcDelete(r) \/ TrashMove(r)
                               \/ TrashSave(r)
      PROVE  PauseOK'
  BY <1>7 DEF delete_file, TakeLock, RpcDelete, TrashMove, TrashSave, pauseVars, histVars
<1>8. CASE UNCHANGED vars
  BY <1>8 DEF vars, pauseVars, histVars
<1> QED
  BY <1>1, <1>2, <1>3, <1>4, <1>5, <1>6, <1>7, <1>8
  DEF Next, Daemon, Pass, Person, DupStep, GitStep, Delete

LEMMA RestOKStep ==
  ASSUME TypeOK, Held, [Next]_vars
  PROVE  RestOK'
<1> USE TypeParts DEF RestOK
<1> USE DEF BudgetKinds
<1>1. ASSUME NEW k \in BudgetKinds, Spend(k)
      PROVE  left' \in [BudgetKinds -> Nat]
  BY <1>1 DEF Spend
<1>2. CASE Spawn \/ BootPause \/ Crash \/ Reboot \/ TrayToggle \/ post_prefs
  <2>1. left' \in [BudgetKinds -> Nat]
    BY <1>1, <1>2 DEF Spawn, BootPause, Crash, Reboot, TrayToggle, post_prefs
  <2>2. gone' = gone
    BY <1>2 DEF Spawn, BootPause, Crash, Reboot, TrayToggle, post_prefs, histVars
  <2>3. lock # None => lock \in Reqs /\ req[lock].pc \in Holding
    BY DEF ReqOK, Held
  <2>4. lock # None => req[lock].file \in Ids
    BY <2>3 DEF Held, Holding
  <2>5. exposed' \subseteq Ids
    BY <1>2, <2>4 DEF Spawn, BootPause, Crash, Reboot, TrayToggle, post_prefs, Moved, histVars
  <2> QED
    BY <2>1, <2>2, <2>5
<1>3. CASE PreLoop \/ PauseSeen \/ FsTick \/ PollTick \/ Ack \/ PassFails \/ PassEnds \/ Export
           \/ Import \/ ImportNew \/ \E i \in Ids : Take(i) \/ EditTree(i)
  BY <1>1, <1>3 DEF PreLoop, PauseSeen, FsTick, PollTick, Ack, PassFails, PassEnds, Export, Import,
    ImportNew, Take, EditTree, histVars
<1>4. CASE DupStep \/ new_file \/ \E i \in Ids : Edit(i)
  BY <1>1, <1>4 DEF DupStep, Duplicate, DupStart, DupImport, Settle, Reimport, DupFails, new_file,
    Edit, histVars
<1>5. CASE GitStep
  BY <1>1, <1>5 DEF GitStep, UserGit, Probe, Checkpoint, GitInit, GitAdd, GitCommit, histVars
<1>6. ASSUME NEW r \in Reqs, delete_file(r) \/ TakeLock(r) \/ PauseAndWait(r) \/ Timeout(r)
                               \/ TrashMove(r) \/ TrashSave(r)
      PROVE  RestOK'
  BY <1>1, <1>6 DEF delete_file, TakeLock, PauseAndWait, Timeout, TrashMove, TrashSave, histVars
<1>7. ASSUME NEW r \in Reqs, RpcDelete(r) \/ DropGuard(r)
      PROVE  RestOK'
  <2>1. req[r].file \in Ids
    BY <1>7 DEF RpcDelete, DropGuard, Held
  <2> QED
    BY <1>1, <1>7, <2>1 DEF RpcDelete, DropGuard
<1>8. CASE UNCHANGED vars
  BY <1>8 DEF vars, histVars
<1> QED
  BY <1>2, <1>3, <1>4, <1>5, <1>6, <1>7, <1>8
  DEF Next, Daemon, Pass, Person, DupStep, GitStep, Delete

LEMMA TypeOKStep ==
  ASSUME TypeOK, Duping, Held, [Next]_vars
  PROVE  TypeOK' /\ Duping'
<1>1. EngOK' /\ ReqOK' /\ DupOK' /\ CpOK' /\ GitOK' /\ SidesOK' /\ PauseOK' /\ RestOK' /\ Duping'
  BY EngOKStep, ReqOKStep, DupOKStep, GitOKStep, SidesOKStep, PauseOKStep, RestOKStep
<1> QED
  BY <1>1, TypeParts, PTL

-----------------------------------------------------------------------------
(* What the steps of a delete make of the requests. *)

\* Before it has an acknowledgement, and at its end.
LEMMA OutsideQuiet ==
  ASSUME TypeOK, NEW r \in Reqs,
         delete_file(r) \/ TakeLock(r) \/ PauseAndWait(r) \/ Timeout(r) \/ DropGuard(r)
  PROVE  /\ req'[r].pc \in {"queued", "held", "waiting", "ok", "failed"}
         /\ \A q \in Reqs \ {r} : req'[q] = req[q]
<1> USE TypeParts DEF ReqOK
<1>1. CASE delete_file(r)
  <2>1. PICK i \in Ids : req' = [req EXCEPT ![r] = [NoReq EXCEPT !.pc = "queued", !.file = i]]
    BY <1>1 DEF delete_file
  <2> QED
    BY <2>1 DEF NoReq
<1>2. CASE TakeLock(r)
  <2>1. req' = [req EXCEPT ![r].pc = "held", ![r].was = flag]
    BY <1>2 DEF TakeLock
  <2> QED
    BY <2>1
<1>3. CASE PauseAndWait(r) \/ Timeout(r) \/ DropGuard(r)
  <2>1. Step(r, "waiting") \/ Step(r, "ok") \/ Step(r, "failed")
    BY <1>3 DEF PauseAndWait, Timeout, DropGuard, Release
  <2> QED
    BY <2>1 DEF Step
<1> QED
  BY <1>1, <1>2, <1>3

\* Between the two.
LEMMA InsideQuiet ==
  ASSUME TypeOK, NEW r \in Reqs, RpcDelete(r) \/ TrashMove(r) \/ TrashSave(r)
  PROVE  /\ req[r].pc \in Quiet /\ req'[r].pc \in Quiet
         /\ req'[r].file = req[r].file /\ req'[r].was = req[r].was
         /\ \A q \in Reqs \ {r} : req'[q] = req[q]
<1> USE TypeParts DEF ReqOK
<1>1. PICK pc \in Quiet : Step(r, pc) \/ req' = [req EXCEPT ![r].pc = pc, ![r].copy = man]
  BY DEF RpcDelete, TrashMove, TrashSave, Quiet
<1> QED
  BY <1>1 DEF RpcDelete, TrashMove, TrashSave, Step, Quiet

\* The acknowledgement.
LEMMA Acknowledged ==
  ASSUME TypeOK, Acknowledge
  PROVE  \A r \in Reqs :
           /\ req'[r].pc = IF req[r].pc = "waiting" THEN "acked" ELSE req[r].pc
           /\ req'[r].file = req[r].file /\ req'[r].was = req[r].was /\ req'[r].copy = req[r].copy
BY TypeParts DEF Acknowledge, ReqOK

-----------------------------------------------------------------------------
(* Who holds the lock. *)
LEMMA HeldStep ==
  ASSUME TypeOK, Held, [Next]_vars
  PROVE  Held'
<1> USE TypeParts, IdAssumption DEF Held, Up
<1>1. CASE Crash
  BY <1>1 DEF Crash, Holding, ReqOK, Off
<1>2. CASE Reboot
  BY <1>2 DEF Reboot, delVars
<1>3. CASE PreLoop
  <2>1. Acknowledge \/ req' = req
    BY <1>3 DEF PreLoop
  <2>2. lock' = lock /\ Up /\ Up'
    BY <1>3 DEF PreLoop, EngOK
  <2> QED
    BY <2>1, <2>2 DEF Acknowledge, Holding, ReqOK
<1>4. CASE Ack
  BY <1>4 DEF Ack, Acknowledge, Holding, ReqOK, engVars
<1>5. ASSUME NEW r \in Reqs, delete_file(r)
      PROVE  Held'
  <2>1. req[r].pc = "none"
    BY <1>5 DEF delete_file
  <2>2. PICK i \in Ids : req' = [req EXCEPT ![r] = [NoReq EXCEPT !.pc = "queued", !.file = i]]
    BY <1>5 DEF delete_file
  <2> QED
    BY <1>5, <2>1, <2>2 DEF delete_file, NoReq, Holding, ReqOK, engVars, Up
<1>6. ASSUME NEW r \in Reqs, TakeLock(r)
      PROVE  Held'
  BY <1>6 DEF TakeLock, Holding, ReqOK, engVars
<1>7. ASSUME NEW r \in Reqs, PauseAndWait(r) \/ RpcDelete(r) \/ TrashMove(r) \/ TrashSave(r)
      PROVE  Held'
  <2>1. PICK pc \in Holding : Step(r, pc) \/ req' = [req EXCEPT ![r].pc = pc, ![r].copy = man]
    BY <1>7 DEF PauseAndWait, RpcDelete, TrashMove, TrashSave, Holding
  <2>2. lock = r /\ lock' = lock /\ eng' = eng
    BY <1>7 DEF PauseAndWait, RpcDelete, TrashMove, TrashSave, Holding, engVars
  <2> QED
    BY <2>1, <2>2 DEF Step, Holding, ReqOK
<1>8. ASSUME NEW r \in Reqs, Timeout(r) \/ DropGuard(r)
      PROVE  Held'
  <2>1. Step(r, "ok") \/ Step(r, "failed")
    BY <1>8 DEF Timeout, DropGuard, Release
  <2>2. lock = r /\ lock' = None /\ eng' = eng
    BY <1>8 DEF Timeout, DropGuard, Release, Holding, engVars
  <2> QED
    BY <2>1, <2>2 DEF Step, Holding, ReqOK
<1>9. CASE Spawn \/ BootPause \/ PauseSeen \/ FsTick \/ PollTick \/ TrayToggle \/ post_prefs
  BY <1>9 DEF Spawn, BootPause, PauseSeen, FsTick, PollTick, TrayToggle, post_prefs, delVars,
    engVars, EngOK
<1>10. CASE PassFails \/ PassEnds \/ Export \/ Import \/ ImportNew \/ \E i \in Ids : Take(i) \/ EditTree(i)
  <2>1. UNCHANGED delVars
    BY <1>10 DEF PassFails, PassEnds, Export, Import, ImportNew, Take, EditTree
  <2>2. Up => Up'
    BY <1>10, TakesUp DEF PassFails, PassEnds, Export, Import, ImportNew, EditTree, EngOK, engVars
  <2>3. Up \/ UNCHANGED eng
    BY <1>10 DEF PassFails, PassEnds, Export, Import, ImportNew, Take, EditTree, Working, engVars
  <2> QED
    BY <2>1, <2>2, <2>3 DEF delVars
<1>11. CASE GitStep \/ DupStep \/ new_file \/ \E i \in Ids : Edit(i)
  BY <1>11, GitFrame, RowFrame DEF delVars, engVars
<1>12. CASE UNCHANGED vars
  BY <1>12 DEF vars, delVars, engVars
<1> QED
  BY <1>1, <1>2, <1>3, <1>4, <1>5, <1>6, <1>7, <1>8, <1>9, <1>10, <1>11, <1>12
  DEF Next, Daemon, Pass, Person, DupStep, GitStep, Delete

-----------------------------------------------------------------------------
(* From its acknowledgement to its end a delete has the daemon stand still. *)
LEMMA QuietedStep ==
  ASSUME TypeOK, Held, Quieted, [Next]_vars
  PROVE  Quieted'
<1> USE TypeParts, IdAssumption DEF Quieted, Working
<1>1. \A r \in Reqs : req[r].pc \in Quiet => lock = r
  BY DEF Held, Holding, Quiet
<1>2. CASE Crash
  BY <1>2 DEF Crash, Quiet, ReqOK, Off
<1>3. CASE Spawn \/ Reboot
  <2>1. lock = None
    BY <1>3 DEF Spawn, Reboot, Held, Up
  <2> QED
    BY <1>1, <1>3, <2>1 DEF Spawn, Reboot, delVars, Off
<1>4. CASE PreLoop
  <2>1. eng.item = None /\ ~Working /\ UNCHANGED <<flag, exposed, toggled>>
    BY <1>4 DEF PreLoop, histVars
  <2>2. CASE flag /\ eng' = [eng EXCEPT !.pc = "parked"] /\ Acknowledge
    BY <2>1, <2>2 DEF Acknowledge, Quiet, ReqOK, EngOK
  <2>3. CASE ~flag /\ eng' = [eng EXCEPT !.pc = "reconcile", !.todo = Ids] /\ UNCHANGED req
    BY <2>1, <2>3 DEF EngOK
  <2>4. CASE eng' = [eng EXCEPT !.pc = "start"] /\ UNCHANGED req
    BY <2>1, <2>4 DEF EngOK
  <2> QED
    BY <1>4, <2>2, <2>3, <2>4 DEF PreLoop
<1>5. CASE FsTick \/ PollTick
  <2>1. ~flag /\ eng.item = None /\ eng'.item = None /\ UNCHANGED <<req, exposed, toggled>>
    BY <1>5 DEF FsTick, PollTick, delVars, histVars, EngOK
  <2>2. \A r \in Reqs : ~(req[r].pc \in Quiet /\ (req[r].file \notin exposed \/ ~toggled))
    BY <2>1
  <2> QED
    BY <2>1, <2>2
<1>6. CASE Ack
  <2>1. flag /\ ~Working /\ UNCHANGED <<flag, exposed, toggled, eng>>
    BY <1>6 DEF Ack, pauseVars, engVars, histVars
  <2> QED
    BY <1>6, <2>1, Acknowledged DEF Ack
<1>7. CASE Pass
  <2>1. UNCHANGED <<req, exposed, toggled>>
    BY <1>7 DEF Pass, PassFails, PassEnds, Export, Import, ImportNew, Take, delVars, histVars
  <2>2. Working
    BY <1>7 DEF Pass, PassFails, PassEnds, Export, Import, ImportNew, Take
  <2>3. eng'.item = None \/ Working'
    BY <1>7 DEF Pass, PassFails, PassEnds, Export, Import, ImportNew, Take, EngOK
  <2> QED
    BY <2>1, <2>2, <2>3
<1>8. CASE BootPause
  <2>1. UNCHANGED <<req, exposed, eng>> /\ (flag => flag') /\ (toggled => toggled')
    BY <1>8 DEF BootPause, SetFlag, delVars, engVars
  <2> QED
    BY <2>1
<1>9. CASE TrayToggle \/ post_prefs
  <2>1. UNCHANGED <<req, eng>> /\ Moved
    BY <1>9 DEF TrayToggle, post_prefs, delVars, engVars
  <2>2. CASE flag'
    BY <2>1, <2>2 DEF Moved
  <2>3. CASE ~flag'
    BY <1>1, <2>1, <2>3 DEF Moved
  <2> QED
    BY <2>2, <2>3
<1>10. ASSUME NEW r \in Reqs, delete_file(r) \/ TakeLock(r)
       PROVE  Quieted'
  <2>1. req'[r].pc \notin Quiet /\ \A q \in Reqs \ {r} : req'[q] = req[q]
    BY <1>10, OutsideQuiet DEF Quiet
  <2>2. UNCHANGED <<flag, exposed, toggled, eng>>
    BY <1>10 DEF delete_file, TakeLock, pauseVars, histVars, engVars
  <2> QED
    BY <2>1, <2>2
<1>11. ASSUME NEW r \in Reqs, PauseAndWait(r) \/ Timeout(r) \/ DropGuard(r)
       PROVE  Quieted'
  <2>1. req'[r].pc \notin Quiet /\ \A q \in Reqs \ {r} : req'[q] = req[q]
    BY <1>11, OutsideQuiet DEF Quiet
  <2>2. lock = r /\ UNCHANGED eng
    BY <1>11 DEF PauseAndWait, Timeout, DropGuard, Held, Holding, engVars
  <2> QED
    BY <1>1, <2>1, <2>2
<1>12. ASSUME NEW r \in Reqs, RpcDelete(r) \/ TrashMove(r) \/ TrashSave(r)
       PROVE  Quieted'
  <2>1. /\ req[r].pc \in Quiet /\ req'[r].file = req[r].file
        /\ \A q \in Reqs \ {r} : req'[q] = req[q]
    BY <1>12, InsideQuiet
  <2>2. UNCHANGED <<flag, toggled, eng>> /\ exposed \subseteq exposed'
    BY <1>12 DEF RpcDelete, TrashMove, TrashSave, pauseVars, histVars, engVars
  <2> QED
    BY <2>1, <2>2
<1>13. CASE \/ PauseSeen \/ GitStep \/ DupStep \/ new_file \/ UNCHANGED vars
            \/ \E i \in Ids : Edit(i) \/ EditTree(i)
  <2>1. UNCHANGED <<req, flag, exposed, toggled, eng>>
    BY <1>13, GitFrame, RowFrame
    DEF PauseSeen, EditTree, vars, delVars, pauseVars, histVars, engVars
  <2> QED
    BY <2>1
<1> QED
  BY <1>2, <1>3, <1>4, <1>5, <1>6, <1>7, <1>8, <1>9, <1>10, <1>11, <1>12, <1>13
  DEF Next, Daemon, Person, DupStep, GitStep, Delete

-----------------------------------------------------------------------------
(* Nobody brings back what a delete under way has taken away. *)
LEMMA RemovedStep ==
  ASSUME TypeOK, Duping, Held, Quieted, Removed, [Next]_vars
  PROVE  Removed'
<1> USE TypeParts, IdAssumption DEF Removed
<1>1. \A r \in Reqs : req[r].pc \in Quiet => lock = r /\ req[r].file \in Ids
  BY DEF Held, Holding, Quiet
<1>2. RowGone \subseteq Quiet /\ TreeGone \subseteq RowGone
  BY DEF RowGone, TreeGone, Quiet
<1>3. CASE Crash
  BY <1>3 DEF Crash, RowGone, TreeGone, ReqOK
<1>4. CASE Spawn
  <2>1. lock = None
    BY <1>4 DEF Spawn, Held, Up
  <2> QED
    BY <1>1, <1>2, <1>4, <2>1 DEF Spawn, delVars
<1>5. ASSUME Acknowledge, UNCHANGED <<db, tree, dup, exposed, toggled>>
      PROVE  Removed'
  BY <1>5 DEF Acknowledge, RowGone, TreeGone, DupOn, ReqOK
<1>6. CASE PreLoop \/ Ack
  <2>1. (Acknowledge \/ UNCHANGED req) /\ UNCHANGED <<db, tree, dup, exposed, toggled>>
    BY <1>6 DEF PreLoop, Ack, vaultVars, histVars
  <2> QED
    BY <1>5, <2>1 DEF DupOn
<1>7. CASE Pass
  <2>1. UNCHANGED <<req, dup, exposed, toggled>> /\ Working
    BY <1>7 DEF Pass, PassFails, PassEnds, Export, Import, ImportNew, Take, delVars, histVars
  <2>2. \A r \in Reqs : ~(req[r].pc \in Quiet /\ (req[r].file \notin exposed \/ ~toggled))
    BY <2>1 DEF Quieted
  <2> QED
    BY <1>2, <2>1, <2>2
<1>8. CASE BootPause \/ TrayToggle \/ post_prefs
  <2>1. UNCHANGED <<req, db, tree, dup>> /\ exposed \subseteq exposed' /\ (toggled => toggled')
    BY <1>8 DEF BootPause, TrayToggle, post_prefs, Moved, delVars, vaultVars
  <2> QED
    BY <2>1 DEF DupOn
<1>9. ASSUME NEW r \in Reqs, delete_file(r) \/ TakeLock(r) \/ PauseAndWait(r) \/ Timeout(r) \/ DropGuard(r)
      PROVE  Removed'
  <2>1. req'[r].pc \notin RowGone /\ \A q \in Reqs \ {r} : req'[q] = req[q]
    BY <1>9, OutsideQuiet DEF RowGone
  <2>2. UNCHANGED <<db, tree, dup, exposed, toggled>>
    BY <1>9 DEF delete_file, TakeLock, PauseAndWait, Timeout, DropGuard, vaultVars, histVars
  <2> QED
    BY <1>2, <2>1, <2>2 DEF DupOn
<1>10. ASSUME NEW r \in Reqs, RpcDelete(r)
       PROVE  Removed'
  <2>1. lock = r /\ req[r].file \in Ids /\ UNCHANGED <<tree, dup, toggled>>
    BY <1>1, <1>10 DEF RpcDelete, Quiet
  <2>2. \A q \in Reqs \ {r} : req'[q] = req[q] /\ req[q].pc \notin RowGone
    BY <1>1, <1>2, <1>10, <2>1 DEF RpcDelete, Step, ReqOK
  <2>3. req'[r].file = req[r].file /\ req'[r].pc \in {"deleted", "failing"}
    BY <1>10 DEF RpcDelete, Step, ReqOK
  <2>4. req'[r].pc = "deleted" /\ req[r].file \notin exposed'
          => db'[req[r].file] = "none" /\ ~DupOn(req[r].file)
    BY <1>10, <2>1 DEF RpcDelete, Step, ReqOK, SidesOK, DupOn
  <2> QED
    BY <1>2, <2>1, <2>2, <2>3, <2>4 DEF DupOn, RowGone, TreeGone
<1>11. ASSUME NEW r \in Reqs, TrashMove(r)
       PROVE  Removed'
  <2>1. lock = r /\ req[r].file \in Ids /\ UNCHANGED <<db, dup, exposed, toggled>>
    BY <1>1, <1>11 DEF TrashMove, Quiet, histVars
  <2>2. \A q \in Reqs \ {r} : req'[q] = req[q] /\ req[q].pc \notin RowGone
    BY <1>1, <1>2, <1>11, <2>1 DEF TrashMove, Step, ReqOK
  <2>3. req[r].pc \in RowGone /\ req'[r].file = req[r].file
    BY <1>11 DEF TrashMove, Step, ReqOK, RowGone
  <2>4. req'[r].pc \in TreeGone => tree'[req[r].file] = "none"
    BY <1>11, <2>1 DEF TrashMove, Step, ReqOK, SidesOK, TreeGone
  <2> QED
    BY <1>2, <2>1, <2>2, <2>3, <2>4 DEF DupOn
<1>12. ASSUME NEW r \in Reqs, TrashSave(r)
       PROVE  Removed'
  <2>1. /\ req[r].pc \in TreeGone /\ req'[r].file = req[r].file
        /\ \A q \in Reqs \ {r} : req'[q] = req[q]
        /\ UNCHANGED <<db, tree, dup, exposed, toggled>>
    BY <1>12 DEF TrashSave, Step, ReqOK, TreeGone, histVars
  <2> QED
    BY <1>2, <2>1 DEF DupOn
<1>13. CASE new_file \/ DupStep \/ \E i \in Ids : Edit(i)
  <2>1. UNCHANGED <<req, tree, exposed, toggled>>
    BY <1>13, RowFrame DEF delVars, histVars
  <2>2. ASSUME NEW r \in Reqs, req[r].pc \in RowGone, req[r].file \notin exposed
        PROVE  db'[req[r].file] = "none" /\ ~DupOn(req[r].file)'
    <3>1. req[r].file \in Ids /\ db[req[r].file] = "none" /\ ~DupOn(req[r].file)
      BY <1>1, <1>2, <2>2
    <3>2. req[r].file \notin Unused
      BY DEF Unused
    <3>3. CASE new_file \/ \E i \in Ids : Edit(i)
      <4>1. UNCHANGED dup /\ \E i \in Ids \ {req[r].file} : db' = [db EXCEPT ![i] = "fixed"]
        BY <3>1, <3>2, <3>3 DEF new_file, Edit, Unused, Ids
      <4> QED
        BY <2>1, <3>1, <4>1 DEF SidesOK, DupOn
    <3>4. CASE DupImport
      <4>1. PICK j \in Ids \ {req[r].file} :
              db' = [db EXCEPT ![j] = "raw"] /\ dup' = [dup EXCEPT !.pc = "settle", !.id = j]
        BY <3>2, <3>4 DEF DupImport, Unused, Ids
      <4> QED
        BY <2>1, <3>1, <4>1 DEF SidesOK, DupOK, DupOn
    <3>5. CASE Settle
      <4>1. UNCHANGED db /\ dup.pc = "settle" /\ dup'.id = dup.id
        BY <3>5 DEF Settle, DupOK
      <4> QED
        BY <2>1, <3>1, <4>1 DEF DupOn
    <3>6. CASE Reimport
      BY <2>1, <3>1, <3>6 DEF Reimport, SidesOK, DupOK, DupOn
    <3>7. CASE DupFails \/ \E i \in Ids : DupStart(i)
      BY <2>1, <3>1, <3>7 DEF DupFails, DupStart, DupOK, DupOn, NoDup, vaultVars
    <3> QED
      BY <1>13, <3>3, <3>4, <3>5, <3>6, <3>7 DEF DupStep, Duplicate
  <2> QED
    BY <2>1, <2>2
<1>14. CASE PauseSeen \/ FsTick \/ PollTick \/ Reboot \/ GitStep \/ UNCHANGED vars \/ \E i \in Ids : EditTree(i)
  <2>1. UNCHANGED <<req, db, tree, dup, exposed, toggled>>
    BY <1>14, GitFrame
    DEF PauseSeen, FsTick, PollTick, Reboot, EditTree, vars, delVars, vaultVars, histVars
  <2> QED
    BY <2>1 DEF DupOn
<1> QED
  BY <1>3, <1>4, <1>6, <1>7, <1>8, <1>9, <1>10, <1>11, <1>12, <1>13, <1>14
  DEF Next, Daemon, Person, DupStep, GitStep, Delete

-----------------------------------------------------------------------------
(* What a delete took away and answered for stays away. *)
LEMMA AwayStep ==
  ASSUME TypeOK, Duping, Held, Quieted, Removed, Away, [Next]_vars
  PROVE  Away'
<1> USE TypeParts, IdAssumption DEF Away
<1>1. gone \subseteq Ids
  BY DEF RestOK
<1>2. CASE Spawn \/ Crash \/ Reboot
  <2>1. UNCHANGED <<db, tree, gone, exposed>> /\ eng'.item = None
    BY <1>2 DEF Spawn, Crash, Reboot, Off, vaultVars, histVars
  <2>2. \A i \in Ids : DupOn(i)' => DupOn(i)
    BY <1>2 DEF Spawn, Crash, Reboot, DupOn, DupOK
  <2> QED
    BY <1>1, <2>1, <2>2
<1>3. CASE PreLoop \/ PauseSeen \/ FsTick \/ PollTick \/ Ack \/ PassFails \/ PassEnds
  <2>1. UNCHANGED <<db, tree, dup, gone, exposed>> /\ eng'.item \in {eng.item, None}
    BY <1>3 DEF PreLoop, PauseSeen, FsTick, PollTick, Ack, PassFails, PassEnds, EngOK, vaultVars,
      engVars, histVars
  <2> QED
    BY <2>1 DEF DupOn
<1>4. ASSUME NEW k \in Ids, Take(k)
      PROVE  Away'
  <2>1. UNCHANGED <<db, tree, dup, gone, exposed>>
    BY <1>4 DEF Take, histVars
  <2>2. PICK item : /\ eng' = [eng EXCEPT !.todo = @ \ {k}, !.item = item]
                    /\ item # None => item.id = k /\ (db[k] # "none" \/ tree[k] # "none")
    <3>1. PICK item :
            /\ eng' = [eng EXCEPT !.todo = @ \ {k}, !.item = item]
            /\ \/ item = None
               \/ item = [op |-> "export", id |-> k, form |-> db[k]] /\ db[k] # "none"
               \/ item = [op |-> "import", id |-> k, form |-> tree[k]] /\ tree[k] # "none"
               \/ item = [op |-> "new", id |-> k, form |-> tree[k]] /\ tree[k] # "none"
      BY <1>4, TakesUp
    <3>2. item # None => item.id = k /\ (db[k] # "none" \/ tree[k] # "none")
      BY <3>1
    <3> QED
      BY <3>1, <3>2
  <2>3. eng'.item = item
    BY <2>2 DEF EngOK
  <2> QED
    BY <2>1, <2>2, <2>3 DEF DupOn
<1>5. CASE Export \/ Import
  <2>1. eng.item # None /\ eng.item.id \in Ids
    BY <1>5 DEF Export, Import, EngOK, Item
  <2>2. eng'.item = None /\ UNCHANGED <<dup, gone, exposed>>
    BY <1>5 DEF Export, Import, EngOK, histVars
  <2>3. \A i \in Ids \ {eng.item.id} : db'[i] = db[i] /\ tree'[i] = tree[i]
    BY <1>5 DEF Export, Import, SidesOK
  <2> QED
    BY <1>1, <2>1, <2>2, <2>3 DEF DupOn
<1>6. CASE ImportNew
  <2>1. eng.item # None /\ eng.item.id \in Ids
    BY <1>6 DEF ImportNew, EngOK, Item
  <2>2. eng'.item = None /\ UNCHANGED <<dup, gone, exposed>>
    BY <1>6 DEF ImportNew, EngOK, histVars
  <2>3. PICK j \in Ids \ gone :
          /\ db' = [db EXCEPT ![j] = eng.item.form]
          /\ tree' = [tree EXCEPT ![eng.item.id] = "none", ![j] = tree[eng.item.id]]
    BY <1>6 DEF ImportNew, Unused, Ids
  <2>4. \A i \in Ids : i # j /\ i # eng.item.id => db'[i] = db[i] /\ tree'[i] = tree[i]
    BY <2>3 DEF SidesOK
  <2> QED
    BY <1>1, <2>1, <2>2, <2>4 DEF DupOn
<1>7. CASE new_file \/ \E i \in Ids : Edit(i)
  <2>1. UNCHANGED <<tree, eng, dup, gone, exposed>>
    BY <1>7, RowFrame DEF new_file, Edit, engVars, histVars
  <2>2. PICK j \in Ids : db' = [db EXCEPT ![j] = "fixed"] /\ j \notin gone \ exposed
    BY <1>7 DEF new_file, Edit, Unused, Ids
  <2> QED
    BY <1>1, <2>1, <2>2 DEF DupOn, SidesOK
<1>8. CASE DupStep
  <2>1. UNCHANGED <<tree, eng, gone, exposed>>
    BY <1>8, RowFrame DEF engVars, histVars
  <2>2. ASSUME NEW i \in gone \ exposed
        PROVE  db'[i] = "none" /\ ~DupOn(i)'
    <3>1. i \in Ids /\ db[i] = "none" /\ ~DupOn(i)
      BY <1>1
    <3>2. CASE DupImport
      <4>1. PICK j \in Ids \ {i} :
              db' = [db EXCEPT ![j] = "raw"] /\ dup' = [dup EXCEPT !.pc = "settle", !.id = j]
        BY <3>2 DEF DupImport, Unused, Ids
      <4> QED
        BY <3>1, <4>1 DEF SidesOK, DupOK, DupOn
    <3>3. CASE Settle
      <4>1. UNCHANGED db /\ dup.pc = "settle" /\ dup'.id = dup.id
        BY <3>3 DEF Settle, DupOK
      <4> QED
        BY <3>1, <4>1 DEF DupOn
    <3>4. CASE Reimport
      BY <3>1, <3>4 DEF Reimport, SidesOK, DupOK, DupOn
    <3>5. CASE DupFails \/ \E k \in Ids : DupStart(k)
      BY <3>1, <3>5 DEF DupFails, DupStart, DupOK, DupOn, NoDup, vaultVars
    <3> QED
      BY <1>8, <3>2, <3>3, <3>4, <3>5 DEF DupStep, Duplicate
  <2> QED
    BY <2>1, <2>2
<1>9. CASE BootPause \/ TrayToggle \/ post_prefs \/ GitStep \/ UNCHANGED vars \/ \E i \in Ids : EditTree(i)
  <2>1. UNCHANGED <<db, tree, dup, eng, gone>> /\ exposed \subseteq exposed'
    BY <1>9, GitFrame DEF BootPause, TrayToggle, post_prefs, Moved, EditTree, vars, vaultVars,
      engVars, histVars
  <2> QED
    BY <2>1 DEF DupOn
<1>10. ASSUME NEW r \in Reqs, delete_file(r) \/ TakeLock(r) \/ PauseAndWait(r) \/ Timeout(r) \/ TrashSave(r)
       PROVE  Away'
  <2>1. UNCHANGED <<db, tree, dup, eng, gone, exposed>>
    BY <1>10 DEF delete_file, TakeLock, PauseAndWait, Timeout, TrashSave, vaultVars, engVars, histVars
  <2> QED
    BY <2>1 DEF DupOn
<1>11. ASSUME NEW r \in Reqs, RpcDelete(r) \/ TrashMove(r)
       PROVE  Away'
  <2>1. UNCHANGED <<dup, eng, gone>> /\ exposed \subseteq exposed'
    BY <1>11 DEF RpcDelete, TrashMove, engVars, histVars
  <2>2. \A i \in Ids : (db[i] = "none" => db'[i] = "none") /\ (tree[i] = "none" => tree'[i] = "none")
    BY <1>11 DEF RpcDelete, TrashMove, SidesOK
  <2> QED
    BY <1>1, <2>1, <2>2 DEF DupOn
<1>12. ASSUME NEW r \in Reqs, DropGuard(r)
       PROVE  Away'
  <2>1. UNCHANGED <<db, tree, dup, eng, exposed>>
    BY <1>12 DEF DropGuard, vaultVars, engVars
  <2>2. CASE UNCHANGED gone
    BY <2>1, <2>2 DEF DupOn
  <2>3. CASE req[r].pc = "trashed" /\ gone' = gone \cup {req[r].file}
    <3>1. req[r].file \notin exposed =>
            /\ db[req[r].file] = "none" /\ tree[req[r].file] = "none" /\ ~DupOn(req[r].file)
            /\ eng.item = None
      BY <2>3 DEF Removed, Quieted, RowGone, TreeGone, Quiet
    <3> QED
      BY <2>1, <2>3, <3>1 DEF DupOn
  <2> QED
    BY <1>12, <2>2, <2>3 DEF DropGuard
<1> QED
  BY <1>2, <1>3, <1>4, <1>5, <1>6, <1>7, <1>8, <1>9, <1>10, <1>11, <1>12
  DEF Next, Daemon, Pass, Person, DupStep, GitStep, Delete

-----------------------------------------------------------------------------
(* The flag is the person's, or the delete's that will give it back. *)
LEMMA FlaggedStep ==
  ASSUME TypeOK, Held, Flagged, [Next]_vars
  PROVE  Flagged'
<1> USE TypeParts, IdAssumption DEF Flagged, Up
<1>1. \A r \in Reqs : (req[r].pc \in Holding) = (lock = r)
  BY DEF Held
<1>2. CASE Crash \/ Reboot
  BY <1>2 DEF Crash, Reboot, Off
<1>3. CASE Spawn
  <2>1. lock = None /\ UNCHANGED <<lock, req>>
    BY <1>3 DEF Spawn, Held, delVars
  <2>2. \A r \in Reqs : req[r].pc \notin Holding
    BY <1>1, <2>1
  <2>3. flag' = FALSE /\ wish' = FALSE /\ boot' = "prefs"
    BY <1>3 DEF Spawn
  <2> QED
    BY <2>1, <2>2, <2>3 DEF Holding
<1>4. CASE BootPause
  <2>1. UNCHANGED <<eng, lock, req, pref, resumed>>
    BY <1>4 DEF BootPause, delVars, engVars
  <2>2. CASE flag' = TRUE /\ wish' = TRUE /\ toggled' = (toggled \/ lock # None)
    BY <1>1, <2>1, <2>2 DEF Holding
  <2>3. CASE UNCHANGED <<flag, wish, toggled>> /\ ((boot' = "done" /\ boot = "attach") \/ pref)
    BY <2>1, <2>3
  <2> QED
    BY <1>4, <2>2, <2>3 DEF BootPause, SetFlag
<1>5. CASE TrayToggle \/ post_prefs
  <2>1. /\ UNCHANGED <<eng, lock, req>>
        /\ toggled' = (toggled \/ lock # None) /\ wish' = flag' /\ resumed' = (resumed \/ ~flag')
    BY <1>5 DEF TrayToggle, post_prefs, Moved, delVars, engVars
  <2>2. ~toggled' => \A r \in Reqs : req[r].pc \notin Holding
    BY <1>1, <2>1
  <2>3. flag' \in BOOLEAN
    BY PauseOKStep DEF PauseOK
  <2> QED
    BY <2>1, <2>2, <2>3 DEF Holding
<1>6. CASE PreLoop \/ Ack
  <2>1. (Acknowledge \/ UNCHANGED req) /\ Up
        /\ UNCHANGED <<flag, wish, toggled, boot, pref, resumed, lock>>
    BY <1>6 DEF PreLoop, Ack, pauseVars, histVars
  <2>2. \A r \in Reqs : /\ req'[r].was = req[r].was
                        /\ req'[r].pc \in Holding => req[r].pc \in Holding
                        /\ (req'[r].pc = "held") = (req[r].pc = "held")
    BY <2>1, Acknowledged DEF Holding
  <2> QED
    BY <2>1, <2>2
<1>7. ASSUME NEW r \in Reqs, delete_file(r)
      PROVE  Flagged'
  <2>1. req'[r].pc = "queued" /\ \A q \in Reqs \ {r} : req'[q] = req[q]
    <3>1. PICK i \in Ids : req' = [req EXCEPT ![r] = [NoReq EXCEPT !.pc = "queued", !.file = i]]
      BY <1>7 DEF delete_file
    <3> QED
      BY <3>1 DEF NoReq, ReqOK
  <2>2. UNCHANGED <<eng, flag, wish, toggled, boot, pref, resumed, lock>>
    BY <1>7 DEF delete_file, engVars, pauseVars, histVars
  <2> QED
    BY <2>1, <2>2 DEF Holding
<1>8. ASSUME NEW r \in Reqs, TakeLock(r)
      PROVE  Flagged'
  <2>1. /\ lock = None /\ lock' = r /\ req'[r].pc = "held" /\ req'[r].was = flag
        /\ \A q \in Reqs \ {r} : req'[q] = req[q]
    <3>1. lock = None /\ lock' = r /\ req' = [req EXCEPT ![r].pc = "held", ![r].was = flag]
      BY <1>8 DEF TakeLock
    <3> QED
      BY <3>1 DEF ReqOK
  <2>2. UNCHANGED <<eng, flag, wish, toggled, boot, pref, resumed>>
    BY <1>8 DEF TakeLock, engVars, pauseVars, histVars
  <2> QED
    BY <1>1, <2>1, <2>2 DEF Holding
<1>9. ASSUME NEW r \in Reqs, PauseAndWait(r)
      PROVE  Flagged'
  <2>1. /\ req[r].pc = "held" /\ req'[r].pc = "waiting" /\ req'[r].was = req[r].was
        /\ \A q \in Reqs \ {r} : req'[q] = req[q]
    BY <1>9 DEF PauseAndWait, Step, ReqOK
  <2>2. flag' = TRUE /\ lock = r /\ UNCHANGED <<eng, wish, toggled, boot, pref, resumed, lock>>
    BY <1>1, <1>9 DEF PauseAndWait, SetFlag, Holding, engVars, histVars
  <2> QED
    BY <1>1, <2>1, <2>2 DEF Holding
<1>10. ASSUME NEW r \in Reqs, Timeout(r) \/ DropGuard(r)
       PROVE  Flagged'
  <2>1. /\ lock = r /\ lock' = None /\ req[r].pc \in Holding \ {"held"}
        /\ req'[r].pc \notin Holding /\ \A q \in Reqs \ {r} : req'[q] = req[q]
    <3>1. /\ req[r].pc \in {"waiting", "trashed", "failing"}
          /\ lock' = None /\ (Step(r, "ok") \/ Step(r, "failed"))
      BY <1>10 DEF Timeout, DropGuard, Release
    <3> QED
      BY <1>1, <3>1 DEF Step, Holding, ReqOK
  <2>2. /\ UNCHANGED <<eng, wish, toggled, boot, pref, resumed>>
        /\ flag' = IF req[r].was THEN flag ELSE FALSE
    BY <1>10 DEF Timeout, DropGuard, Release, SetFlag, engVars, histVars
  <2>3. Up /\ ~toggled => flag' = wish
    <3>1. Up /\ ~toggled => flag /\ req[r].was = wish
      BY <2>1
    <3>2. wish \in BOOLEAN
      BY DEF PauseOK
    <3> QED
      BY <2>2, <3>1, <3>2
  <2>4. \A q \in Reqs : req'[q].pc \notin Holding
    BY <1>1, <2>1
  <2> QED
    BY <2>1, <2>2, <2>3, <2>4 DEF Holding
<1>11. ASSUME NEW r \in Reqs, RpcDelete(r) \/ TrashMove(r) \/ TrashSave(r)
       PROVE  Flagged'
  <2>1. UNCHANGED <<eng, flag, wish, toggled, boot, pref, resumed, lock>>
    BY <1>11 DEF RpcDelete, TrashMove, TrashSave, engVars, pauseVars, histVars
  <2> QED
    BY <1>11, <2>1, InsideQuiet DEF Quiet, Holding
<1>12. CASE \/ PauseSeen \/ FsTick \/ PollTick \/ Pass \/ GitStep \/ DupStep \/ new_file
            \/ UNCHANGED vars \/ \E i \in Ids : Edit(i) \/ EditTree(i)
  <2>1. UNCHANGED <<flag, wish, toggled, boot, pref, resumed, lock, req>>
    BY <1>12, GitFrame, RowFrame
    DEF PauseSeen, FsTick, PollTick, Pass, PassFails, PassEnds, Export, Import, ImportNew, Take,
      EditTree, vars, delVars, pauseVars, histVars
  <2>2. Up' => Up
    BY <1>12, GitFrame, RowFrame
    DEF PauseSeen, FsTick, PollTick, Pass, PassFails, PassEnds, Export, Import, ImportNew, Take,
      EditTree, Working, vars, engVars
  <2> QED
    BY <2>1, <2>2
<1> QED
  BY <1>2, <1>3, <1>4, <1>5, <1>6, <1>7, <1>8, <1>9, <1>10, <1>11, <1>12
  DEF Next, Daemon, Person, DupStep, GitStep, Delete

-----------------------------------------------------------------------------
(* The daemon's manifest covers the saved one, and so does the delete's copy. *)
LEMMA SavedStep ==
  ASSUME TypeOK, Held, Quieted, Flagged, Saved, [Next]_vars
  PROVE  Saved'
<1> USE TypeParts, IdAssumption DEF Saved, Up
<1>1. \A r \in Reqs : (req[r].pc \in Holding) = (lock = r)
  BY DEF Held
<1>2. CASE Crash \/ Reboot
  BY <1>2 DEF Crash, Reboot, Off
<1>3. CASE Spawn
  <2>1. \A r \in Reqs : req[r].pc # "moved"
    BY <1>1, <1>3 DEF Spawn, Held, Up, Holding
  <2> QED
    BY <1>3, <2>1 DEF Spawn, vaultVars, delVars
<1>4. CASE PauseSeen
  BY <1>4 DEF PauseSeen, vaultVars, delVars, histVars
<1>5. CASE Export \/ Import \/ ImportNew \/ \E i \in Ids : Take(i)
  <2>1. Working /\ UNCHANGED <<req, toggled>>
    BY <1>5 DEF Export, Import, ImportNew, Take, delVars, histVars
  <2>2. ~toggled => \A r \in Reqs : req[r].pc # "moved"
    BY <2>1 DEF Quieted, Quiet
  <2>3. man' = mem' \/ UNCHANGED <<man, mem>>
    BY <1>5 DEF Export, Import, ImportNew, Take
  <2>4. Up
    BY <2>1 DEF Working
  <2> QED
    BY <2>1, <2>2, <2>3, <2>4
<1>6. CASE PreLoop \/ Ack
  <2>1. (Acknowledge \/ UNCHANGED req) /\ Up /\ UNCHANGED <<man, mem, toggled>>
    BY <1>6 DEF PreLoop, Ack, vaultVars, engVars, histVars
  <2> QED
    BY <2>1, Acknowledged
<1>7. ASSUME NEW r \in Reqs, delete_file(r) \/ TakeLock(r) \/ PauseAndWait(r) \/ Timeout(r) \/ DropGuard(r)
      PROVE  Saved'
  <2>1. UNCHANGED <<man, mem, eng, toggled>>
    BY <1>7 DEF delete_file, TakeLock, PauseAndWait, Timeout, DropGuard, vaultVars, engVars, histVars
  <2> QED
    BY <1>7, <2>1, OutsideQuiet
<1>8. ASSUME NEW r \in Reqs, RpcDelete(r)
      PROVE  Saved'
  <2>1. UNCHANGED <<man, mem, eng, toggled>> /\ req'[r].pc # "moved"
    BY <1>8 DEF RpcDelete, Step, ReqOK, engVars
  <2> QED
    BY <1>8, <2>1, InsideQuiet
<1>9. ASSUME NEW r \in Reqs, TrashMove(r)
      PROVE  Saved'
  <2>1. UNCHANGED <<man, mem, eng, toggled>> /\ (req'[r].pc = "moved" => req'[r].copy = man)
    BY <1>9 DEF TrashMove, Step, ReqOK, engVars, histVars
  <2> QED
    BY <1>9, <2>1, InsideQuiet
<1>10. ASSUME NEW r \in Reqs, TrashSave(r)
       PROVE  Saved'
  <2>1. /\ UNCHANGED <<mem, eng, toggled>> /\ man' = req[r].copy \ {req[r].file}
        /\ req[r].pc = "moved" /\ req'[r].pc # "moved" /\ lock = r
    BY <1>1, <1>10 DEF TrashSave, Step, ReqOK, engVars, histVars, Holding
  <2>2. \A q \in Reqs : req'[q].pc # "moved"
    BY <1>1, <1>10, <2>1, InsideQuiet DEF Holding
  <2> QED
    BY <2>1, <2>2
<1>11. CASE \/ BootPause \/ TrayToggle \/ post_prefs \/ FsTick \/ PollTick \/ PassFails \/ PassEnds
            \/ GitStep \/ DupStep \/ new_file \/ UNCHANGED vars
            \/ \E i \in Ids : Edit(i) \/ EditTree(i)
  <2>1. UNCHANGED <<man, mem, req>>
    BY <1>11, GitFrame, RowFrame
    DEF BootPause, TrayToggle, post_prefs, FsTick, PollTick, PassFails, PassEnds, EditTree,
      vars, vaultVars, engVars, delVars
  <2>3. UNCHANGED toggled \/ toggled' = (toggled \/ lock # None)
    BY <1>11, GitFrame, RowFrame
    DEF BootPause, TrayToggle, post_prefs, Moved, FsTick, PollTick, PassFails, PassEnds, EditTree,
      vars, histVars
  <2>2. Up' => Up
    BY <1>11, GitFrame, RowFrame
    DEF BootPause, TrayToggle, post_prefs, FsTick, PollTick, PassFails, PassEnds, EditTree,
      Working, vars, engVars
  <2> QED
    BY <2>1, <2>2, <2>3
<1> QED
  BY <1>2, <1>3, <1>4, <1>5, <1>6, <1>7, <1>8, <1>9, <1>10, <1>11
  DEF Next, Daemon, Pass, Person, DupStep, GitStep, Delete

-----------------------------------------------------------------------------
(* What a checkpoint saw is staged, or committed, or has changed since. *)
LEMMA StagedStep ==
  ASSUME TypeOK, Staged, [Next]_vars
  PROVE  Staged'
<1> USE TypeParts DEF Staged
<1>1. ASSUME NEW i \in Ids, Touch(i), UNCHANGED cp
      PROVE  Staged'
  BY <1>1 DEF Touch, GitOK
<1>2. CASE Crash
  <2>1. UNCHANGED <<unsaved, staged, touched>>
    BY <1>2 DEF Crash
  <2>2. \A c \in Checkpoints : cp'[c].pc = "added" => cp[c].pc = "added" /\ cp'[c].saw = cp[c].saw
    BY <1>2 DEF Crash, CpOK
  <2> QED
    BY <2>1, <2>2
<1>3. ASSUME NEW c \in Checkpoints, Probe(c)
      PROVE  Staged'
  <2>1. PICK pc \in {"refused", "done", "probed"} : cp' = [cp EXCEPT ![c].saw = unsaved, ![c].pc = pc]
    BY <1>3 DEF Probe
  <2>2. touched' = [touched EXCEPT ![c] = {}] /\ UNCHANGED <<unsaved, staged>>
    BY <1>3 DEF Probe
  <2> QED
    BY <2>1, <2>2 DEF CpOK, GitOK
<1>4. ASSUME NEW c \in Checkpoints, Checkpoint(c)
      PROVE  Staged'
  <2>1. CASE GitInit(c)
    BY <2>1 DEF GitInit
  <2>2. CASE GitAdd(c)
    BY <2>2 DEF GitAdd, CpOK, GitOK
  <2>3. CASE GitCommit(c)
    BY <2>3 DEF GitCommit, CpOK, GitOK
  <2> QED
    BY <1>4, <2>1, <2>2, <2>3 DEF Checkpoint
<1>5. CASE Export
  <2>1. eng.item.id \in Ids
    BY <1>5 DEF Export, EngOK, Item
  <2> QED
    BY <1>1, <1>5, <2>1 DEF Export
<1>6. ASSUME NEW i \in Ids, EditTree(i)
      PROVE  Staged'
  BY <1>1, <1>6 DEF EditTree
<1>7. ASSUME NEW r \in Reqs, TrashMove(r)
      PROVE  Staged'
  <2>1. CASE req[r].file \in Ids
    BY <1>1, <1>7, <2>1 DEF TrashMove
  <2>2. CASE req[r].file \notin Ids
    BY <1>7, <2>2 DEF TrashMove, SidesOK
  <2> QED
    BY <2>1, <2>2
<1>8. CASE \/ Spawn \/ BootPause \/ PreLoop \/ PauseSeen \/ FsTick \/ PollTick \/ Ack
           \/ PassFails \/ PassEnds \/ Import \/ ImportNew \/ TrayToggle \/ post_prefs
           \/ UserGit \/ Reboot \/ DupStep \/ new_file \/ UNCHANGED vars
           \/ \E i \in Ids : Take(i) \/ Edit(i)
  <2>1. UNCHANGED <<cp, unsaved, staged, touched>>
    BY <1>8, RowFrame
    DEF Spawn, BootPause, PreLoop, PauseSeen, FsTick, PollTick, Ack, PassFails, PassEnds, Import,
      ImportNew, TrayToggle, post_prefs, UserGit, Reboot, Take, vars, gitVars
  <2> QED
    BY <2>1
<1>9. ASSUME NEW r \in Reqs, delete_file(r) \/ TakeLock(r) \/ PauseAndWait(r) \/ Timeout(r)
                               \/ RpcDelete(r) \/ TrashSave(r) \/ DropGuard(r)
      PROVE  Staged'
  <2>1. UNCHANGED <<cp, unsaved, staged, touched>>
    BY <1>9 DEF delete_file, TakeLock, PauseAndWait, Timeout, RpcDelete, TrashSave, DropGuard, gitVars
  <2> QED
    BY <2>1
<1> QED
  BY <1>2, <1>3, <1>4, <1>5, <1>6, <1>7, <1>8, <1>9
  DEF Next, Daemon, Pass, Person, DupStep, Delete

-----------------------------------------------------------------------------
(* The invariant, and what follows from it. *)

LEMMA Invariant == Spec => []IInv
<1>1. IInv /\ [Next]_vars => IInv'
  BY TypeOKStep, HeldStep, QuietedStep, RemovedStep, AwayStep, FlaggedStep, SavedStep, StagedStep
  DEF IInv
<1> QED
  BY InitIInv, <1>1, PTL DEF Spec

\* Of every reachable state, with any number of files, requests and
\* checkpoints: the variables have their types.
THEOREM Typing == Spec => []TypeOK
BY Invariant, PTL DEF IInv

\* vault-ops/src/lib.rs, delete_file and trash_file: a file whose delete was
\* answered with ok is in neither side, whatever happens afterwards.
THEOREM StaysGone == Spec => []GoneForGood
<1>1. IInv => GoneForGood
  BY DEF IInv, Away, GoneForGood
<1> QED
  BY <1>1, Invariant, PTL

\* The pause guard of delete_file and the pauses of the boot: the flag is what
\* the person, or the preferences, last made it whenever no delete holds it.
THEOREM PauseKept == Spec => []SyncAsWished
<1>1. ASSUME IInv
      PROVE  SyncAsWished
  <2>1. Up /\ ~toggled /\ lock = None => flag = wish
    BY <1>1 DEF IInv, Flagged
  <2>2. ASSUME Up, ~toggled, boot = "done", ~pref, ~resumed
        PROVE  flag
    <3>1. wish
      BY <1>1, <2>2 DEF IInv, Flagged
    <3>2. CASE lock = None
      BY <2>1, <2>2, <3>1, <3>2
    <3>3. CASE lock # None
      <4>1. lock \in Reqs /\ req[lock].pc \in Holding
        BY <1>1, <3>3 DEF IInv, Held, TypeOK
      <4> QED
        BY <1>1, <2>2, <3>1, <4>1 DEF IInv, Flagged
    <3> QED
      BY <3>2, <3>3
  <2> QED
    BY <2>1, <2>2 DEF SyncAsWished
<1> QED
  BY <1>1, Invariant, PTL

\* trash_file moves the directory before it saves the manifest, and every save
\* of the daemon holds what was saved before: an entry leaves the manifest only
\* when its directory has left the tree.
THEOREM EntriesStay == Spec => EntriesCover
<1>1. ASSUME IInv, Next, ~toggled'
      PROVE  \A i \in man \ man' : tree'[i] = "none"
  <2> USE TypeParts
  <2>1. ASSUME NEW k \in Ids, Take(k)
        PROVE  \A i \in man \ man' : tree'[i] = "none"
    <3>1. man \subseteq mem
      BY <1>1, <2>1 DEF Take, Working, histVars, IInv, Saved, Up
    <3>2. man' = man \/ (man' = mem \ {k} /\ tree[k] = "none")
      BY <2>1, WantsWhatIs DEF Take
    <3>3. tree' = tree
      BY <2>1 DEF Take
    <3> QED
      BY <3>1, <3>2, <3>3
  <2>2. CASE Export \/ Import \/ ImportNew
    <3>1. Working /\ UNCHANGED toggled /\ mem \subseteq man'
      BY <2>2 DEF Export, Import, ImportNew, histVars
    <3> QED
      BY <1>1, <3>1 DEF Working, IInv, Saved, Up
  <2>3. ASSUME NEW r \in Reqs, TrashSave(r)
        PROVE  \A i \in man \ man' : tree'[i] = "none"
    <3>1. /\ req[r].pc = "moved" /\ man' = req[r].copy \ {req[r].file}
          /\ UNCHANGED <<toggled, tree>>
      BY <2>3 DEF TrashSave, histVars
    <3>2. Up
      BY <1>1, <3>1, IdAssumption DEF IInv, Held, Holding
    <3>3. req[r].copy = man /\ tree[req[r].file] = "none"
      BY <1>1, <3>1, <3>2 DEF IInv, Saved, Removed, TreeGone
    <3> QED
      BY <3>1, <3>3
  <2>4. CASE \/ Spawn \/ BootPause \/ PreLoop \/ PauseSeen \/ FsTick \/ PollTick \/ Ack
             \/ PassFails \/ PassEnds \/ TrayToggle \/ post_prefs \/ Crash \/ Reboot
             \/ GitStep \/ DupStep \/ new_file \/ \E i \in Ids : Edit(i) \/ EditTree(i)
    <3>1. UNCHANGED man
      BY <2>4, GitFrame, RowFrame
      DEF Spawn, BootPause, PreLoop, PauseSeen, FsTick, PollTick, Ack, PassFails, PassEnds,
        TrayToggle, post_prefs, Crash, Reboot, EditTree, vaultVars
    <3> QED
      BY <3>1
  <2>5. ASSUME NEW r \in Reqs, \/ delete_file(r) \/ TakeLock(r) \/ PauseAndWait(r) \/ Timeout(r)
                               \/ RpcDelete(r) \/ TrashMove(r) \/ DropGuard(r)
        PROVE  \A i \in man \ man' : tree'[i] = "none"
    <3>1. UNCHANGED man
      BY <2>5 DEF delete_file, TakeLock, PauseAndWait, Timeout, RpcDelete, TrashMove, DropGuard, vaultVars
    <3> QED
      BY <3>1
  <2> QED
    BY <1>1, <2>1, <2>2, <2>3, <2>4, <2>5 DEF Next, Daemon, Pass, Person, DupStep, GitStep, Delete
<1>2. IInv /\ [Next]_vars => [~toggled' => \A i \in man \ man' : tree'[i] = "none"]_vars
  BY <1>1
<1> QED
  BY <1>2, Invariant, PTL DEF Spec, EntriesCover

\* commit.rs: a checkpoint that answers with success has what it saw of the vault
\* in HEAD, whether its own commit or another's put it there.
THEOREM Committed == Spec => CheckpointHolds
<1>1. ASSUME IInv, Next, NEW c \in Checkpoints, cp[c].pc # "done", cp'[c].pc = "done"
      PROVE  cp'[c].saw \cap unsaved' \subseteq touched'[c]
  <2> USE TypeParts DEF CpOK, GitOK
  <2>0. TypeOK /\ Staged
    BY <1>1 DEF IInv
  <2>1. ASSUME NEW d \in Checkpoints, Probe(d)
        PROVE  cp'[c].saw \cap unsaved' \subseteq touched'[c]
    <3>1. cp'[d].saw = unsaved /\ (cp'[d].pc = "done" => unsaved = {}) /\ UNCHANGED unsaved
      BY <2>0, <2>1 DEF Probe
    <3>2. c = d
      BY <1>1, <2>0, <2>1 DEF Probe
    <3> QED
      BY <1>1, <3>1, <3>2
  <2>2. ASSUME NEW d \in Checkpoints, GitInit(d)
        PROVE  cp'[c].saw \cap unsaved' \subseteq touched'[c]
    BY <2>2 DEF GitInit
  <2>3. ASSUME NEW d \in Checkpoints, GitAdd(d)
        PROVE  cp'[c].pc # "done"
    BY <1>1, <2>0, <2>3 DEF GitAdd
  <2>4. ASSUME NEW d \in Checkpoints, GitCommit(d)
        PROVE  cp'[c].saw \cap unsaved' \subseteq touched'[c]
    <3>1. c = d
      BY <1>1, <2>0, <2>4 DEF GitCommit
    <3>2. /\ cp[c].pc = "added" /\ cp'[c].saw = cp[c].saw
          /\ unsaved' = unsaved \ staged /\ touched' = touched
      BY <1>1, <2>0, <2>4, <3>1 DEF GitCommit
    <3> QED
      BY <2>0, <3>2 DEF Staged
  <2>5. CASE UNCHANGED cp
    BY <1>1, <2>5
  <2>6. CASE Crash
    BY <1>1, <2>0, <2>6 DEF Crash
  <2>7. CASE \/ Spawn \/ BootPause \/ PreLoop \/ PauseSeen \/ FsTick \/ PollTick \/ Ack \/ Pass
             \/ TrayToggle \/ post_prefs \/ Reboot \/ UserGit
             \/ DupStep \/ new_file \/ \E i \in Ids : Edit(i) \/ EditTree(i)
    BY <2>5, <2>7, RowFrame
    DEF Spawn, BootPause, PreLoop, PauseSeen, FsTick, PollTick, Ack, Pass, PassFails, PassEnds,
      Export, Import, ImportNew, Take, TrayToggle, post_prefs, Reboot, UserGit, EditTree, gitVars
  <2>8. ASSUME NEW r \in Reqs, delete_file(r) \/ Delete(r)
        PROVE  UNCHANGED cp
    BY <2>8 DEF delete_file, Delete, TakeLock, PauseAndWait, Timeout, RpcDelete, TrashMove,
      TrashSave, DropGuard, gitVars
  <2> QED
    BY <1>1, <2>1, <2>2, <2>3, <2>4, <2>5, <2>6, <2>7, <2>8
    DEF Next, Daemon, Person, Checkpoint, DupStep
<1>2. IInv /\ [Next]_vars =>
        [\A c \in Checkpoints : cp[c].pc # "done" /\ cp'[c].pc = "done"
                                  => cp'[c].saw \cap unsaved' \subseteq touched'[c]]_vars
  BY <1>1
<1> QED
  BY <1>2, Invariant, PTL DEF Spec, CheckpointHolds
=============================================================================
