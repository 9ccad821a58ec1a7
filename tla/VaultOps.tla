----------------------------- MODULE VaultOps -----------------------------
(***************************************************************************)
(* What a person does to a vault besides drawing in it (crates/vault-ops): *)
(* delete a file, create, rename or duplicate one, pause sync, take a      *)
(* checkpoint; while the sync daemon, which owns both sides, runs.         *)
(*                                                                         *)
(* A delete must leave the database, the tree and the manifest together,   *)
(* or the next reconciliation brings the file back: it pauses the daemon,  *)
(* waits until the daemon says that it is idle, deletes the row, moves the *)
(* directory to .trash/ and rewrites the manifest behind the daemon's      *)
(* back.  The pause is the one the person toggles in the tray and in the   *)
(* preferences.                                                            *)
(*                                                                         *)
(* The daemon is the coarse one: SyncEngine has its steps.  Here a pass    *)
(* takes its files one by one, and each of them in two steps: what is read *)
(* and what is written.  A path is the id of the file it belongs to.       *)
(***************************************************************************)
EXTENDS Naturals, FiniteSets, Sequences

CONSTANTS
    Files,       \* files the vault has at first
    NewIds,      \* ids the backend may give to new files
    Reqs,        \* delete requests, in the order they come
    Checkpoints, \* checkpoint requests, in the order they come
    Budgets,     \* bound: how often each thing outside the code may happen
    MaxSettle,   \* MAX_SETTLE_CYCLES
    None

Ids == Files \cup NewIds
BudgetKinds == {"edit", "disk", "toggle", "crash", "fault", "new", "dup", "git", "delete", "check"}

ASSUME IdAssumption     == Reqs \subseteq Nat /\ Checkpoints \subseteq Nat /\ None \notin Ids \cup Reqs
ASSUME BudgetAssumption == Budgets \subseteq [BudgetKinds -> Nat] /\ MaxSettle \in Nat

VARIABLES
    db,      \* the rows of the database: what export would give for each
    moved,   \* the rows that changed since they were exported or imported
    tree,    \* the directories of the vault, .trash/ left out
    dirty,   \* the directories that differ from the hash in the manifest
    man,     \* the manifest on disk: the ids it has an entry for
    mem,     \* the daemon's copy of it
    eng,     \* the daemon: where it is, the files left in its pass, the one in hand
    due,     \* the directories whose debounce is armed
    flag,    \* the pause flag (a watch channel)
    news,    \* the channel has a value the daemon has not looked at
    boot,    \* where the start of the daemon is: pausing as told, or done
    pref,    \* sync_enabled in the saved preferences
    want,    \* want_paused of the tray's bridge
    lock,    \* delete_lock
    req,     \* the delete requests
    dup,     \* the duplicate that runs
    cp,      \* the checkpoint requests
    unsaved, \* directories that differ from HEAD
    staged,  \* those of them whose present state is in git's index
    repo,    \* the vault's git repository
    left,    \* what is left of the budget
    gone,    \* history: files whose delete was answered with ok
    exposed, \* history: files in whose delete the person resumed sync, or a duplicate was still settling
    toggled, \* history: the person moved the pause flag while a delete held it
    wish,    \* history: whether the person, or the preferences at the start, last said "paused"
    resumed, \* history: the person resumed sync since the daemon started
    touched  \* history: directories that changed since each checkpoint looked at them

vaultVars == <<db, moved, tree, dirty, man>>
engVars   == <<mem, eng, due>>
pauseVars == <<flag, news, boot, pref, want>>
delVars   == <<lock, req>>
gitVars   == <<cp, unsaved, staged, repo, touched>>
histVars  == <<gone, exposed, toggled, wish, resumed>>
vars      == <<vaultVars, engVars, pauseVars, delVars, dup, gitVars, left, histVars>>

\* "raw": what Penpot has after an import as new or an edit; "fixed": its
\* export, imported again, gives the same export.
Forms == {"none", "raw", "fixed"}
Item  == [op : {"export", "import", "new"}, id : Ids, form : Forms \ {"none"}]

EngPC == {"down", "start", "parked", "retry", "reconcile", "loop", "poll", "fs"}
ReqPC == {"none", "queued", "held", "waiting", "acked", "deleted", "moved",
          "trashed", "failing", "ok", "failed", "lost"}
DupPC == {"none", "import", "settle", "reimport", "done", "failed"}
CpPC  == {"none", "probed", "added", "done", "failed", "refused"}

Working == eng.pc \in {"reconcile", "poll", "fs"}
Up      == eng.pc # "down"
Holding == {"held", "waiting", "acked", "deleted", "moved", "trashed", "failing"}

NoReq == [pc |-> "none", file |-> None, was |-> FALSE, copy |-> {}]
NoDup == [pc |-> "none", id |-> None, cycles |-> 0, last |-> "none"]
NoCp  == [pc |-> "none", saw |-> {}]
Off   == [pc |-> "down", todo |-> {}, item |-> None]

TypeOK ==
    /\ db \in [Ids -> Forms] /\ tree \in [Ids -> Forms]
    /\ moved \subseteq Ids /\ dirty \subseteq Ids /\ man \subseteq Ids /\ mem \subseteq Ids
    /\ eng \in [pc : EngPC, todo : SUBSET Ids, item : Item \cup {None}]
    /\ due \subseteq Ids
    /\ flag \in BOOLEAN /\ news \in BOOLEAN /\ pref \in BOOLEAN /\ want \in BOOLEAN
    /\ boot \in {"prefs", "attach", "done"}
    /\ lock \in Reqs \cup {None}
    /\ req \in [Reqs -> [pc : ReqPC, file : Ids \cup {None}, was : BOOLEAN, copy : SUBSET Ids]]
    /\ dup \in [pc : DupPC, id : Ids \cup {None}, cycles : 0 .. MaxSettle, last : Forms]
    /\ cp \in [Checkpoints -> [pc : CpPC, saw : SUBSET Ids]]
    /\ unsaved \subseteq Ids /\ staged \subseteq unsaved
    /\ repo \in {"none", "free", "busy"}
    /\ left \in [BudgetKinds -> Nat]
    /\ gone \subseteq Ids /\ exposed \subseteq Ids /\ touched \in [Checkpoints -> SUBSET Ids]
    /\ toggled \in BOOLEAN /\ resumed \in BOOLEAN /\ wish \in BOOLEAN

Spend(k) == left[k] > 0 /\ left' = [left EXCEPT ![k] = @ - 1]

Unused == {j \in NewIds : db[j] = "none" /\ tree[j] = "none" /\ j \notin man \cup mem \cup gone
                          /\ \A r \in Reqs : req[r].file # j}

\* A vault that is in sync, the app not yet started.
Init ==
    /\ db = [i \in Ids |-> IF i \in Files THEN "fixed" ELSE "none"]
    /\ tree = db /\ moved = {} /\ dirty = {} /\ man = Files
    /\ mem = {} /\ eng = Off /\ due = {}
    /\ flag = FALSE /\ news = FALSE /\ boot = "done" /\ pref \in BOOLEAN /\ want = FALSE
    /\ lock = None /\ req = [r \in Reqs |-> NoReq]
    /\ dup = NoDup
    /\ cp = [c \in Checkpoints |-> NoCp]
    /\ unsaved = Files /\ staged = {} /\ repo \in {"none", "free"}
    /\ touched = [c \in Checkpoints |-> {}]
    /\ left \in Budgets
    /\ gone = {} /\ exposed = {} /\ toggled = FALSE /\ wish = FALSE /\ resumed = FALSE

----------------------------------------------------------------------------
(* The daemon.                                                             *)

\* A write to the tree, as git sees it.
Touch(i) ==
    /\ unsaved' = unsaved \cup {i}
    /\ staged' = staged \ {i}
    /\ touched' = [c \in Checkpoints |-> IF cp[c].pc \in {"probed", "added"}
                                       THEN touched[c] \cup {i} ELSE touched[c]]

\* spawn(): a new pause channel, unpaused; the manifest as it is on disk.
Spawn ==
    /\ eng.pc = "down"
    /\ eng' = [Off EXCEPT !.pc = "start"] /\ mem' = man /\ due' = {}
    /\ flag' = FALSE /\ news' = FALSE /\ boot' = "prefs"
    /\ toggled' = FALSE /\ wish' = FALSE /\ resumed' = FALSE
    /\ UNCHANGED <<vaultVars, pref, want, delVars, dup, gitVars, left, gone, exposed>>

SetFlag(v) == flag' = v /\ news' = TRUE

BootPauseOnce ==
    /\ boot \in {"prefs", "attach"}
    /\ boot' = IF boot = "prefs" THEN "attach" ELSE "done"
    /\ IF boot = "attach" /\ want
       THEN SetFlag(TRUE) /\ wish' = TRUE /\ toggled' = (toggled \/ lock # None)
       ELSE UNCHANGED <<flag, news, wish, toggled>>
    /\ UNCHANGED <<vaultVars, engVars, pref, want, delVars, dup, gitVars, left, gone, exposed, resumed>>

\* boot pauses as the preferences say, then the tray's bridge as the tray said.
BootPause ==
    /\ boot \in {"prefs", "attach"}
    /\ boot' = IF boot = "prefs" THEN "attach" ELSE "done"
    /\ IF (boot = "prefs" /\ ~pref) \/ (boot = "attach" /\ want)
       THEN SetFlag(TRUE) /\ wish' = TRUE /\ toggled' = (toggled \/ lock # None)
       ELSE UNCHANGED <<flag, news, wish, toggled>>
    /\ UNCHANGED <<vaultVars, engVars, pref, want, delVars, dup, gitVars, left, gone, exposed, resumed>>

\* The acknowledgement wakes whoever waits for it.
Acknowledge ==
    req' = [r \in Reqs |-> IF req[r].pc = "waiting" THEN [req[r] EXCEPT !.pc = "acked"] ELSE req[r]]

\* Before the first reconciliation: a paused daemon acknowledges once and
\* waits for the flag to be set again, one that is not paused reconciles.
PreLoop ==
    /\ \/ /\ eng.pc = "start" /\ flag
          /\ eng' = [eng EXCEPT !.pc = "parked"] /\ Acknowledge /\ UNCHANGED news
       \/ /\ eng.pc = "start" /\ ~flag
          /\ eng' = [eng EXCEPT !.pc = "reconcile", !.todo = Ids] /\ UNCHANGED <<news, req>>
       \/ /\ eng.pc = "parked" /\ news
          /\ eng' = [eng EXCEPT !.pc = "start"] /\ news' = FALSE /\ UNCHANGED req
       \/ /\ eng.pc = "retry"
          /\ eng' = [eng EXCEPT !.pc = "start"] /\ UNCHANGED <<news, req>>
    /\ UNCHANGED <<vaultVars, mem, due, flag, boot, pref, want, lock, dup, gitVars, left, histVars>>

\* The decision table, for one file of the reconciliation.
decide(i) ==
    LET onDisk == tree[i] # "none"  known == i \in mem  row == db[i] # "none" IN
    CASE onDisk /\ ~known                                      -> "new"
      [] onDisk /\ known /\ (~row \/ i \in dirty)              -> "import"
      [] row /\ (~onDisk \/ (known /\ i \in moved \ dirty))    -> "export"
      [] ~onDisk /\ known /\ ~row                              -> "forget"
      [] OTHER                                                 -> "noop"

\* What each of the three passes does about a file.
Wants(i) ==
    CASE eng.pc = "reconcile" -> decide(i)
      [] eng.pc = "poll" -> IF db[i] # "none" THEN "export" ELSE "noop"
      [] eng.pc = "fs" -> CASE tree[i] # "none" /\ i \notin mem          -> "new"
                            [] tree[i] # "none" /\ i \in mem \cap dirty  -> "import"
                            [] OTHER                                      -> "noop"

\* A pass takes a file up and reads what it is going to write: the export of
\* the row, or the tree as a zip.
Take(i) ==
    /\ Working /\ eng.item = None /\ i \in eng.todo
    /\ LET op == Wants(i) IN
       /\ eng' = [eng EXCEPT !.todo = @ \ {i},
                             !.item = CASE op = "export" -> [op |-> op, id |-> i, form |-> db[i]]
                                        [] op \in {"import", "new"} -> [op |-> op, id |-> i, form |-> tree[i]]
                                        [] OTHER -> None]
       /\ mem' = IF op = "forget" THEN mem \ {i} ELSE mem
       /\ man' = IF op = "forget" THEN mem \ {i} ELSE man
    /\ UNCHANGED <<db, moved, tree, dirty, due, pauseVars, delVars, dup, gitVars, left, histVars>>

\* export_file: the entry is saved with all of the daemon's manifest, and the
\* export takes the directory's place.
Export ==
    /\ Working /\ eng.item # None /\ eng.item.op = "export"
    /\ LET i == eng.item.id IN
       /\ mem' = mem \cup {i} /\ man' = mem'
       /\ tree' = [tree EXCEPT ![i] = eng.item.form]
       /\ moved' = IF db[i] = eng.item.form THEN moved \ {i} ELSE moved
       /\ dirty' = dirty \ {i}
       /\ Touch(i)
    /\ eng' = [eng EXCEPT !.item = None]
    /\ UNCHANGED <<db, due, pauseVars, delVars, dup, cp, repo, left, histVars>>

\* import_in_place: the row is made again under its id, or replaced.
Import ==
    /\ Working /\ eng.item # None /\ eng.item.op = "import"
    /\ LET i == eng.item.id IN
       /\ db' = [db EXCEPT ![i] = eng.item.form]
       /\ moved' = moved \ {i} /\ dirty' = dirty \ {i}
       /\ mem' = mem \cup {i} /\ man' = mem'
    /\ eng' = [eng EXCEPT !.item = None]
    /\ UNCHANGED <<tree, due, pauseVars, delVars, dup, gitVars, left, histVars>>

\* import_as_new: the directory becomes another file's.
ImportNew ==
    /\ Working /\ eng.item # None /\ eng.item.op = "new"
    /\ \E j \in Unused : LET i == eng.item.id IN
       /\ db' = [db EXCEPT ![j] = eng.item.form]
       /\ tree' = [tree EXCEPT ![i] = "none", ![j] = tree[i]]
       /\ mem' = mem \cup {j} /\ man' = mem'
    /\ eng' = [eng EXCEPT !.item = None]
    /\ UNCHANGED <<moved, dirty, due, pauseVars, delVars, dup, gitVars, left, histVars>>

\* A call to the backend fails: one file is skipped, or the reconciliation
\* is tried again.
PassFails ==
    /\ Working /\ Spend("fault")
    /\ eng' = [eng EXCEPT !.item = None,
                          !.pc = IF @ = "reconcile" THEN "retry" ELSE @,
                          !.todo = IF eng.pc = "reconcile" THEN {} ELSE @]
    /\ UNCHANGED <<vaultVars, mem, due, pauseVars, delVars, dup, gitVars, histVars>>

PassEnds ==
    /\ Working /\ eng.item = None /\ eng.todo = {}
    /\ eng' = [eng EXCEPT !.pc = "loop"]
    /\ UNCHANGED <<vaultVars, mem, due, pauseVars, delVars, dup, gitVars, left, histVars>>

\* The branches of the select, in any order: the flag changed, ...
PauseSeen ==
    /\ eng.pc = "loop" /\ news /\ news' = FALSE
    /\ mem' = IF flag THEN mem ELSE man
    /\ due' = IF flag THEN {} ELSE {i \in Ids : tree[i] # "none"}
    /\ UNCHANGED <<vaultVars, eng, flag, boot, pref, want, delVars, dup, gitVars, left, histVars>>

\* ... the debounce tick, ...
FsTick ==
    /\ eng.pc = "loop" /\ ~flag /\ due # {}
    /\ eng' = [eng EXCEPT !.pc = "fs", !.todo = due]
    /\ due' = {}
    /\ UNCHANGED <<vaultVars, mem, pauseVars, delVars, dup, gitVars, left, histVars>>

\* ... and the poll tick, which exports the rows that changed or are new.
PollTick ==
    /\ eng.pc = "loop" /\ ~flag
    /\ LET changed == {i \in Ids : db[i] # "none" /\ (i \in moved \/ i \notin mem)} IN
       changed # {} /\ eng' = [eng EXCEPT !.pc = "poll", !.todo = changed]
    /\ UNCHANGED <<vaultVars, mem, due, pauseVars, delVars, dup, gitVars, left, histVars>>

\* Back at the select with the flag set, the daemon acknowledges.
Ack ==
    /\ eng.pc = "loop" /\ flag /\ \E r \in Reqs : req[r].pc = "waiting"
    /\ Acknowledge
    /\ UNCHANGED <<vaultVars, engVars, pauseVars, lock, dup, gitVars, left, histVars>>

----------------------------------------------------------------------------
(* Deleting a file.                                                        *)

Step(r, pc) == req' = [req EXCEPT ![r].pc = pc]

\* A request is refused while there is no daemon; one that is accepted runs
\* in a task of its own, whoever waits for the answer.
delete_file(r) ==
    /\ \A q \in Reqs : req[q].pc = "none" <=> q >= r
    /\ Up /\ boot # "prefs" /\ Spend("delete")
    /\ \E i \in Ids : db[i] # "none" /\ req' = [req EXCEPT ![r] = [NoReq EXCEPT !.pc = "queued", !.file = i]]
    /\ UNCHANGED <<vaultVars, engVars, pauseVars, lock, dup, gitVars, histVars>>

\* One delete at a time; it remembers whether sync was paused before it.
TakeLock(r) ==
    /\ req[r].pc = "queued" /\ lock = None
    /\ lock' = r /\ req' = [req EXCEPT ![r].pc = "held", ![r].was = flag]
    /\ UNCHANGED <<vaultVars, engVars, pauseVars, dup, gitVars, left, histVars>>

PauseOnly(r) ==
    /\ req[r].pc = "held"
    /\ SetFlag(TRUE) /\ Step(r, "acked")
    /\ UNCHANGED <<vaultVars, engVars, boot, pref, want, lock, dup, gitVars, left, histVars>>

\* pause_and_wait_idle: the flag, then the wait for an acknowledgement.
PauseAndWait(r) ==
    /\ req[r].pc = "held"
    /\ SetFlag(TRUE) /\ Step(r, "waiting")
    /\ UNCHANGED <<vaultVars, engVars, boot, pref, want, lock, dup, gitVars, left, histVars>>

\* The guard gives the flag back, if it was the one to set it.
Release(r, pc) ==
    /\ IF req[r].was THEN UNCHANGED <<flag, news>> ELSE SetFlag(FALSE)
    /\ Step(r, pc) /\ lock' = None

\* Five seconds without an acknowledgement: nothing is deleted.
Timeout(r) ==
    /\ req[r].pc = "waiting" /\ Release(r, "failed")
    /\ UNCHANGED <<vaultVars, engVars, boot, pref, want, dup, gitVars, left, histVars>>

\* The delete-file call: it fails, it takes effect, or it takes effect and the
\* answer is lost.
RpcDelete(r) ==
    /\ req[r].pc = "acked"
    /\ LET i == req[r].file  there == db[i] # "none" IN
       \/ /\ there /\ db' = [db EXCEPT ![i] = "none"] /\ moved' = moved \ {i}
          /\ exposed' = IF dup.pc \in {"settle", "reimport"} /\ dup.id = i THEN exposed \cup {i} ELSE exposed
          /\ \/ Step(r, "deleted") /\ UNCHANGED left
             \/ Step(r, "failing") /\ Spend("fault")
       \/ /\ ~there /\ Step(r, "failing") /\ UNCHANGED <<db, moved, exposed, left>>
       \/ /\ there /\ Spend("fault") /\ Step(r, "failing") /\ UNCHANGED <<db, moved, exposed>>
    /\ UNCHANGED <<tree, dirty, man, engVars, pauseVars, lock, dup, gitVars, gone, toggled, wish, resumed>>

\* trash_file: the manifest is read and the directory is moved to .trash/, ...
TrashMove(r) ==
    /\ req[r].pc = "deleted"
    /\ LET i == req[r].file IN
       \/ /\ i \in man
          /\ req' = [req EXCEPT ![r].pc = "moved", ![r].copy = man]
          /\ tree' = [tree EXCEPT ![i] = "none"] /\ dirty' = dirty \ {i}
          /\ IF tree[i] # "none" THEN Touch(i) ELSE UNCHANGED <<unsaved, staged, touched>>
          /\ UNCHANGED left
       \/ /\ i \notin man /\ Step(r, "failing")
          /\ UNCHANGED <<tree, dirty, unsaved, staged, touched, left>>
       \/ /\ Spend("fault") /\ Step(r, "failing")
          /\ UNCHANGED <<tree, dirty, unsaved, staged, touched>>
    /\ UNCHANGED <<db, moved, man, engVars, pauseVars, lock, dup, cp, repo, histVars>>

TrashSaveFirst(r) ==
    /\ req[r].pc \in {"deleted", "moved"}
    /\ man' = (IF req[r].pc = "deleted" THEN man ELSE req[r].copy) \ {req[r].file}
    /\ Step(r, IF req[r].pc = "deleted" THEN "deleted" ELSE "trashed")
    /\ UNCHANGED <<db, moved, tree, dirty, engVars, pauseVars, lock, dup, gitVars, left, histVars>>

\* ... and only then is the entry taken out of the manifest.
TrashSave(r) ==
    /\ req[r].pc = "moved"
    /\ man' = req[r].copy \ {req[r].file}
    /\ Step(r, "trashed")
    /\ UNCHANGED <<db, moved, tree, dirty, engVars, pauseVars, lock, dup, gitVars, left, histVars>>

\* The guard is dropped on every path, then the lock, and the request answers.
DropGuardOnSuccess(r) ==
    /\ req[r].pc = "trashed" /\ Release(r, "ok")
    /\ gone' = gone \cup {req[r].file}
    /\ UNCHANGED <<vaultVars, engVars, boot, pref, want, dup, gitVars, left, exposed, toggled, wish, resumed>>

DropGuard(r) ==
    /\ \/ req[r].pc = "trashed" /\ Release(r, "ok") /\ gone' = gone \cup {req[r].file}
       \/ req[r].pc = "failing" /\ Release(r, "failed") /\ UNCHANGED gone
    /\ UNCHANGED <<vaultVars, engVars, boot, pref, want, dup, gitVars, left, exposed, toggled, wish, resumed>>

----------------------------------------------------------------------------
(* The other routes, the person and the backend.                           *)

\* The pause is touched by the person: a delete that holds it does not know.
Moved ==
    /\ toggled' = (toggled \/ lock # None)
    /\ exposed' = IF flag' \/ lock = None THEN exposed ELSE exposed \cup {req[lock].file}
    /\ wish' = flag' /\ resumed' = (resumed \/ ~flag')

\* The tray toggles what its status says and remembers it.
TrayToggle ==
    /\ Up /\ boot = "done" /\ Spend("toggle")
    /\ SetFlag(~flag) /\ want' = ~flag
    /\ Moved
    /\ UNCHANGED <<vaultVars, engVars, boot, pref, delVars, dup, gitVars, gone>>

\* Saving the preferences applies sync_enabled, whether or not it changed.
post_prefs ==
    /\ Up /\ boot = "done" /\ Spend("toggle")
    /\ pref' \in BOOLEAN /\ SetFlag(~pref')
    /\ Moved
    /\ UNCHANGED <<vaultVars, engVars, boot, want, delVars, dup, gitVars, gone>>

\* Somebody draws, or renames or moves the file through the manage routes:
\* either way the row changes.
Edit(i) ==
    /\ db[i] # "none" /\ i \notin dirty /\ Spend("edit")
    /\ moved' = moved \cup {i} /\ db' = [db EXCEPT ![i] = "fixed"]
    /\ UNCHANGED <<tree, dirty, man, engVars, pauseVars, delVars, dup, gitVars, histVars>>

new_file ==
    /\ Up /\ Spend("new")
    /\ \E j \in Unused : db' = [db EXCEPT ![j] = "fixed"] /\ moved' = moved \cup {j}
    /\ UNCHANGED <<tree, dirty, man, engVars, pauseVars, delVars, dup, gitVars, histVars>>

\* Somebody edits a directory of the vault.
EditTree(i) ==
    /\ tree[i] # "none" /\ i \notin moved /\ Spend("disk")
    /\ \A it \in {eng.item} \ {None} : it.id # i
    /\ dirty' = dirty \cup {i}
    /\ due' = IF Up /\ ~flag THEN due \cup {i} ELSE due
    /\ Touch(i)
    /\ UNCHANGED <<db, moved, tree, man, mem, eng, pauseVars, delVars, dup, cp, repo, histVars>>

\* duplicate_file: export, download, import as new, ...
DupStart(i) ==
    /\ dup.pc = "none" /\ Up /\ db[i] # "none" /\ Spend("dup")
    /\ dup' = [NoDup EXCEPT !.pc = "import"]
    /\ UNCHANGED <<vaultVars, engVars, pauseVars, delVars, gitVars, histVars>>

DupImport ==
    /\ dup.pc = "import"
    /\ \E j \in Unused :
          /\ db' = [db EXCEPT ![j] = "raw"] /\ moved' = moved \cup {j}
          /\ dup' = [dup EXCEPT !.pc = "settle", !.id = j]
    /\ UNCHANGED <<tree, dirty, man, engVars, pauseVars, delVars, gitVars, left, histVars>>

\* ... and settle_to_fixpoint: export, compare with the export before, and
\* unless they are equal import the normalised tree onto the row. An import
\* makes the row again if it was deleted meanwhile.
Settle ==
    /\ dup.pc = "settle"
    /\ LET j == dup.id  same == dup.last # "none" /\ dup.last = db[j] IN
       \/ /\ db[j] # "none" /\ same
          /\ dup' = [dup EXCEPT !.pc = "done"] /\ UNCHANGED <<db, moved>>
       \/ /\ db[j] # "none" /\ ~same /\ dup.cycles < MaxSettle
          /\ dup' = [dup EXCEPT !.pc = "reimport", !.last = db[j]]
          /\ UNCHANGED <<db, moved>>
       \/ /\ db[j] = "none" \/ (~same /\ dup.cycles = MaxSettle)
          /\ dup' = [dup EXCEPT !.pc = "failed"] /\ UNCHANGED <<db, moved>>
    /\ UNCHANGED <<tree, dirty, man, engVars, pauseVars, delVars, gitVars, left, histVars>>

Reimport ==
    /\ dup.pc = "reimport"
    /\ db' = [db EXCEPT ![dup.id] = "fixed"] /\ moved' = moved \cup {dup.id}
    /\ dup' = [dup EXCEPT !.pc = "settle", !.cycles = @ + 1]
    /\ UNCHANGED <<tree, dirty, man, engVars, pauseVars, delVars, gitVars, left, histVars>>

DupFails ==
    /\ dup.pc \in {"import", "settle", "reimport"} /\ Spend("fault")
    /\ dup' = [dup EXCEPT !.pc = "failed"]
    /\ UNCHANGED <<vaultVars, engVars, pauseVars, delVars, gitVars, histVars>>

----------------------------------------------------------------------------
(* Checkpoints: git runs over the vault as it is, sync goes on.            *)

\* probe and decide.
Probe(c) ==
    /\ \A d \in Checkpoints : cp[d].pc = "none" <=> d >= c
    /\ Up /\ Spend("check")
    /\ cp' = [cp EXCEPT ![c].saw = unsaved,
                        ![c].pc = CASE repo = "busy" -> "refused"
                                    [] repo = "free" /\ unsaved = {} -> "done"
                                    [] OTHER -> "probed"]
    /\ touched' = [touched EXCEPT ![c] = {}]
    /\ UNCHANGED <<vaultVars, engVars, pauseVars, delVars, dup, unsaved, staged, repo, histVars>>

GitInitEmpty(c) ==
    /\ cp[c].pc = "probed" /\ repo = "none"
    /\ repo' = "free" /\ UNCHANGED <<unsaved, staged>>
    /\ cp' = [cp EXCEPT ![c].pc = "done"]
    /\ UNCHANGED <<vaultVars, engVars, pauseVars, delVars, dup, touched, left, histVars>>

\* run_git_init: init, add and commit in one script.
GitInit(c) ==
    /\ cp[c].pc = "probed" /\ repo = "none"
    /\ repo' = "free" /\ unsaved' = {} /\ staged' = {}
    /\ cp' = [cp EXCEPT ![c].pc = "done"]
    /\ UNCHANGED <<vaultVars, engVars, pauseVars, delVars, dup, touched, left, histVars>>

GitAdd(c) ==
    /\ cp[c].pc = "probed" /\ repo # "none"
    /\ staged' = unsaved
    /\ cp' = [cp EXCEPT ![c].pc = "added"]
    /\ UNCHANGED <<vaultVars, engVars, pauseVars, delVars, dup, unsaved, repo, touched, left, histVars>>

\* A commit of nothing fails, as it does when another checkpoint was faster.
GitCommit(c) ==
    /\ cp[c].pc = "added"
    /\ IF staged # {}
       THEN /\ unsaved' = unsaved \ staged /\ staged' = {}
            /\ cp' = [cp EXCEPT ![c].pc = "done"]
       ELSE /\ cp' = [cp EXCEPT ![c].pc = "failed"] /\ UNCHANGED <<unsaved, staged>>
    /\ UNCHANGED <<vaultVars, engVars, pauseVars, delVars, dup, repo, touched, left, histVars>>

\* The person begins a merge, a rebase or the like in a terminal, or ends it.
UserGit ==
    /\ repo # "none" /\ Spend("git")
    /\ repo' = IF repo = "free" THEN "busy" ELSE "free"
    /\ UNCHANGED <<vaultVars, engVars, pauseVars, delVars, dup, cp, unsaved, staged, touched, histVars>>

----------------------------------------------------------------------------
\* The app is killed: the vault, the database and the preferences stay.
Crash ==
    /\ Up /\ Spend("crash")
    /\ eng' = Off /\ mem' = {} /\ due' = {}
    /\ flag' = FALSE /\ news' = FALSE /\ boot' = "done" /\ want' = FALSE /\ resumed' = FALSE
    /\ lock' = None
    /\ req' = [r \in Reqs |-> IF req[r].pc \in {"none", "ok", "failed"} THEN req[r]
                              ELSE [req[r] EXCEPT !.pc = "lost"]]
    /\ dup' = IF dup.pc \in {"none", "done"} THEN dup ELSE [dup EXCEPT !.pc = "failed"]
    /\ cp' = [c \in Checkpoints |-> IF cp[c].pc \in {"probed", "added"}
                                    THEN [cp[c] EXCEPT !.pc = "failed"] ELSE cp[c]]
    /\ UNCHANGED <<vaultVars, pref, unsaved, staged, repo, touched, gone, exposed, toggled, wish>>

\* A reboot in place: the requests are drained first, the tray's bridge and
\* the process stay.
Reboot ==
    /\ eng.pc \in {"loop", "parked", "retry"} /\ boot = "done" /\ Spend("crash")
    /\ lock = None /\ \A r \in Reqs : req[r].pc # "queued"
    /\ eng' = Off /\ mem' = {} /\ due' = {}
    /\ UNCHANGED <<vaultVars, pauseVars, delVars, dup, gitVars, histVars>>

Pass == PassFails \/ PassEnds \/ Export \/ Import \/ ImportNew \/ \E i \in Ids : Take(i)

Daemon == PreLoop \/ PauseSeen \/ FsTick \/ PollTick \/ Ack \/ Pass

Delete(r) ==
    \/ TakeLock(r) \/ PauseAndWait(r) \/ Timeout(r) \/ RpcDelete(r)
    \/ TrashMove(r) \/ TrashSave(r) \/ DropGuard(r)

Duplicate == DupImport \/ Settle \/ Reimport \/ DupFails

Checkpoint(c) == GitInit(c) \/ GitAdd(c) \/ GitCommit(c)

Person ==
    \/ TrayToggle \/ post_prefs \/ new_file \/ UserGit \/ Crash \/ Reboot
    \/ \E i \in Ids : Edit(i) \/ EditTree(i) \/ DupStart(i)
    \/ \E r \in Reqs : delete_file(r)
    \/ \E c \in Checkpoints : Probe(c)

Next ==
    \/ Spawn \/ BootPause \/ Daemon \/ Person \/ Duplicate
    \/ \E r \in Reqs : Delete(r)
    \/ \E c \in Checkpoints : Checkpoint(c)

\* The daemon's loop, the tasks and the timers go on; the person need not.
Fairness ==
    /\ WF_vars(BootPause) /\ WF_vars(PreLoop)
    /\ WF_vars(PauseSeen) /\ WF_vars(FsTick) /\ WF_vars(PollTick) /\ WF_vars(Ack)
    /\ WF_vars(Pass /\ ~PassFails)
    /\ \A r \in Reqs : WF_vars(Delete(r))
    /\ WF_vars(Settle) /\ WF_vars(Reimport)

Spec == Init /\ [][Next]_vars /\ Fairness

----------------------------------------------------------------------------
(* Properties.                                                             *)

\* A file whose delete was answered with ok is never seen again, neither in
\* the vault nor in Penpot, whatever restarts, edits, polls and other deletes
\* come after it, unless in the middle of it the person resumed sync or a
\* duplicate was still importing onto it.
GoneForGood == \A i \in gone \ exposed : db[i] = "none" /\ tree[i] = "none"

\* Deletes leave the pause as they found it, however they end and overlap; and
\* sync that is off in the preferences is off after every start, until the
\* person resumes it.
SyncAsWished ==
    Up /\ ~toggled =>
        /\ lock = None => flag = wish
        /\ boot = "done" /\ ~pref /\ ~resumed => flag

\* The guard's comment says so of every delete, a pause in its middle included.
AlwaysAsWished == Up /\ lock = None => flag = wish

\* An entry leaves the saved manifest only when its directory has left the
\* tree: a directory without an entry would come back as another file.
EntriesCover == [][~toggled' => \A i \in man \ man' : tree'[i] = "none"]_vars

\* An entry that a delete took out of the manifest does not get back into it.
TrashedStaysOut == gone \cap man = {}

\* What a checkpoint that answers with success saw in the vault is in HEAD,
\* except what changed since: daemon, deletes and other checkpoints may run.
CheckpointHolds ==
    [][\A c \in Checkpoints :
        cp[c].pc # "done" /\ cp'[c].pc = "done" => cp'[c].saw \cap unsaved' \subseteq touched'[c]]_vars

\* A delete that was accepted is answered, or dies with the app.
DeletesEnd == \A r \in Reqs : req[r].pc = "queued" ~> req[r].pc \in {"ok", "failed", "lost"}
=============================================================================
