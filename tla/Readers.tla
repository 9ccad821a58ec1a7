------------------------------ MODULE Readers ------------------------------
(***************************************************************************)
(* The two services that read what the sync daemon writes and never talk   *)
(* to it: board-export, which renders a file's boards into a directory     *)
(* beside it, and vault-index, which keeps a full-text index of every      *)
(* file.  Both poll the manifest and work on a file when the hash the      *)
(* manifest has for it is not the one their own record has; both read the  *)
(* content from somewhere else and later: board-export from Penpot's       *)
(* database, vault-index from the tree, which the daemon swaps in after it *)
(* saved the manifest.                                                     *)
(*                                                                         *)
(* A file's content is a version, and its semantic hash is the pair of the *)
(* file and the version: ids are part of a tree.                           *)
(***************************************************************************)
EXTENDS Naturals, FiniteSets

CONSTANTS
    Files,     \* file ids
    Paths,     \* places for a .penpot directory; its .exports directory has the same name
    Packs,     \* packages
    Boards,    \* board ids
    BoardsOf,  \* list_boards, by version: the boards a content has
    Scenarios, \* bound: how often each thing may happen
    None

Versions == DOMAIN BoardsOf
MaxVer == Cardinality(Versions)
Gone == MaxVer + 1
Kinds == {"edit", "disk", "new", "move", "delete", "switch", "pin", "unpin", "garble",
          "schema", "toggle", "expire", "fault", "crash"}

ASSUME ContentAssumption == /\ Versions = 1 .. MaxVer
                            /\ \A v \in Versions : BoardsOf[v] \subseteq Boards
ASSUME EnoughAssumption == MaxVer \in Nat /\ MaxVer >= 2 /\ Files # {} /\ Paths # {}
ASSUME ScenariosAssumption == Scenarios \subseteq [Kinds -> Nat]
ASSUME NoneAssumption == None \notin Files \cup Paths \cup Packs \cup Boards

VARIABLES
    content, \* the database: the version of each file; 0 before, Gone after
    disk,    \* the vault: .penpot and .exports directories, manifest, lock.json
    away,    \* the other vault, while this one is open
    syn,     \* the directory swap the daemon has under way
    app,     \* the app runs
    wanted,  \* prefs: exports_enabled
    ren,     \* board-export
    ix,      \* vault-index
    rows,    \* the index: where each file is and what its rows came from
    cards,   \* the index: the version of each package's row, 0 for none
    left,    \* what is left of the scenario
    shown    \* history: the places that had renders since this vault was opened

envVars == <<content, away, syn, app, wanted>>
vars == <<envVars, disk, ren, ix, rows, cards, left, shown>>

Tree    == [file : Files, ver : Versions \cup {0}]  \* 0: parts of two versions
Synced  == [path : Paths, hash : Versions]
Shots   == UNION {[B -> Versions] : B \in SUBSET Boards}
Rendered == [file : Files, hash : Versions, shots : Shots]
Pending == [hash : Versions, path : Paths, due : BOOLEAN]
Row     == [path : Paths, of : Tree, docs : Tree]  \* the hash recorded, and what was read
Swap    == [file : Files, ver : Versions, path : Paths, at : {"out", "in"}]
NoMan   == [f \in Files |-> None]

ASSUME NothingAssumption ==
    None \notin Tree \cup Synced \cup Rendered \cup Pending \cup Row \cup Swap

Disk == [tree : [Paths -> Tree \cup {None}], man : [Files -> Synced \cup {None}],
         out : [Paths -> Rendered \cup {None}], old : [Paths -> Rendered \cup {None}],
         lock : [Packs -> 0 .. 2], bad : BOOLEAN]
Exporting == [pc : {"off", "idle", "shoot", "in", "clean"},
              queue : [Files -> Pending \cup {None}], batch : [Files -> Pending \cup {None}],
              cur : Files \cup {None}, todo : SUBSET Boards, shots : Shots,
              cookie : {"none", "good", "stale"}]
Indexing == [pc : {"off", "idle", "file", "read"}, man : [Files -> Synced \cup {None}],
             keep : SUBSET Packs, todo : SUBSET Files, cur : Files \cup {None},
             read : Tree \cup {None}]

Empty == [tree |-> [p \in Paths |-> None], man |-> NoMan,
          out |-> [p \in Paths |-> None], old |-> [p \in Paths |-> None],
          lock |-> [k \in Packs |-> 0], bad |-> FALSE]
RenOff == [pc |-> "off", queue |-> [f \in Files |-> None], batch |-> [f \in Files |-> None],
           cur |-> None, todo |-> {}, shots |-> << >>, cookie |-> "none"]
IxOff  == [pc |-> "off", man |-> NoMan, keep |-> {}, todo |-> {}, cur |-> None, read |-> None]

TypeOK ==
    /\ content \in [Files -> 0 .. Gone]
    /\ {disk, away} \subseteq Disk
    /\ syn \in Swap \cup {None}
    /\ app \in BOOLEAN /\ wanted \in BOOLEAN
    /\ ren \in Exporting /\ (ren.cur # None <=> ren.pc \in {"shoot", "in", "clean"})
    /\ (ren.cur # None => ren.batch[ren.cur] # None)
    /\ ix \in Indexing /\ (ix.cur # None <=> ix.pc = "read") /\ (ix.cur # None <=> ix.read # None)
    /\ \A f \in ix.todo \cup ({ix.cur} \ {None}) : ix.man[f] # None
    /\ rows \in [Files -> Row \cup {None}] /\ cards \in [Packs -> 0 .. 2]
    /\ left \in [Kinds -> Nat] /\ shown \subseteq Paths

Spend(k) == left[k] > 0 /\ left' = [left EXCEPT ![k] = @ - 1]
Live(f)  == content[f] \in Versions
There(f) == disk.man[f] # None
Place(f) == disk.man[f].path
Free     == {p \in Paths : disk.tree[p] = None}
HoldsAt(p, f) == disk.tree[p] # None /\ disk.tree[p].file = f
InStep(f) == There(f) /\ disk.tree[Place(f)] = [file |-> f, ver |-> disk.man[f].hash]

\* A vault of one file at the version v, and a package; nothing is derived yet.
Vault(f, p, v) == [Empty EXCEPT !.tree[p] = [file |-> f, ver |-> v],
                                !.man[f] = [path |-> p, hash |-> v],
                                !.lock = [k \in Packs |-> 1]]
Contents(d) == [f \in Files |-> IF d.man[f] = None THEN 0 ELSE d.man[f].hash]

\* The other vault is an older copy of this one, made in a file manager.
Init ==
    /\ left \in Scenarios
    /\ LET f == CHOOSE x \in Files : TRUE
           p == CHOOSE x \in Paths : TRUE IN
       disk = Vault(f, p, 2) /\ away = Vault(f, p, 1)
    /\ content = Contents(disk)
    /\ syn = None /\ app = FALSE /\ wanted = TRUE
    /\ ren = RenOff /\ ix = IxOff
    /\ rows = [f \in Files |-> None] /\ cards = [k \in Packs |-> 0]
    /\ shown = {}

----------------------------------------------------------------------------
(* The vault and the daemon, as far as the readers see them.               *)

readers == <<ren, ix, rows, cards, shown>>

\* A tree that was edited outside and is not imported yet; two edits at once
\* are the sync engine's conflict.
Diverged(f) == /\ There(f) /\ HoldsAt(Place(f), f) /\ ~InStep(f)
               /\ (syn # None => syn.file # f)

Edit(f) ==
    /\ Live(f) /\ content[f] < MaxVer /\ ~Diverged(f)
    /\ Spend("edit") /\ content' = [content EXCEPT ![f] = @ + 1]
    /\ UNCHANGED <<disk, away, syn, app, wanted, readers>>

New(f) ==
    /\ app /\ content[f] = 0 /\ Spend("new")
    /\ content' = [content EXCEPT ![f] = 1]
    /\ UNCHANGED <<disk, away, syn, app, wanted, readers>>

\* The daemon exports: the hash is in the manifest before the swap lands.
Record(f) ==
    /\ app /\ syn = None /\ Live(f)
    /\ IF There(f) THEN InStep(f) /\ content[f] # disk.man[f].hash ELSE Free # {}
    /\ \E p \in IF There(f) THEN {Place(f)} ELSE Free :
         /\ disk' = [disk EXCEPT !.man[f] = [path |-> p, hash |-> content[f]]]
         /\ syn' = [file |-> f, ver |-> content[f], path |-> p,
                    at |-> IF disk.tree[p] = None THEN "in" ELSE "out"]
    /\ UNCHANGED <<content, away, app, wanted, readers, left>>

SwapTree ==
    /\ app /\ syn # None
    /\ \/ /\ syn.at = "out" /\ syn' = [syn EXCEPT !.at = "in"]
          /\ disk' = [disk EXCEPT !.tree[syn.path] = None]
       \/ /\ syn.at = "in" /\ syn' = None
          /\ disk' = [disk EXCEPT !.tree[syn.path] = [file |-> syn.file, ver |-> syn.ver]]
    /\ UNCHANGED <<content, away, app, wanted, readers, left>>

\* A tree is edited outside, and the daemon imports it.
DiskEdit(f) ==
    /\ InStep(f) /\ syn = None /\ content[f] = disk.man[f].hash /\ content[f] < MaxVer
    /\ Spend("disk") /\ disk' = [disk EXCEPT !.tree[Place(f)].ver = @ + 1]
    /\ UNCHANGED <<envVars, readers>>

Import(f) ==
    /\ app /\ syn = None /\ Diverged(f)
    /\ LET v == disk.tree[Place(f)].ver IN
       /\ content' = [content EXCEPT ![f] = v]
       /\ disk' = [disk EXCEPT !.man[f].hash = v]
    /\ UNCHANGED <<away, syn, app, wanted, readers, left>>

\* A directory is moved, by the person or to follow a rename in Penpot; the
\* manifest is told afterwards.  Its .exports directory stays where it was.
MoveDir(f, p) ==
    /\ InStep(f) /\ syn = None /\ p \in Free /\ Spend("move")
    /\ disk' = [disk EXCEPT !.tree[Place(f)] = None, !.tree[p] = disk.tree[Place(f)]]
    /\ UNCHANGED <<envVars, readers>>

Rekey(f) ==
    /\ app /\ syn = None /\ There(f)
    /\ \E p \in Paths : HoldsAt(p, f) /\ p # Place(f) /\ disk' = [disk EXCEPT !.man[f].path = p]
    /\ UNCHANGED <<envVars, readers, left>>

Delete(f) ==
    /\ app /\ syn = None /\ InStep(f) /\ Spend("delete")
    /\ content' = [content EXCEPT ![f] = Gone]
    /\ disk' = [disk EXCEPT !.man[f] = None, !.tree[Place(f)] = None]
    /\ UNCHANGED <<away, syn, app, wanted, readers>>

\* lock.json: a package is pinned, unpinned, or git leaves conflict marks in it.
Relock ==
    /\ \/ \E k \in Packs : Spend("pin") /\ disk' = [disk EXCEPT !.lock[k] = 2]
       \/ \E k \in Packs : Spend("unpin") /\ disk' = [disk EXCEPT !.lock[k] = 0]
       \/ Spend("garble") /\ disk' = [disk EXCEPT !.bad = TRUE]
    /\ UNCHANGED <<envVars, readers>>

Repair ==
    /\ disk.bad /\ disk' = [disk EXCEPT !.bad = FALSE]
    /\ UNCHANGED <<envVars, readers, left>>

\* The app ends: what is in memory is lost.  An orderly end is the same at a
\* moment when neither service is inside a swap.
Crash ==
    /\ app /\ syn = None /\ Spend("crash")
    /\ app' = FALSE /\ ren' = RenOff /\ ix' = IxOff
    /\ UNCHANGED <<content, disk, away, syn, wanted, rows, cards, shown>>

\* Another vault is opened: the database is made anew from it; the index is not.
Switch ==
    /\ ~app /\ Spend("switch")
    /\ disk' = away /\ away' = disk /\ content' = Contents(away) /\ shown' = {}
    /\ UNCHANGED <<syn, app, wanted, ren, ix, rows, cards>>

\* Mutant: what an interrupted swap left behind is always dropped.
SweepAll(d) == [d EXCEPT !.old = [p \in Paths |-> None]]

\* The exporter's own sweep: an old directory goes back if its place is empty.
sweep_exports_orphans(d) ==
    [d EXCEPT !.old = [p \in Paths |-> None],
              !.out = [p \in Paths |-> IF d.out[p] = None THEN d.old[p] ELSE d.out[p]]]

\* The index is opened: another schema, or no file, starts it from nothing.
OpenIndex ==
    \/ UNCHANGED <<rows, cards, left>>
    \/ /\ Spend("schema")
       /\ rows' = [f \in Files |-> None] /\ cards' = [k \in Packs |-> 0]

Boot ==
    /\ ~app /\ app' = TRUE
    /\ OpenIndex
    /\ ix' = [IxOff EXCEPT !.pc = "idle"]
    /\ IF wanted THEN ren' = [RenOff EXCEPT !.pc = "idle"] /\ disk' = sweep_exports_orphans(disk)
                 ELSE UNCHANGED <<ren, disk>>
    /\ UNCHANGED <<content, away, syn, wanted, shown>>

----------------------------------------------------------------------------
(* board-export.                                                           *)

\* The hash of a render's record is that of one file's version.
needs_render(d, f) ==
    LET o == d.out[d.man[f].path] IN
    o = None \/ <<o.file, o.hash>> # <<f, d.man[f].hash>>

\* Another hash starts the wait anew; another path does not.
Observe(q, f) ==
    IF q # None /\ q.hash = disk.man[f].hash
    THEN [q EXCEPT !.path = Place(f)]
    ELSE [hash |-> disk.man[f].hash, path |-> Place(f), due |-> FALSE]

\* What the queue holds once the manifest was compared with every record.
Queued == [f \in Files |-> IF There(f) /\ needs_render(disk, f)
                           THEN Observe(ren.queue[f], f) ELSE None]

\* One cycle: compare, then take what is due.
PollExports ==
    /\ app /\ ren.pc = "idle" /\ ren.batch = RenOff.batch
    /\ LET due == {f \in Files : Queued[f] # None /\ Queued[f].due} IN
       ren' = [ren EXCEPT !.queue = [f \in Files |-> IF f \in due THEN None ELSE Queued[f]],
                          !.batch = [f \in Files |-> IF f \in due THEN Queued[f] ELSE None]]
    /\ UNCHANGED <<envVars, disk, ix, rows, cards, left, shown>>

\* The debounce, or the cool-down after a failure, is over.
Elapse(f) ==
    /\ ren.pc # "off" /\ ren.queue[f] # None /\ ~ren.queue[f].due
    /\ ren' = [ren EXCEPT !.queue[f].due = TRUE]
    /\ UNCHANGED <<envVars, disk, ix, rows, cards, left, shown>>

Job == ren.batch[ren.cur]

\* render_file: the session is minted if there is none, and get-file answers
\* with what the database has now, whatever the manifest had.
GetFile(f) ==
    /\ ren.pc = "idle" /\ ren.batch[f] # None /\ Live(f)
    /\ ren' = [ren EXCEPT !.pc = "shoot", !.cur = f, !.todo = BoardsOf[content[f]],
                          !.shots = << >>, !.cookie = IF @ = "none" THEN "good" ELSE @]
    /\ UNCHANGED <<envVars, disk, ix, rows, cards, left, shown>>

\* The exporter opens the file in its browser and renders one board of it.
Render(b) ==
    /\ ren.pc = "shoot" /\ b \in ren.todo /\ ren.cookie = "good"
    /\ Live(ren.cur) /\ b \in BoardsOf[content[ren.cur]]
    /\ ren' = [ren EXCEPT !.todo = @ \ {b},
                          !.shots = [x \in DOMAIN @ \cup {b} |->
                                       IF x = b THEN content[ren.cur] ELSE @[x]]]
    /\ UNCHANGED <<envVars, disk, ix, rows, cards, left, shown>>

\* One file of the batch is dealt with.
Done(f) == [ren EXCEPT !.pc = "idle", !.cur = None, !.todo = {}, !.shots = << >>, !.batch[f] = None]

\* A file that is gone, a board that is gone, a session that expired, or the
\* retries are used up: the session is dropped, and the file waits for its
\* turn again.
RenderFails(f) ==
    /\ ren.batch[f] # None /\ ren.pc \in {"idle", "shoot"}
    /\ (ren.pc = "idle" \/ ren.cur = f)
    /\ \/ Spend("fault")
       \/ /\ \/ ~Live(f) /\ (ren.pc = "idle" \/ ren.todo # {})
             \/ ren.todo # {} /\ ren.cookie = "stale"
             \/ Live(f) /\ ren.todo \ BoardsOf[content[f]] # {}
          /\ UNCHANGED left
    /\ ren' = [Done(f) EXCEPT !.cookie = "none",
                              !.queue[f] = [ren.batch[f] EXCEPT !.due = FALSE]]
    /\ UNCHANGED <<envVars, disk, ix, rows, cards, shown>>

Expire ==
    /\ ren.cookie = "good" /\ Spend("expire")
    /\ ren' = [ren EXCEPT !.cookie = "stale"]
    /\ UNCHANGED <<envVars, disk, ix, rows, cards, shown>>

\* Mutant: the record has the hash the manifest has by now.
HashNow == IF There(ren.cur) THEN disk.man[ren.cur].hash ELSE Job.hash

\* The record has the hash that armed the render, and it goes where the file
\* was then.
RenderedFrom == Job.hash

\* write_staging, then commit_dir_swap.
SwapExports ==
    LET p == Job.path IN
    \/ /\ ren.pc = "shoot" /\ ren.todo = {} /\ disk.out[p] # None
       /\ disk' = [disk EXCEPT !.old[p] = disk.out[p], !.out[p] = None]
       /\ ren' = [ren EXCEPT !.pc = "in"] /\ UNCHANGED shown
    \/ /\ ren.todo = {} /\ ren.pc \in {"shoot", "in"} /\ disk.out[p] = None
       /\ disk' = [disk EXCEPT !.out[p] = [file |-> ren.cur, hash |-> RenderedFrom,
                                           shots |-> ren.shots]]
       /\ ren' = [ren EXCEPT !.pc = "clean"] /\ shown' = shown \cup {p}
    \/ /\ ren.pc = "clean"
       /\ disk' = [disk EXCEPT !.old[p] = None]
       /\ ren' = Done(ren.cur)
       /\ UNCHANGED shown

CommitExports ==
    /\ ren.cur # None /\ SwapExports
    /\ UNCHANGED <<envVars, ix, rows, cards, left>>

\* set_renders_enabled: off stops the service where it waits; on is for the
\* next boot.
Toggle ==
    /\ app /\ Spend("toggle") /\ ren.pc \notin {"in", "clean"}
    /\ wanted' = ~wanted
    /\ ren' = IF wanted THEN RenOff ELSE ren
    /\ UNCHANGED <<content, away, syn, app, disk, ix, rows, cards, shown>>

----------------------------------------------------------------------------
(* vault-index.                                                            *)

needs_reindex(m, f) == rows[f] = None \/ rows[f].of # [file |-> f, ver |-> m[f].hash]

\* lock.json that cannot be read takes no package's row away.
PackageKeep == IF disk.bad THEN {k \in Packs : cards[k] > 0}
                           ELSE {k \in Packs : disk.lock[k] > 0}

poll_packages ==
    cards' = [k \in Packs |-> IF ~disk.bad /\ disk.lock[k] > 0 THEN disk.lock[k] ELSE cards[k]]

\* A file whose hash did not move is only told its path.
Rekeyed(m) == [f \in Files |-> IF m[f] # None /\ ~needs_reindex(m, f)
                               THEN [rows[f] EXCEPT !.path = m[f].path] ELSE rows[f]]

PollIndex ==
    /\ app /\ ix.pc = "idle"
    /\ poll_packages /\ rows' = Rekeyed(disk.man)
    /\ LET todo == {f \in Files : There(f) /\ needs_reindex(disk.man, f)}
           gone == {f \in Files : rows[f] # None /\ ~There(f)}
           lost == {k \in Packs : cards[k] > 0} \ PackageKeep IN
       ix' = IF todo \cup gone \cup lost = {} THEN ix
             ELSE [ix EXCEPT !.pc = "file", !.man = disk.man, !.keep = PackageKeep, !.todo = todo]
    /\ UNCHANGED <<envVars, disk, ren, left, shown>>

ReadTree(f) ==
    /\ ix.pc = "file" /\ f \in ix.todo
    /\ LET t == disk.tree[ix.man[f].path] IN
       ix' = IF t = None THEN [ix EXCEPT !.todo = @ \ {f}]
             ELSE [ix EXCEPT !.pc = "read", !.cur = f, !.todo = @ \ {f}, !.read = t]
    /\ UNCHANGED <<envVars, disk, ren, rows, cards, left, shown>>

\* A tree that is replaced while it is read may have been read before or
\* after, partly before and partly after, or not at all.
ReadAs ==
    LET p == ix.man[ix.cur].path
        now == disk.tree[p] IN
    IF now = ix.read THEN {now}
    ELSE {ix.read, [ix.read EXCEPT !.ver = 0], None} \cup {now}

\* Mutant: the hash the manifest had is recorded.
RecordManifest(r) == [file |-> ix.cur, ver |-> ix.man[ix.cur].hash]

\* What is recorded is the hash of what was read.
Recorded(r) == r

ReplaceFile ==
    /\ ix.pc = "read"
    /\ \E r \in ReadAs :
         rows' = IF r = None THEN rows
                 ELSE [rows EXCEPT ![ix.cur] = [path |-> ix.man[ix.cur].path,
                                                of |-> Recorded(r), docs |-> r]]
    /\ ix' = [ix EXCEPT !.pc = "file", !.cur = None, !.read = None]
    /\ UNCHANGED <<envVars, disk, ren, cards, left, shown>>

DropOthers ==
    /\ ix.pc = "file" /\ ix.todo = {}
    /\ rows' = [f \in Files |-> IF ix.man[f] = None THEN None ELSE rows[f]]
    /\ cards' = [k \in Packs |-> IF k \in ix.keep THEN cards[k] ELSE 0]
    /\ ix' = [IxOff EXCEPT !.pc = "idle"]
    /\ UNCHANGED <<envVars, disk, ren, left, shown>>

----------------------------------------------------------------------------
(* What the pages show: joins of the index, the manifest and the records   *)
(* of the renders, each read when a page asks.                             *)

extract_docs(t) == IF t.ver \in Versions THEN BoardsOf[t.ver] ELSE {}

all_boards ==
    {x \in Files \X Boards : rows[x[1]] # None /\ x[2] \in extract_docs(rows[x[1]].docs)}

load_stem_map(p) == IF disk.out[p] = None THEN {} ELSE DOMAIN disk.out[p].shots

\* Every file of the manifest is shown: by its boards, or by a card of its own.
list_boards ==
    {[file |-> x[1], board |-> x[2], path |-> Place(x[1]),
      thumb |-> x[2] \in load_stem_map(Place(x[1]))] : x \in {y \in all_boards : There(y[1])}}
    \cup {[file |-> f, board |-> None, path |-> Place(f), thumb |-> FALSE]
            : f \in {g \in Files : There(g) /\ \A b \in Boards : <<g, b>> \notin all_boards}}

\* A hit says where its file is by what the index has.
search == {[file |-> x[1], board |-> x[2], path |-> rows[x[1]].path] : x \in all_boards}

search_packages == {k \in Packs : cards[k] > 0}

\* What an index and renders made from nothing would give.
Thumbs == ren.pc # "off"
Fresh ==
    /\ \A f \in Files : There(f) =>
         LET B == BoardsOf[content[f]]
             p == Place(f) IN
         /\ HoldsAt(p, f)
         /\ {c \in list_boards : c.file = f} =
              {[file |-> f, board |-> b, path |-> p, thumb |-> b \in load_stem_map(p)] : b \in B}
              \cup (IF B = {} THEN {[file |-> f, board |-> None, path |-> p, thumb |-> FALSE]} ELSE {})
         /\ Thumbs => /\ disk.out[p] # None /\ disk.out[p].file = f
                      /\ disk.out[p].shots = [b \in B |-> content[f]]
    /\ search = {[file |-> x[1], board |-> x[2], path |-> Place(x[1])] :
                   x \in {y \in Files \X Boards : There(y[1]) /\ y[2] \in BoardsOf[content[y[1]]]}}
    /\ search_packages = {k \in Packs : disk.lock[k] > 0}
    /\ \A k \in Packs : cards[k] = disk.lock[k]

----------------------------------------------------------------------------
Daemon == \/ \E f \in Files : Record(f) \/ Import(f) \/ Rekey(f)
          \/ SwapTree \/ Repair
World == \/ \E f \in Files : Edit(f) \/ New(f) \/ DiskEdit(f) \/ Delete(f)
         \/ \E f \in Files, p \in Paths : MoveDir(f, p)
         \/ Relock \/ Crash \/ Switch \/ Toggle \/ Expire
Exporter == \/ PollExports \/ CommitExports
            \/ \E f \in Files : Elapse(f) \/ GetFile(f) \/ RenderFails(f)
            \/ \E b \in Boards : Render(b)
Index == PollIndex \/ ReplaceFile \/ DropOthers \/ \E f \in Files : ReadTree(f)

Next == World \/ Daemon \/ Boot \/ Exporter \/ Index

\* The daemon, both services and the timers go on while the app runs, and the
\* person starts it again and mends lock.json; nothing else has to happen.
Fairness ==
    /\ WF_vars(Boot) /\ WF_vars(SwapTree) /\ WF_vars(Repair)
    /\ \A f \in Files : WF_vars(Record(f)) /\ WF_vars(Import(f)) /\ WF_vars(Rekey(f))
    /\ WF_vars(Exporter)
    /\ \A f \in Files : WF_vars(Elapse(f))
    /\ WF_vars(Index)

Spec == Init /\ [][Next]_vars /\ Fairness

----------------------------------------------------------------------------
(* A place that had renders has some again by the time the exporter polls, *)
(* also when the app was killed between the two renames of the swap: the   *)
(* service never takes a person's renders away.                            *)
RendersKept ==
    ren.pc \in {"idle", "shoot"} => \A p \in shown : disk.out[p] # None

(* A picture is never older than the state it is filed under, although the *)
(* hash comes from the manifest and each board from the database, at its   *)
(* own time.                                                               *)
NeverBehind ==
    \A p \in Paths : disk.out[p] # None =>
        \A b \in DOMAIN disk.out[p].shots : disk.out[p].shots[b] >= disk.out[p].hash

(* Once nothing more happens, the home page, the search, the gallery and   *)
(* the renders are what an index and renders made from nothing would give: *)
(* whatever was read in the middle of a swap does not stick.               *)
AsRebuilt == <>[](app => Fresh)
=============================================================================
