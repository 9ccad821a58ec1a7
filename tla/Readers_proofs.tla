--------------------------- MODULE Readers_proofs ---------------------------
(***************************************************************************)
(* A picture is never older than the state it is filed under: NeverBehind  *)
(* of Readers, for every number of files, places, boards and versions.     *)
(*                                                                         *)
(* The hash of a render is taken from the manifest and the pictures come   *)
(* from the database.  That the one is never ahead of the other is the     *)
(* daemon's doing, so the invariant has a half about the daemon (Kept to   *)
(* InSwap) and a half about the exporter.                                  *)
(*                                                                         *)
(* At the end, what the other half of vault-index is about: the label of   *)
(* an update is true, Labelled of Contracts, for every library.            *)
(***************************************************************************)
EXTENDS Readers, Contracts, TLAPS

\* The part of TypeOK that is about the daemon and the exporter.
Sound ==
    /\ content \in [Files -> 0 .. Gone]
    /\ disk \in Disk /\ away \in Disk
    /\ syn \in Swap \cup {None}
    /\ app \in BOOLEAN
    /\ ren \in Exporting
    /\ (ren.cur # None) <=> (ren.pc \in {"shoot", "in", "clean"})
    /\ ren.cur # None => ren.batch[ren.cur] # None

HeldIn(d, p, f) == d.tree[p] # None /\ d.tree[p].file = f

\* A directory of a vault is known to its manifest, and there is one for a file.
Kept(d) == /\ \A f \in Files, p \in Paths : HeldIn(d, p, f) => d.man[f] # None
           /\ \A f \in Files : \A p, q \in Paths : HeldIn(d, p, f) /\ HeldIn(d, q, f) => p = q

\* Only a directory where the manifest has it is edited, and then it is later.
Later(d, f) == \A p \in Paths : HeldIn(d, p, f) =>
                 IF p = d.man[f].path THEN d.tree[p].ver >= d.man[f].hash
                                      ELSE d.tree[p].ver = d.man[f].hash

Unswapped(f) == syn = None \/ syn.file # f

\* An import does not take the database back.
Ahead == /\ \A f \in Files : Diverged(f) => content[f] <= disk.tree[Place(f)].ver
         /\ \A f \in Files : There(f) => disk.man[f].hash <= content[f]

\* While the daemon swaps a directory in, its file is nowhere else.
InSwap ==
    syn # None =>
      /\ app /\ There(syn.file) /\ Place(syn.file) = syn.path
      /\ disk.man[syn.file].hash = syn.ver
      /\ \A p \in Paths : HeldIn(disk, p, syn.file) <=> p = syn.path /\ syn.at = "out"
      /\ syn.at = "in" => disk.tree[syn.path] = None

Daemoned == /\ Kept(disk) /\ Kept(away)
            /\ \A f \in Files : Later(away, f) /\ (Unswapped(f) => Later(disk, f))
            /\ Ahead /\ InSwap

\* A render that waits, one under way and one that is filed.
NotYet(q, f) == q # None => q.hash <= content[f]
Waiting == \A f \in Files : NotYet(ren.queue[f], f) /\ NotYet(ren.batch[f], f)
Shooting == ren.cur # None => \A b \in DOMAIN ren.shots : ren.shots[b] >= Job.hash
Filed(o) == o # None => \A b \in DOMAIN o.shots : o.shots[b] >= o.hash
FiledIn(d) == \A p \in Paths : Filed(d.out[p]) /\ Filed(d.old[p])

Exported == /\ ~app => ren = RenOff
            /\ Waiting /\ Shooting /\ FiledIn(disk) /\ FiledIn(away)

IInv == Sound /\ Daemoned /\ Exported

----------------------------------------------------------------------------
LEMMA Numbers ==
    /\ MaxVer \in Nat /\ 2 \in Versions /\ 1 \in Versions
    /\ Versions = 1 .. MaxVer /\ Gone = MaxVer + 1
    /\ \A v \in Versions : v \in Nat /\ v >= 1 /\ v < Gone
<1> DEFINE m == MaxVer
<1>1. m \in Nat /\ m >= 2 /\ Versions = 1 .. m /\ Gone = m + 1
  BY EnoughAssumption, ContentAssumption DEF Gone
<1> HIDE DEF m
<1>2. \A v \in 1 .. m : v \in Nat /\ v >= 1 /\ v < m + 1
  BY <1>1
<1>3. 1 \in 1 .. m /\ 2 \in 1 .. m
  BY <1>1
<1> QED
  BY <1>1, <1>2, <1>3 DEF m

LEMMA NoShots == << >> \in Shots /\ DOMAIN << >> = {}
<1>1. << >> \in [{} -> Versions]
  OBVIOUS
<1>2. DOMAIN << >> = {}
  OBVIOUS
<1> QED
  BY <1>1, <1>2 DEF Shots

\* None is no record of the model.
LEMMA Nothing ==
    /\ None \notin Tree /\ None \notin Synced /\ None \notin Rendered
    /\ None \notin Pending /\ None \notin Swap /\ None \notin Files
BY NothingAssumption, NoneAssumption

\* What a vault holds, a part at a time.
LEMMA Parts ==
    ASSUME NEW d \in Disk
    PROVE  /\ d.tree \in [Paths -> Tree \cup {None}] /\ d.man \in [Files -> Synced \cup {None}]
           /\ d.out \in [Paths -> Rendered \cup {None}] /\ d.old \in [Paths -> Rendered \cup {None}]
           /\ d.lock \in [Packs -> 0 .. 2] /\ d.bad \in BOOLEAN
           /\ \A p \in Paths : d.tree[p] # None =>
                /\ d.tree[p] \in Tree /\ d.tree[p].file \in Files
                /\ d.tree[p].ver \in Nat
           /\ \A f \in Files : d.man[f] # None =>
                /\ d.man[f] \in Synced /\ d.man[f].path \in Paths
                /\ d.man[f].hash \in Versions /\ d.man[f].hash \in Nat
<1>1. /\ d.tree \in [Paths -> Tree \cup {None}] /\ d.man \in [Files -> Synced \cup {None}]
      /\ d.out \in [Paths -> Rendered \cup {None}] /\ d.old \in [Paths -> Rendered \cup {None}]
      /\ d.lock \in [Packs -> 0 .. 2] /\ d.bad \in BOOLEAN
  BY DEF Disk
<1>2. \A t \in Tree : t.file \in Files /\ t.ver \in Nat
  BY Numbers DEF Tree
<1>3. \A s \in Synced : s.path \in Paths /\ s.hash \in Versions /\ s.hash \in Nat
  BY Numbers DEF Synced
<1> QED
  BY <1>1, <1>2, <1>3

LEMMA InitGood == Init => IInv
<1> SUFFICES ASSUME Init PROVE IInv
  OBVIOUS
<1>1. PICK f \in Files, p \in Paths : disk = Vault(f, p, 2) /\ away = Vault(f, p, 1)
  BY EnoughAssumption DEF Init
<1>2. Empty \in Disk
  BY DEF Empty, Disk, NoMan
<1>3. ASSUME NEW v \in Versions
      PROVE  LET d == Vault(f, p, v)
                 s == [path |-> p, hash |-> v]
                 t == [file |-> f, ver |-> v] IN
             /\ d \in Disk /\ t \in Tree /\ s \in Synced
             /\ d.tree = [q \in Paths |-> IF q = p THEN t ELSE None]
             /\ d.man = [g \in Files |-> IF g = f THEN s ELSE None]
             /\ d.out = [q \in Paths |-> None] /\ d.old = [q \in Paths |-> None]
  <2> DEFINE s == [path |-> p, hash |-> v]
             t == [file |-> f, ver |-> v]
             l == [k \in Packs |-> 1]
             e == [Empty EXCEPT !.tree[p] = t, !.man[f] = s, !.lock = l]
  <2>1. s \in Synced /\ t \in Tree /\ l \in [Packs -> 0 .. 2]
    BY DEF Synced, Tree
  <2>2. Empty.tree = [q \in Paths |-> None] /\ Empty.man = [g \in Files |-> None]
        /\ Empty.out = [q \in Paths |-> None] /\ Empty.old = [q \in Paths |-> None]
    BY DEF Empty, NoMan
  <2> HIDE DEF s, t, l
  <2>3. e \in Disk
    BY <1>2, <2>1 DEF Disk
  <2>4. /\ e.tree = [q \in Paths |-> IF q = p THEN t ELSE None]
        /\ e.man = [g \in Files |-> IF g = f THEN s ELSE None]
        /\ e.out = [q \in Paths |-> None] /\ e.old = [q \in Paths |-> None]
    BY <1>2, <2>2 DEF Disk
  <2>5. Vault(f, p, v) = e
    BY DEF Vault, e, t, s, l
  <2> QED
    BY <2>1, <2>3, <2>4, <2>5 DEF s, t
<1>4. ASSUME NEW d, NEW v \in Versions, d = Vault(f, p, v)
      PROVE  /\ d \in Disk /\ Kept(d) /\ FiledIn(d)
             /\ \A g \in Files : Later(d, g)
  <2> DEFINE s == [path |-> p, hash |-> v]
             t == [file |-> f, ver |-> v]
  <2>1. /\ t \in Tree /\ t # None /\ t.file = f /\ t.ver = v
        /\ s \in Synced /\ s # None /\ s.path = p /\ s.hash = v
    BY <1>3, Nothing
  <2>2. /\ d \in Disk
        /\ d.tree = [q \in Paths |-> IF q = p THEN t ELSE None]
        /\ d.man = [g \in Files |-> IF g = f THEN s ELSE None]
        /\ d.out = [q \in Paths |-> None] /\ d.old = [q \in Paths |-> None]
    BY <1>3, <1>4
  <2> HIDE DEF s, t
  <2>3. \A g \in Files, q \in Paths : HeldIn(d, q, g) <=> (g = f /\ q = p)
    BY <2>1, <2>2 DEF HeldIn
  <2>4. Kept(d)
    BY <2>1, <2>2, <2>3 DEF Kept
  <2>5. \A g \in Files : Later(d, g)
    BY <2>1, <2>2, <2>3, Numbers DEF Later
  <2>6. FiledIn(d)
    BY <2>2 DEF FiledIn, Filed
  <2> QED
    BY <2>2, <2>4, <2>5, <2>6
<1>5. /\ disk \in Disk /\ Kept(disk) /\ FiledIn(disk) /\ \A g \in Files : Later(disk, g)
      /\ away \in Disk /\ Kept(away) /\ FiledIn(away) /\ \A g \in Files : Later(away, g)
  BY <1>1, <1>4, Numbers
<1>6. content = [g \in Files |-> IF g = f THEN 2 ELSE 0]
  <2>1. disk.man = [g \in Files |-> IF g = f THEN [path |-> p, hash |-> 2] ELSE None]
        /\ [path |-> p, hash |-> 2] \in Synced
    BY <1>1, <1>3, Numbers
  <2> QED
    BY <2>1, Nothing DEF Init, Contents
<1>7. content \in [Files -> 0 .. Gone]
  BY <1>6, Numbers
<1>8. Ahead
  <2>1. /\ disk.man = [g \in Files |-> IF g = f THEN [path |-> p, hash |-> 2] ELSE None]
        /\ disk.tree = [q \in Paths |-> IF q = p THEN [file |-> f, ver |-> 2] ELSE None]
    BY <1>1, <1>3, Numbers
  <2> QED
    BY <1>6, <2>1 DEF Ahead, Diverged, InStep, There, Place, HoldsAt
<1>9. /\ RenOff \in Exporting /\ RenOff.pc = "off" /\ RenOff.cur = None
      /\ RenOff.queue = [g \in Files |-> None] /\ RenOff.batch = [g \in Files |-> None]
  BY NoShots DEF RenOff, Exporting
<1>10. Sound
  <2>1. ren = RenOff /\ syn = None /\ app = FALSE
    BY DEF Init
  <2> QED
    BY <2>1, <1>5, <1>7, <1>9 DEF Sound
<1>11. Daemoned
  BY <1>5, <1>8 DEF Init, Daemoned, InSwap
<1>12. Exported
  BY <1>5, <1>9 DEF Init, Exported, Waiting, Shooting, NotYet
<1> QED
  BY <1>10, <1>11, <1>12 DEF IInv

----------------------------------------------------------------------------
(* The daemon and the world.  They leave the renders alone, and the        *)
(* database only goes forward while the app runs.                          *)

\* What the exporter holds survives a step that lets the database go forward.
LEMMA Aside ==
    ASSUME IInv, Sound', ren' = ren, app' = app, away' = away,
           disk'.out = disk.out, disk'.old = disk.old,
           \A f \in Files : content'[f] >= content[f]
    PROVE  Exported'
<1>1. Waiting'
  <2>1. ASSUME NEW q, NEW f \in Files, q = None \/ q \in Pending, NotYet(q, f)
        PROVE  q # None => q.hash <= content'[f]
    <3>1. content[f] \in Nat /\ content'[f] \in Nat
      BY Numbers DEF IInv, Sound
    <3>2. q # None => q.hash \in Nat
      BY <2>1, Numbers DEF Pending
    <3> QED
      BY <2>1, <3>1, <3>2 DEF NotYet
  <2>2. \A f \in Files : /\ ren.queue[f] = None \/ ren.queue[f] \in Pending
                         /\ ren.batch[f] = None \/ ren.batch[f] \in Pending
    BY DEF IInv, Sound, Exporting
  <2> QED
    BY <2>1, <2>2 DEF IInv, Exported, Waiting, NotYet
<1>2. FiledIn(disk)' /\ FiledIn(away)'
  BY DEF IInv, Exported, FiledIn, Filed
<1> QED
  BY <1>1, <1>2 DEF IInv, Exported, Shooting, Job

\* The parts of Sound that a step of the daemon may change.
LEMMA StillSound ==
    ASSUME IInv, ren' = ren, content' \in [Files -> 0 .. Gone], disk' \in Disk, away' = away,
           syn' \in Swap \cup {None}, app' = app
    PROVE  Sound'
BY DEF IInv, Sound

LEMMA EditGood == ASSUME IInv, NEW f \in Files, Edit(f) PROVE IInv'
<1>1. /\ content' = [content EXCEPT ![f] = @ + 1] /\ content[f] \in Nat
      /\ content'[f] = content[f] + 1 /\ content'[f] \in 0 .. Gone /\ ~Diverged(f)
      /\ \A g \in Files : content[g] \in Nat
  BY Numbers DEF Edit, Live, IInv, Sound
<1>2. UNCHANGED <<disk, away, syn, app, ren>>
  BY DEF Edit, readers
<1>3. Sound'
  <2>1. content' \in [Files -> 0 .. Gone]
    BY <1>1 DEF IInv, Sound
  <2> QED
    BY <1>2, <2>1, StillSound DEF IInv, Sound
<1>4. Ahead'
  <2>1. ASSUME NEW g \in Files, There(g) PROVE disk.man[g].hash <= content'[g]
    <3>1. disk.man[g].hash \in Nat /\ disk.man[g].hash <= content[g]
      BY <2>1, Parts DEF There, IInv, Sound, Daemoned, Ahead
    <3> QED
      BY <3>1, <1>1 DEF IInv, Sound
  <2>2. \A g \in Files : g # f => content'[g] = content[g]
    BY <1>1 DEF IInv, Sound
  <2>3. \A g \in Files : Diverged(g) => content'[g] <= disk.tree[Place(g)].ver
    BY <1>1, <2>2 DEF IInv, Daemoned, Ahead
  <2> QED
    BY <1>2, <2>1, <2>3 DEF Ahead, Diverged, There, Place, HoldsAt, InStep
<1>5. Daemoned'
  BY <1>2, <1>4 DEF IInv, Daemoned, InSwap, Kept, Later, Unswapped, HeldIn, There, Place
<1>6. \A g \in Files : content'[g] >= content[g]
  BY <1>1 DEF IInv, Sound
<1> QED
  BY <1>2, <1>3, <1>5, <1>6, Aside DEF IInv

LEMMA NewGood == ASSUME IInv, NEW f \in Files, New(f) PROVE IInv'
<1>1. /\ content' = [content EXCEPT ![f] = 1] /\ content[f] = 0
      /\ content'[f] = 1 /\ 1 \in 0 .. Gone
      /\ \A g \in Files : content[g] \in Nat
  BY Numbers DEF New, IInv, Sound
<1>2. UNCHANGED <<disk, away, syn, app, ren>>
  BY DEF New, readers
<1>3. Sound'
  <2>1. content' \in [Files -> 0 .. Gone]
    BY <1>1 DEF IInv, Sound
  <2> QED
    BY <1>2, <2>1, StillSound DEF IInv, Sound
<1>4. Ahead'
  <2>1. \A g \in Files : There(g) => disk.man[g].hash \in Nat /\ disk.man[g].hash >= 1
    BY Parts, Numbers DEF There, IInv, Sound
  <2>2. ~There(f)
    BY <1>1, <2>1 DEF IInv, Daemoned, Ahead
  <2>3. \A g \in Files : g # f => content'[g] = content[g]
    BY <1>1 DEF IInv, Sound
  <2> QED
    BY <1>2, <2>2, <2>3 DEF Ahead, IInv, Daemoned, Diverged, There, Place, HoldsAt, InStep
<1>5. Daemoned'
  BY <1>2, <1>4 DEF IInv, Daemoned, InSwap, Kept, Later, Unswapped, HeldIn, There, Place
<1>6. \A g \in Files : content'[g] >= content[g]
  BY <1>1 DEF IInv, Sound
<1> QED
  BY <1>2, <1>3, <1>5, <1>6, Aside DEF IInv

\* One file's record and directories change; what is known of the others stays.
LEMMA OneFile ==
    ASSUME IInv, disk' \in Disk, NEW f \in Files,
           \A g \in Files : g # f => /\ disk'.man[g] = disk.man[g]
                                     /\ \A p \in Paths : HeldIn(disk', p, g) <=> HeldIn(disk, p, g)
                                     /\ content'[g] = content[g]
                                     /\ (syn # None => syn.file # g) /\ (syn' # None => syn'.file # g),
           \A p \in Paths : HeldIn(disk', p, f) \/ disk'.tree[p] = disk.tree[p] \/ disk'.tree[p] = None
    PROVE  \A g \in Files : g # f =>
             /\ \A p \in Paths : HeldIn(disk', p, g) => disk'.man[g] # None
             /\ \A p, q \in Paths : HeldIn(disk', p, g) /\ HeldIn(disk', q, g) => p = q
             /\ Later(disk', g)
             /\ Diverged(g)' => content'[g] <= disk'.tree[Place(g)'].ver
             /\ There(g)' => disk'.man[g].hash <= content'[g]
<1> TAKE g \in Files
<1> HAVE g # f
<1>1. \A p \in Paths : HeldIn(disk', p, g) => disk'.tree[p] = disk.tree[p] /\ HeldIn(disk, p, g)
  BY DEF HeldIn
<1>2. Unswapped(g)
  BY DEF Unswapped
<1>3. \A p \in Paths : HeldIn(disk', p, g) => disk'.man[g] # None
  BY <1>1 DEF IInv, Daemoned, Kept
<1>4. \A p, q \in Paths : HeldIn(disk', p, g) /\ HeldIn(disk', q, g) => p = q
  BY <1>1 DEF IInv, Daemoned, Kept
<1>5. Later(disk', g)
  <2>1. Later(disk, g)
    BY <1>2 DEF IInv, Daemoned
  <2> QED
    BY <1>1, <2>1 DEF Later
<1>6. There(g)' => disk'.man[g].hash <= content'[g]
  BY DEF IInv, Daemoned, Ahead, There
<1>7. ASSUME Diverged(g)' PROVE content'[g] <= disk'.tree[Place(g)'].ver
  <2>1. There(g) /\ Place(g)' = Place(g) /\ Place(g) \in Paths
    BY <1>7, Parts DEF Diverged, There, Place, IInv, Sound
  <2>2. disk'.tree[Place(g)] = disk.tree[Place(g)] /\ HoldsAt(Place(g), g)
    BY <1>1, <1>7, <2>1 DEF Diverged, HoldsAt, HeldIn
  <2>3. Diverged(g)
    BY <1>2, <1>7, <2>1, <2>2 DEF Diverged, InStep, There, Place, Unswapped
  <2> QED
    BY <2>1, <2>2, <2>3 DEF IInv, Daemoned, Ahead
<1> QED
  BY <1>3, <1>4, <1>5, <1>6, <1>7

\* So it is enough to look at that file.
LEMMA Enough ==
    ASSUME IInv, disk' \in Disk, away' = away, NEW f \in Files,
           \A g \in Files : g # f => /\ disk'.man[g] = disk.man[g]
                                     /\ \A p \in Paths : HeldIn(disk', p, g) <=> HeldIn(disk, p, g)
                                     /\ content'[g] = content[g]
                                     /\ (syn # None => syn.file # g) /\ (syn' # None => syn'.file # g),
           \A p \in Paths : HeldIn(disk', p, f) \/ disk'.tree[p] = disk.tree[p] \/ disk'.tree[p] = None,
           \A p \in Paths : HeldIn(disk', p, f) => disk'.man[f] # None,
           \A p, q \in Paths : HeldIn(disk', p, f) /\ HeldIn(disk', q, f) => p = q,
           Unswapped(f)' => Later(disk', f),
           Diverged(f)' => content'[f] <= disk'.tree[Place(f)'].ver,
           There(f)' => disk'.man[f].hash <= content'[f],
           InSwap'
    PROVE  Daemoned'
<1>1. \A g \in Files : g # f =>
             /\ \A p \in Paths : HeldIn(disk', p, g) => disk'.man[g] # None
             /\ \A p, q \in Paths : HeldIn(disk', p, g) /\ HeldIn(disk', q, g) => p = q
             /\ Later(disk', g)
             /\ Diverged(g)' => content'[g] <= disk'.tree[Place(g)'].ver
             /\ There(g)' => disk'.man[g].hash <= content'[g]
  BY OneFile
<1>2. Kept(disk')
  BY <1>1 DEF Kept
<1>3. \A g \in Files : Unswapped(g)' => Later(disk', g)
  BY <1>1
<1>4. Ahead'
  <2>1. \A g \in Files : Diverged(g)' => content'[g] <= disk'.tree[Place(g)'].ver
    BY <1>1
  <2>2. \A g \in Files : There(g)' => disk'.man[g].hash <= content'[g]
    BY <1>1
  <2> QED
    BY <2>1, <2>2 DEF Ahead
<1>5. Kept(away') /\ \A g \in Files : Later(away', g)
  BY DEF IInv, Daemoned
<1> QED
  BY <1>2, <1>3, <1>4, <1>5 DEF Daemoned

LEMMA RecordGood == ASSUME IInv, NEW f \in Files, Record(f) PROVE IInv'
<1>1. PICK p \in IF There(f) THEN {Place(f)} ELSE Free :
         /\ disk' = [disk EXCEPT !.man[f] = [path |-> p, hash |-> content[f]]]
         /\ syn' = [file |-> f, ver |-> content[f], path |-> p,
                    at |-> IF disk.tree[p] = None THEN "in" ELSE "out"]
  BY DEF Record
<1> DEFINE s == [path |-> p, hash |-> content[f]]
<1>2. /\ app /\ syn = None /\ content[f] \in Versions
      /\ IF There(f) THEN InStep(f) ELSE p \in Free
      /\ UNCHANGED <<content, away, app, ren>>
  BY <1>1 DEF Record, Live, readers
<1>3. p \in Paths
  BY <1>1, Parts DEF There, Place, Free, IInv, Sound
<1>4. s \in Synced /\ s # None /\ s.path = p /\ s.hash = content[f]
  BY <1>2, <1>3, Nothing DEF Synced
<1>5. syn' \in Swap /\ syn' # None
  BY <1>1, <1>2, <1>3, Nothing DEF Swap
<1> HIDE DEF s
<1>6. /\ disk' \in Disk /\ disk'.tree = disk.tree /\ disk'.out = disk.out /\ disk'.old = disk.old
      /\ disk'.man = [disk.man EXCEPT ![f] = s]
  BY <1>1, <1>4 DEF Disk, IInv, Sound, s
<1>7. disk'.man[f] = s /\ \A g \in Files : g # f => disk'.man[g] = disk.man[g]
  BY <1>6, Parts DEF IInv, Sound
<1>8. \A q \in Paths : HeldIn(disk, q, f) <=> q = p /\ disk.tree[p] # None
  <2>1. CASE There(f)
    <3>1. HeldIn(disk, p, f)
      BY <2>1, <1>1, <1>2, <1>3, Parts, Nothing DEF InStep, HeldIn, There, Place, Tree, IInv, Sound
    <3> QED
      BY <3>1, <1>3 DEF IInv, Daemoned, Kept, HeldIn
  <2>2. CASE ~There(f)
    BY <2>2, <1>2 DEF There, IInv, Daemoned, Kept, Free
  <2> QED
    BY <2>1, <2>2
<1>9. InSwap'
  BY <1>1, <1>2, <1>4, <1>6, <1>7, <1>8 DEF InSwap, There, Place, HeldIn
<1>10. Sound'
  BY <1>2, <1>5, <1>6, StillSound DEF IInv, Sound
<1>11. Daemoned'
  <2>1. ~Unswapped(f)' /\ ~Diverged(f)'
    BY <1>1, <1>5 DEF Unswapped, Diverged
  <2>2. There(f)' => disk'.man[f].hash <= content'[f]
    BY <1>2, <1>4, <1>7, Numbers
  <2>3. \A q, r \in Paths : HeldIn(disk', q, f) /\ HeldIn(disk', r, f) => q = r
    BY <1>6, <1>8 DEF HeldIn
  <2> QED
    BY <2>1, <2>2, <2>3, <1>1, <1>2, <1>4, <1>6, <1>7, <1>9, Enough DEF HeldIn
<1>12. Exported'
  BY <1>2, <1>6, <1>10, Aside, Numbers DEF IInv, Sound
<1> QED
  BY <1>10, <1>11, <1>12 DEF IInv

LEMMA SwapTreeGood == ASSUME IInv, SwapTree PROVE IInv'
<1>1. /\ syn \in Swap /\ syn # None /\ app /\ UNCHANGED <<content, away, app, ren>>
  BY DEF SwapTree, readers, IInv, Sound
<1>swap. PICK f \in Files, p \in Paths, v \in Versions : syn.file = f /\ syn.path = p /\ syn.ver = v
  BY <1>1 DEF Swap
<1> DEFINE t == [file |-> f, ver |-> v]
<1>2. /\ syn.file = f /\ syn.path = p /\ syn.ver = v /\ v \in Nat
      /\ t \in Tree /\ t # None /\ t.file = f /\ t.ver = v
  BY <1>swap, Numbers, Nothing DEF Tree
<1>3. /\ There(f) /\ Place(f) = p /\ disk.man[f].hash = v
      /\ \A q \in Paths : HeldIn(disk, q, f) <=> q = p /\ syn.at = "out"
      /\ syn.at = "in" => disk.tree[p] = None
  BY <1>1, <1>2 DEF IInv, Daemoned, InSwap
<1>4. content'[f] = content[f] /\ disk.man[f].hash <= content[f]
  BY <1>1, <1>2, <1>3 DEF IInv, Daemoned, Ahead
<1>5. \A g \in Files : content'[g] >= content[g]
  BY <1>1, Numbers DEF IInv, Sound
<1> HIDE DEF t
<1>6. CASE syn.at = "out"
  <2>1. /\ syn' = [syn EXCEPT !.at = "in"] /\ disk' = [disk EXCEPT !.tree[p] = None]
    BY <1>2, <1>6 DEF SwapTree
  <2>2. /\ syn' \in Swap /\ syn' # None /\ syn'.file = f /\ syn'.path = p /\ syn'.ver = v
        /\ syn'.at = "in"
    BY <2>1, <1>1, <1>2, Nothing DEF Swap
  <2>3. /\ disk' \in Disk /\ disk'.man = disk.man /\ disk'.out = disk.out /\ disk'.old = disk.old
        /\ disk'.tree = [disk.tree EXCEPT ![p] = None]
    BY <2>1 DEF Disk, IInv, Sound
  <2>4. disk'.tree[p] = None /\ \A q \in Paths : q # p => disk'.tree[q] = disk.tree[q]
    BY <2>3, <1>2, Parts DEF IInv, Sound
  <2>5. \A q \in Paths : ~HeldIn(disk', q, f)
    BY <2>4, <1>3 DEF HeldIn
  <2>6. \A g \in Files : g # f => \A q \in Paths : HeldIn(disk', q, g) <=> HeldIn(disk, q, g)
    BY <2>4, <1>2, <1>3, <1>6 DEF HeldIn
  <2>7. InSwap'
    BY <1>1, <1>3, <2>2, <2>3, <2>4, <2>5 DEF InSwap, There, Place
  <2>8. ~Unswapped(f)' /\ ~Diverged(f)' /\ (There(f)' => disk'.man[f].hash <= content'[f])
    BY <1>4, <2>2, <2>3 DEF Unswapped, Diverged
  <2>9. Sound'
    BY <1>1, <2>2, <2>3, StillSound DEF IInv, Sound
  <2>10. Exported'
    BY <1>1, <1>5, <2>3, <2>9, Aside
  <2>11. Daemoned'
    BY <1>1, <1>2, <2>2, <2>3, <2>4, <2>5, <2>6, <2>7, <2>8, Enough
  <2> QED
    BY <2>9, <2>10, <2>11 DEF IInv
<1>7. CASE syn.at = "in"
  <2>1. syn' = None /\ disk' = [disk EXCEPT !.tree[p] = t]
    BY <1>2, <1>7 DEF SwapTree, t
  <2>2. /\ disk' \in Disk /\ disk'.man = disk.man /\ disk'.out = disk.out /\ disk'.old = disk.old
        /\ disk'.tree = [disk.tree EXCEPT ![p] = t]
    BY <2>1, <1>2 DEF Disk, IInv, Sound
  <2>3. disk'.tree[p] = t /\ \A q \in Paths : q # p => disk'.tree[q] = disk.tree[q]
    BY <2>2, <1>2, Parts DEF IInv, Sound
  <2>4. \A q \in Paths : HeldIn(disk', q, f) <=> q = p
    BY <2>3, <1>2, <1>3, <1>7 DEF HeldIn
  <2>5. \A g \in Files : g # f => \A q \in Paths : HeldIn(disk', q, g) <=> HeldIn(disk, q, g)
    BY <2>3, <1>2, <1>3, <1>7 DEF HeldIn
  <2>6. There(f)' /\ Place(f)' = p /\ InStep(f)'
    BY <1>2, <1>3, <2>2, <2>3 DEF There, Place, InStep, t
  <2>7. Later(disk', f)
    BY <1>2, <1>3, <2>2, <2>3, <2>4 DEF Later, Place
  <2>8. InSwap' /\ ~Diverged(f)' /\ (There(f)' => disk'.man[f].hash <= content'[f])
    BY <1>4, <2>1, <2>2, <2>6 DEF InSwap, Diverged
  <2>9. Sound'
    BY <1>1, <2>1, <2>2, StillSound DEF IInv, Sound
  <2>10. Exported'
    BY <1>1, <1>5, <2>2, <2>9, Aside
  <2>11. Daemoned'
    BY <1>1, <1>2, <1>3, <2>1, <2>2, <2>3, <2>4, <2>5, <2>6, <2>7, <2>8, Enough DEF There
  <2> QED
    BY <2>9, <2>10, <2>11 DEF IInv
<1> QED
  BY <1>1, <1>6, <1>7 DEF Swap

LEMMA DiskEditGood == ASSUME IInv, NEW f \in Files, DiskEdit(f) PROVE IInv'
<1> DEFINE p == Place(f)
           v == disk.man[f].hash
           t == [file |-> f, ver |-> v + 1]
<1>1. /\ There(f) /\ disk.tree[p] = [file |-> f, ver |-> v] /\ syn = None /\ content[f] = v
      /\ v < MaxVer /\ disk' = [disk EXCEPT !.tree[Place(f)].ver = @ + 1]
      /\ UNCHANGED <<content, away, syn, app, ren>>
  BY DEF DiskEdit, InStep, readers, envVars
<1>2. p \in Paths /\ v \in Versions /\ v \in Nat /\ v + 1 \in Versions
  BY <1>1, Parts, Numbers DEF There, Place, IInv, Sound
<1>3. /\ t \in Tree /\ t # None /\ t.file = f /\ t.ver = v + 1
      /\ t = [disk.tree[p] EXCEPT !.ver = @ + 1] /\ disk.tree[p] # None /\ disk.tree[p].file = f
  BY <1>1, <1>2, Nothing DEF Tree
<1>4. disk' = [disk EXCEPT !.tree[p] = t]
  BY <1>1, <1>3
<1>place. disk.man[f].path = p
  BY DEF Place
<1> HIDE DEF t, p, v
<1>5. /\ disk' \in Disk /\ disk'.man = disk.man /\ disk'.out = disk.out /\ disk'.old = disk.old
      /\ disk'.tree = [disk.tree EXCEPT ![p] = t]
  BY <1>2, <1>3, <1>4 DEF Disk, IInv, Sound
<1>6. disk'.tree[p] = t /\ \A q \in Paths : q # p => disk'.tree[q] = disk.tree[q]
  BY <1>5, <1>2, Parts DEF IInv, Sound
<1>7. \A g \in Files, q \in Paths : HeldIn(disk', q, g) <=> HeldIn(disk, q, g)
  BY <1>2, <1>3, <1>6 DEF HeldIn
<1>8. \A q \in Paths : HeldIn(disk, q, f) => q = p
  BY <1>2, <1>3 DEF HeldIn, IInv, Daemoned, Kept
<1>9. Later(disk', f)
  <2>1. disk'.man[f].path = p /\ disk'.man[f].hash = v
    BY <1>place, <1>5 DEF v
  <2>2. disk'.tree[p].ver >= v /\ \A q \in Paths : HeldIn(disk', q, f) => q = p
    BY <1>2, <1>3, <1>6, <1>7, <1>8
  <2> QED
    BY <2>1, <2>2 DEF Later
<1>10. content'[f] <= disk'.tree[Place(f)'].ver /\ disk'.man[f].hash <= content'[f]
  <2>1. Place(f)' = p /\ disk'.man[f].hash = v
    BY <1>5 DEF Place, p, v
  <2>2. content'[f] = v /\ v \in Nat /\ disk'.tree[p].ver = v + 1
    BY <1>1, <1>2, <1>3, <1>6 DEF v
  <2> QED
    BY <2>1, <2>2
<1>11. InSwap' /\ Unswapped(f)
  BY <1>1 DEF InSwap, Unswapped
<1>12. Sound'
  BY <1>1, <1>5, StillSound DEF IInv, Sound
<1>13. Exported'
  <2>1. \A g \in Files : content'[g] >= content[g]
    BY <1>1, Numbers DEF IInv, Sound
  <2> QED
    BY <1>1, <1>5, <1>12, <2>1, Aside
<1>14. Daemoned'
  BY <1>1, <1>2, <1>3, <1>5, <1>6, <1>7, <1>8, <1>9, <1>10, <1>11, Enough DEF HeldIn, There
<1> QED
  BY <1>12, <1>13, <1>14 DEF IInv

LEMMA ImportGood == ASSUME IInv, NEW f \in Files, Import(f) PROVE IInv'
<1> DEFINE p == Place(f)
           v == disk.tree[p].ver
           h == disk.man[f].hash
           s == [disk.man[f] EXCEPT !.hash = v]
<1>1. /\ There(f) /\ HoldsAt(p, f) /\ Diverged(f) /\ syn = None
      /\ content' = [content EXCEPT ![f] = v] /\ disk' = [disk EXCEPT !.man[f].hash = v]
      /\ UNCHANGED <<away, syn, app, ren>>
  BY DEF Import, Diverged, readers
<1>2. p \in Paths /\ disk.man[f] \in Synced /\ disk.man[f].path = p /\ disk.tree[p] \in Tree
      /\ h \in Versions /\ h \in Nat /\ h >= 1
  BY <1>1, Parts, Numbers DEF There, Place, HoldsAt, IInv, Sound
<1>3. v >= h /\ content[f] <= v /\ content[f] \in Nat
  BY <1>1, <1>2, Numbers DEF IInv, Sound, Daemoned, Later, Unswapped, Ahead, HoldsAt, HeldIn, Place
<1>4. v \in Versions /\ v \in Nat /\ v \in 0 .. Gone
  BY <1>2, <1>3, Numbers DEF Tree
<1>5. s \in Synced /\ s # None /\ s.path = p /\ s.hash = v
  BY <1>2, <1>4, Nothing DEF Synced
<1>6. disk' = [disk EXCEPT !.man[f] = s]
  BY <1>1
<1> HIDE DEF s
<1>7. /\ disk' \in Disk /\ disk'.tree = disk.tree /\ disk'.out = disk.out /\ disk'.old = disk.old
      /\ disk'.man = [disk.man EXCEPT ![f] = s]
  BY <1>5, <1>6 DEF Disk, IInv, Sound
<1>8. disk'.man[f] = s /\ \A g \in Files : g # f => disk'.man[g] = disk.man[g]
  BY <1>7, Parts DEF IInv, Sound
<1>9. /\ content' \in [Files -> 0 .. Gone] /\ content'[f] = v
      /\ \A g \in Files : g # f => content'[g] = content[g]
  BY <1>1, <1>4 DEF IInv, Sound
<1>10. \A q \in Paths : HeldIn(disk, q, f) <=> q = p
  BY <1>1, <1>2 DEF HeldIn, HoldsAt, IInv, Daemoned, Kept
<1>11. Place(f)' = p /\ disk'.man[f].hash = v /\ disk'.tree[p].ver = v
  BY <1>5, <1>7, <1>8 DEF Place
<1>12. Sound'
  BY <1>1, <1>7, <1>9, StillSound DEF IInv, Sound
<1>13. Exported'
  <2>1. \A g \in Files : content'[g] >= content[g]
    BY <1>3, <1>4, <1>9, Numbers DEF IInv, Sound
  <2> QED
    BY <1>1, <1>7, <1>12, <2>1, Aside
<1> HIDE DEF p, v, h
<1>14. Later(disk', f) /\ content'[f] <= disk'.tree[Place(f)'].ver /\ disk'.man[f].hash <= content'[f]
  <2>1. disk'.man[f].path = p
    BY <1>11 DEF Place
  <2>2. \A q \in Paths : HeldIn(disk', q, f) => q = p
    BY <1>7, <1>10 DEF HeldIn
  <2> QED
    BY <1>4, <1>9, <1>11, <2>1, <2>2 DEF Later
<1>15. Daemoned'
  <2>1. \A q, r \in Paths : HeldIn(disk', q, f) /\ HeldIn(disk', r, f) => q = r
    BY <1>7, <1>10 DEF HeldIn
  <2>2. InSwap' /\ Unswapped(f)
    BY <1>1 DEF InSwap, Unswapped
  <2> QED
    BY <1>1, <1>5, <1>7, <1>8, <1>9, <1>14, <2>1, <2>2, Enough DEF HeldIn
<1> QED
  BY <1>12, <1>13, <1>15 DEF IInv

LEMMA MoveDirGood == ASSUME IInv, NEW f \in Files, NEW p \in Paths, MoveDir(f, p) PROVE IInv'
<1> DEFINE o == Place(f)
           v == disk.man[f].hash
           t == disk.tree[o]
<1>1. /\ There(f) /\ t = [file |-> f, ver |-> v] /\ syn = None /\ disk.tree[p] = None
      /\ disk' = [disk EXCEPT !.tree[o] = None, !.tree[p] = t]
      /\ UNCHANGED <<content, away, syn, app, ren>>
  BY DEF MoveDir, InStep, Free, readers, envVars
<1>2. o \in Paths /\ v \in Versions /\ disk.man[f].path = o
  BY <1>1, Parts DEF There, Place, IInv, Sound
<1>3. t \in Tree /\ t # None /\ t.file = f /\ t.ver = v /\ p # o
  BY <1>1, <1>2, Nothing DEF Tree
<1> HIDE DEF t, o, v
<1>4. /\ disk' \in Disk /\ disk'.man = disk.man /\ disk'.out = disk.out /\ disk'.old = disk.old
      /\ disk'.tree = [[disk.tree EXCEPT ![o] = None] EXCEPT ![p] = t]
  BY <1>1, <1>3 DEF Disk, IInv, Sound
<1>5. /\ disk'.tree[p] = t /\ disk'.tree[o] = None
      /\ \A q \in Paths : q \notin {o, p} => disk'.tree[q] = disk.tree[q]
  BY <1>2, <1>3, <1>4, Parts DEF IInv, Sound
<1>6. \A q \in Paths : HeldIn(disk, q, f) <=> q = o
  BY <1>2, <1>3 DEF HeldIn, IInv, Daemoned, Kept, t
<1>7. \A q \in Paths : HeldIn(disk', q, f) <=> q = p
  BY <1>3, <1>5, <1>6 DEF HeldIn
<1>8. \A g \in Files : g # f => \A q \in Paths : HeldIn(disk', q, g) <=> HeldIn(disk, q, g)
  <2> TAKE g \in Files
  <2> HAVE g # f
  <2> TAKE q \in Paths
  <2>1. CASE q = o
    BY <2>1, <1>3, <1>5 DEF HeldIn, t
  <2>2. CASE q = p
    BY <2>2, <1>1, <1>3, <1>5 DEF HeldIn
  <2>3. CASE q \notin {o, p}
    BY <2>3, <1>5 DEF HeldIn
  <2> QED
    BY <2>1, <2>2, <2>3
<1>9. Later(disk', f)
  <2>1. disk'.man[f].path = o /\ disk'.man[f].hash = v
    BY <1>2, <1>4 DEF v
  <2> QED
    BY <1>3, <1>5, <1>7, <2>1 DEF Later
<1>10. ~Diverged(f)'
  <2>1. Place(f)' = o
    BY <1>2, <1>4 DEF Place
  <2> QED
    BY <2>1, <1>5 DEF Diverged, HoldsAt
<1>11. /\ There(f)' => disk'.man[f].hash <= content'[f]
       /\ InSwap' /\ Unswapped(f)
  BY <1>1, <1>4 DEF InSwap, Unswapped, There, IInv, Daemoned, Ahead
<1>12. Sound'
  BY <1>1, <1>4, StillSound DEF IInv, Sound
<1>13. Exported'
  <2>1. \A g \in Files : content'[g] >= content[g]
    BY <1>1, Numbers DEF IInv, Sound
  <2> QED
    BY <1>1, <1>4, <1>12, <2>1, Aside
<1>14. Daemoned'
  <2>1. \A q \in Paths : HeldIn(disk', q, f) \/ disk'.tree[q] = disk.tree[q] \/ disk'.tree[q] = None
    BY <1>5, <1>7
  <2> QED
    BY <1>1, <1>4, <1>7, <1>8, <1>9, <1>10, <1>11, <2>1, Enough DEF There
<1> QED
  BY <1>12, <1>13, <1>14 DEF IInv

LEMMA RekeyGood == ASSUME IInv, NEW f \in Files, Rekey(f) PROVE IInv'
<1>1. PICK p \in Paths : /\ HoldsAt(p, f) /\ p # Place(f)
                         /\ disk' = [disk EXCEPT !.man[f].path = p]
  BY DEF Rekey
<1> DEFINE h == disk.man[f].hash
           s == [disk.man[f] EXCEPT !.path = p]
<1>2. There(f) /\ syn = None /\ UNCHANGED <<content, away, syn, app, ren>>
  BY DEF Rekey, envVars, readers
<1>3. disk.man[f] \in Synced /\ h \in Versions /\ h \in Nat
  BY <1>2, Parts DEF There, IInv, Sound
<1>4. s \in Synced /\ s # None /\ s.path = p /\ s.hash = h
  BY <1>3, Nothing DEF Synced
<1>5. disk' = [disk EXCEPT !.man[f] = s]
  BY <1>1
<1> HIDE DEF s
<1>6. /\ disk' \in Disk /\ disk'.tree = disk.tree /\ disk'.out = disk.out /\ disk'.old = disk.old
      /\ disk'.man = [disk.man EXCEPT ![f] = s]
  BY <1>4, <1>5 DEF Disk, IInv, Sound
<1>7. disk'.man[f] = s /\ \A g \in Files : g # f => disk'.man[g] = disk.man[g]
  BY <1>6, Parts DEF IInv, Sound
<1>8. \A q \in Paths : HeldIn(disk', q, f) <=> q = p
  BY <1>1, <1>6 DEF HeldIn, HoldsAt, IInv, Daemoned, Kept
<1>9. disk.tree[p].ver = h /\ disk.tree[p].file = f /\ disk.tree[p] \in Tree
  BY <1>1, <1>2, Parts DEF HoldsAt, HeldIn, Place, Unswapped, IInv, Daemoned, Later, Sound
<1>10. Place(f)' = p /\ There(f)' /\ InStep(f)'
  <2>1. disk'.man[f].path = p /\ disk'.man[f] # None /\ disk'.man[f].hash = h
    BY <1>4, <1>7
  <2>2. disk'.tree[p] = [file |-> f, ver |-> h]
    BY <1>6, <1>9 DEF Tree
  <2> QED
    BY <2>1, <2>2 DEF Place, There, InStep
<1> HIDE DEF h
<1>11. Later(disk', f) /\ ~Diverged(f)' /\ disk'.man[f].hash <= content'[f]
  <2>1. disk'.man[f].hash = h /\ h <= content[f]
    BY <1>2, <1>4, <1>7 DEF IInv, Daemoned, Ahead, h
  <2>2. Later(disk', f)
    BY <1>3, <1>4, <1>6, <1>7, <1>8, <1>9 DEF Later
  <2> QED
    BY <2>1, <2>2, <1>2, <1>10 DEF Diverged
<1>12. Sound'
  BY <1>2, <1>6, StillSound DEF IInv, Sound
<1>13. Exported'
  <2>1. \A g \in Files : content'[g] >= content[g]
    BY <1>2, Numbers DEF IInv, Sound
  <2> QED
    BY <1>2, <1>6, <1>12, <2>1, Aside
<1>14. Daemoned'
  <2>1. \A g \in Files, q \in Paths : HeldIn(disk', q, g) <=> HeldIn(disk, q, g)
    BY <1>6 DEF HeldIn
  <2>2. InSwap' /\ Unswapped(f)
    BY <1>2 DEF InSwap, Unswapped
  <2>3. disk'.man[f] # None
    BY <1>4, <1>7
  <2> QED
    BY <1>2, <1>6, <1>7, <1>8, <1>11, <2>1, <2>2, <2>3, Enough
<1> QED
  BY <1>12, <1>13, <1>14 DEF IInv

LEMMA DeleteGood == ASSUME IInv, NEW f \in Files, Delete(f) PROVE IInv'
<1> DEFINE p == Place(f)
<1>1. /\ There(f) /\ disk.tree[p] = [file |-> f, ver |-> disk.man[f].hash] /\ syn = None
      /\ content' = [content EXCEPT ![f] = Gone]
      /\ disk' = [disk EXCEPT !.man[f] = None, !.tree[p] = None]
      /\ UNCHANGED <<away, syn, app, ren>>
  BY DEF Delete, InStep, readers
<1>2. p \in Paths
  BY <1>1, Parts DEF There, Place, IInv, Sound
<1>3. HeldIn(disk, p, f)
  BY <1>1, <1>2, Parts, Nothing DEF HeldIn, Tree, There, IInv, Sound
<1> HIDE DEF p
<1>4. /\ disk' \in Disk /\ disk'.out = disk.out /\ disk'.old = disk.old
      /\ disk'.man = [disk.man EXCEPT ![f] = None] /\ disk'.tree = [disk.tree EXCEPT ![p] = None]
  BY <1>1 DEF Disk, IInv, Sound
<1>5. /\ disk'.man[f] = None /\ \A g \in Files : g # f => disk'.man[g] = disk.man[g]
      /\ disk'.tree[p] = None /\ \A q \in Paths : q # p => disk'.tree[q] = disk.tree[q]
  BY <1>2, <1>4, Parts DEF IInv, Sound
<1>6. /\ content' \in [Files -> 0 .. Gone] /\ content'[f] = Gone /\ Gone \in Nat
      /\ \A g \in Files : g # f => content'[g] = content[g]
  BY <1>1, Numbers DEF IInv, Sound
<1>7. \A q \in Paths : ~HeldIn(disk', q, f)
  <2>1. \A q \in Paths : HeldIn(disk, q, f) => q = p
    BY <1>2, <1>3 DEF IInv, Daemoned, Kept
  <2> QED
    BY <2>1, <1>5 DEF HeldIn
<1>8. \A g \in Files : g # f => \A q \in Paths : HeldIn(disk', q, g) <=> HeldIn(disk, q, g)
  <2>1. \A g \in Files : g # f => ~HeldIn(disk, p, g)
    BY <1>3 DEF HeldIn
  <2> QED
    BY <2>1, <1>5 DEF HeldIn
<1>9. Sound'
  BY <1>1, <1>4, <1>6, StillSound DEF IInv, Sound
<1>10. Exported'
  <2>1. \A g \in Files : content'[g] >= content[g]
    BY <1>6, Numbers DEF IInv, Sound
  <2> QED
    BY <1>1, <1>4, <1>9, <2>1, Aside
<1>11. Daemoned'
  <2>1. InSwap' /\ Unswapped(f) /\ ~Diverged(f)' /\ ~There(f)' /\ Later(disk', f)
    BY <1>1, <1>5, <1>7 DEF InSwap, Unswapped, Diverged, There, Later
  <2>2. \A q \in Paths : HeldIn(disk', q, f) \/ disk'.tree[q] = disk.tree[q] \/ disk'.tree[q] = None
    BY <1>5
  <2> QED
    BY <1>1, <1>4, <1>5, <1>6, <1>7, <1>8, <2>1, <2>2, Enough
<1> QED
  BY <1>9, <1>10, <1>11 DEF IInv

LEMMA LockGood == ASSUME IInv, Relock \/ Repair PROVE IInv'
<1>1. UNCHANGED <<content, away, syn, app, ren>>
  BY DEF Relock, Repair, envVars, readers
<1>2. /\ disk' \in Disk /\ disk'.tree = disk.tree /\ disk'.man = disk.man
      /\ disk'.out = disk.out /\ disk'.old = disk.old
  <2>1. CASE \E k \in Packs : disk' = [disk EXCEPT !.lock[k] = 2]
    BY <2>1 DEF Disk, IInv, Sound
  <2>2. CASE \E k \in Packs : disk' = [disk EXCEPT !.lock[k] = 0]
    BY <2>2 DEF Disk, IInv, Sound
  <2>3. CASE disk' = [disk EXCEPT !.bad = TRUE] \/ disk' = [disk EXCEPT !.bad = FALSE]
    BY <2>3 DEF Disk, IInv, Sound
  <2> QED
    BY <2>1, <2>2, <2>3 DEF Relock, Repair
<1>3. Sound'
  BY <1>1, <1>2, StillSound DEF IInv, Sound
<1>4. Exported'
  <2>1. \A g \in Files : content'[g] >= content[g]
    BY <1>1, Numbers DEF IInv, Sound
  <2> QED
    BY <1>1, <1>2, <1>3, <2>1, Aside
<1>5. Daemoned'
  BY <1>1, <1>2 DEF IInv, Daemoned, Ahead, InSwap, Kept, Later, Unswapped, HeldIn, Diverged,
                    InStep, HoldsAt, There, Place
<1> QED
  BY <1>3, <1>4, <1>5 DEF IInv

\* The database is made anew from the other vault, while no service runs.
LEMMA SwitchGood == ASSUME IInv, Switch PROVE IInv'
<1>1. /\ ~app /\ disk' = away /\ away' = disk /\ content' = Contents(away)
      /\ UNCHANGED <<syn, app, ren>>
  BY DEF Switch
<1>2. syn = None /\ ren = RenOff
  BY <1>1 DEF IInv, Daemoned, InSwap, Exported
<1>3. /\ RenOff.cur = None /\ RenOff.queue = [g \in Files |-> None]
      /\ RenOff.batch = [g \in Files |-> None]
  BY DEF RenOff
<1>4. \A g \in Files : content'[g] = IF away.man[g] = None THEN 0 ELSE away.man[g].hash
  BY <1>1 DEF Contents
<1>5. content' \in [Files -> 0 .. Gone]
  <2>1. \A g \in Files : (IF away.man[g] = None THEN 0 ELSE away.man[g].hash) \in 0 .. Gone
    BY Parts, Numbers DEF IInv, Sound
  <2> QED
    BY <1>1, <2>1 DEF Contents
<1>6. Sound'
  BY <1>1, <1>5 DEF IInv, Sound
<1>7. Ahead'
  <2>1. \A g \in Files : There(g)' => /\ content'[g] = away.man[g].hash
                                      /\ disk'.man[g].hash = away.man[g].hash
                                      /\ away.man[g].hash \in Nat
    BY <1>1, <1>4, Parts DEF There, IInv, Sound
  <2>2. ASSUME NEW g \in Files, Diverged(g)' PROVE content'[g] <= disk'.tree[Place(g)'].ver
    <3>1. There(g)' /\ HeldIn(away, Place(g)', g) /\ Place(g)' = away.man[g].path
      BY <1>1, <2>2 DEF Diverged, HoldsAt, HeldIn, Place
    <3>2. Place(g)' \in Paths
      BY <1>1, <3>1, Parts DEF There, IInv, Sound
    <3>3. away.tree[Place(g)'].ver >= away.man[g].hash /\ away.tree[Place(g)'].ver \in Nat
      BY <3>1, <3>2, Parts DEF IInv, Sound, Daemoned, Later, HeldIn
    <3> QED
      BY <1>1, <2>1, <3>1, <3>3
  <2> QED
    BY <2>1, <2>2 DEF Ahead
<1>8. Daemoned'
  BY <1>1, <1>2, <1>7 DEF IInv, Daemoned, InSwap, Unswapped
<1>9. Exported'
  BY <1>1, <1>2, <1>3 DEF IInv, Exported, Waiting, NotYet, Shooting, FiledIn
<1> QED
  BY <1>6, <1>8, <1>9 DEF IInv

----------------------------------------------------------------------------
(* The exporter, and the app that starts and ends.                         *)

\* What is known of the trees and the manifest survives a step that leaves
\* them and the database alone.
LEMMA Beside ==
    ASSUME IInv, UNCHANGED <<content, away, syn>>, disk'.tree = disk.tree, disk'.man = disk.man,
           syn = None \/ app'
    PROVE  Daemoned'
BY DEF IInv, Daemoned, Ahead, InSwap, Kept, Later, Unswapped, HeldIn, Diverged, InStep, HoldsAt,
       There, Place

\* What the exporter has, a part at a time.
LEMMA Holds ==
    ASSUME IInv
    PROVE  /\ ren.pc \in {"off", "idle", "shoot", "in", "clean"}
           /\ ren.queue \in [Files -> Pending \cup {None}] /\ ren.batch \in [Files -> Pending \cup {None}]
           /\ ren.cur \in Files \cup {None} /\ ren.todo \in SUBSET Boards /\ ren.shots \in Shots
           /\ ren.cookie \in {"none", "good", "stale"}
           /\ \A f \in Files : /\ ren.queue[f] # None => ren.queue[f] \in Pending
                               /\ ren.batch[f] # None => ren.batch[f] \in Pending
           /\ \A f \in Files : NotYet(ren.queue[f], f) /\ NotYet(ren.batch[f], f)
BY DEF IInv, Sound, Exporting, Exported, Waiting

LEMMA Off == /\ RenOff \in Exporting /\ RenOff.pc = "off" /\ RenOff.cur = None
             /\ RenOff.queue = [f \in Files |-> None] /\ RenOff.batch = [f \in Files |-> None]
BY NoShots DEF RenOff, Exporting

LEMMA CrashGood == ASSUME IInv, Crash PROVE IInv'
<1>1. syn = None /\ app' = FALSE /\ ren' = RenOff /\ UNCHANGED <<content, disk, away, syn>>
  BY DEF Crash
<1>2. Sound'
  BY <1>1, Off DEF IInv, Sound
<1>3. Daemoned'
  BY <1>1, Beside
<1>4. Exported'
  BY <1>1, Off DEF IInv, Exported, Waiting, NotYet, Shooting, FiledIn
<1> QED
  BY <1>2, <1>3, <1>4 DEF IInv

\* A step that leaves the vault alone: only the exporter's memory is in question.
LEMMA Memory ==
    ASSUME IInv, UNCHANGED <<content, disk, away, syn, app>>, app, ren' \in Exporting,
           (ren'.cur # None) <=> (ren'.pc \in {"shoot", "in", "clean"}),
           ren'.cur # None => ren'.batch[ren'.cur] # None,
           \A f \in Files : NotYet(ren'.queue[f], f) /\ NotYet(ren'.batch[f], f),
           ren'.cur # None => \A b \in DOMAIN ren'.shots : ren'.shots[b] >= Job'.hash
    PROVE  IInv'
<1>1. Sound'
  BY DEF IInv, Sound
<1>2. Daemoned'
  BY Beside
<1>3. Exported'
  BY DEF IInv, Exported, Waiting, NotYet, Shooting, FiledIn
<1> QED
  BY <1>1, <1>2, <1>3 DEF IInv

LEMMA Runs == ASSUME IInv, ren.pc # "off" PROVE app
BY Off DEF IInv, Exported

LEMMA PollExportsGood == ASSUME IInv, PollExports PROVE IInv'
<1> DEFINE due == {f \in Files : Queued[f] # None /\ Queued[f].due}
           q == [f \in Files |-> IF f \in due THEN None ELSE Queued[f]]
           b == [f \in Files |-> IF f \in due THEN Queued[f] ELSE None]
<1>1. /\ app /\ ren.pc = "idle" /\ ren' = [ren EXCEPT !.queue = q, !.batch = b]
      /\ UNCHANGED <<content, disk, away, syn, app>>
  BY DEF PollExports, envVars
<1>2. \A f \in Files : Queued[f] \in Pending \cup {None} /\ NotYet(Queued[f], f)
  <2> TAKE f \in Files
  <2>1. CASE Queued[f] = None
    BY <2>1 DEF NotYet
  <2>2. CASE Queued[f] # None
    <3>1. There(f) /\ Queued[f] = Observe(ren.queue[f], f)
      BY <2>2 DEF Queued
    <3>2. /\ disk.man[f].hash \in Versions /\ Place(f) \in Paths
          /\ disk.man[f].hash <= content[f]
      BY <3>1, Parts DEF There, Place, IInv, Sound, Daemoned, Ahead
    <3>3. CASE ren.queue[f] # None /\ ren.queue[f].hash = disk.man[f].hash
      <4>1. Queued[f] = [ren.queue[f] EXCEPT !.path = Place(f)]
        BY <3>1, <3>3 DEF Observe
      <4>2. ren.queue[f] \in Pending
        BY <3>3, Holds
      <4> QED
        BY <3>2, <3>3, <4>1, <4>2 DEF Pending, NotYet
    <3>4. CASE ~(ren.queue[f] # None /\ ren.queue[f].hash = disk.man[f].hash)
      <4>1. Queued[f] = [hash |-> disk.man[f].hash, path |-> Place(f), due |-> FALSE]
        BY <3>1, <3>4 DEF Observe
      <4> QED
        BY <3>2, <4>1 DEF Pending, NotYet
    <3> QED
      BY <3>3, <3>4
  <2> QED
    BY <2>1, <2>2
<1> HIDE DEF due
<1>3. /\ q \in [Files -> Pending \cup {None}] /\ b \in [Files -> Pending \cup {None}]
      /\ \A f \in Files : NotYet(q[f], f) /\ NotYet(b[f], f)
  BY <1>2 DEF NotYet
<1> HIDE DEF q, b
<1>4. ren' \in Exporting /\ ren'.pc = "idle" /\ ren'.cur = ren.cur /\ ren'.queue = q /\ ren'.batch = b
  BY <1>1, <1>3 DEF IInv, Sound, Exporting
<1>5. ren.cur = None
  BY <1>1 DEF IInv, Sound
<1> QED
  BY <1>1, <1>3, <1>4, <1>5, Memory

LEMMA ElapseGood == ASSUME IInv, NEW f \in Files, Elapse(f) PROVE IInv'
<1> DEFINE j == [ren.queue[f] EXCEPT !.due = TRUE]
<1>1. /\ ren.pc # "off" /\ ren.queue[f] # None /\ ren' = [ren EXCEPT !.queue[f] = j]
      /\ UNCHANGED <<content, disk, away, syn, app>>
  BY DEF Elapse, envVars
<1>2. j \in Pending /\ j.hash = ren.queue[f].hash
  BY <1>1, Holds DEF Pending
<1> HIDE DEF j
<1>3. /\ ren' \in Exporting /\ ren'.queue = [ren.queue EXCEPT ![f] = j]
      /\ ren'.pc = ren.pc /\ ren'.cur = ren.cur /\ ren'.batch = ren.batch /\ ren'.shots = ren.shots
  BY <1>1, <1>2 DEF IInv, Sound, Exporting
<1>4. \A g \in Files : NotYet(ren'.queue[g], g) /\ NotYet(ren'.batch[g], g)
  BY <1>1, <1>2, <1>3, Holds DEF NotYet
<1>5. ren'.cur # None => \A b \in DOMAIN ren'.shots : ren'.shots[b] >= Job'.hash
  BY <1>3 DEF IInv, Exported, Shooting, Job
<1> QED
  BY <1>1, <1>3, <1>4, <1>5, Memory, Runs DEF IInv, Sound

LEMMA GetFileGood == ASSUME IInv, NEW f \in Files, GetFile(f) PROVE IInv'
<1> DEFINE c == IF ren.cookie = "none" THEN "good" ELSE ren.cookie
           todo == BoardsOf[content[f]]
<1>1. /\ ren.pc = "idle" /\ ren.batch[f] # None /\ content[f] \in Versions
      /\ ren' = [ren EXCEPT !.pc = "shoot", !.cur = f, !.todo = todo, !.shots = << >>, !.cookie = c]
      /\ UNCHANGED <<content, disk, away, syn, app>>
  BY DEF GetFile, Live, envVars
<1>2. c \in {"none", "good", "stale"} /\ todo \in SUBSET Boards
  BY <1>1, Holds, ContentAssumption
<1> HIDE DEF c, todo
<1>3. /\ ren' \in Exporting /\ ren'.pc = "shoot" /\ ren'.cur = f /\ ren'.shots = << >>
      /\ ren'.queue = ren.queue /\ ren'.batch = ren.batch
  BY <1>1, <1>2, NoShots DEF IInv, Sound, Exporting
<1>4. \A g \in Files : NotYet(ren'.queue[g], g) /\ NotYet(ren'.batch[g], g)
  BY <1>3, Holds
<1> QED
  BY <1>1, <1>3, <1>4, NoShots, Nothing, Memory, Runs

LEMMA RenderGood == ASSUME IInv, NEW b \in Boards, Render(b) PROVE IInv'
<1> DEFINE f == ren.cur
           s == [x \in DOMAIN ren.shots \cup {b} |-> IF x = b THEN content[f] ELSE ren.shots[x]]
           t == ren.todo \ {b}
<1>1. /\ ren.pc = "shoot" /\ content[f] \in Versions
      /\ ren' = [ren EXCEPT !.todo = t, !.shots = s]
      /\ UNCHANGED <<content, disk, away, syn, app>>
  BY DEF Render, Live, envVars
<1>2. f \in Files /\ ren.batch[f] # None /\ ren.batch[f].hash <= content[f]
  BY <1>1, Holds DEF IInv, Sound, NotYet
<1>3. s \in Shots
  <2>1. PICK B \in SUBSET Boards : ren.shots \in [B -> Versions]
    BY Holds DEF Shots
  <2>2. s \in [B \cup {b} -> Versions] /\ B \cup {b} \in SUBSET Boards
    BY <1>1, <2>1
  <2> QED
    BY <2>2 DEF Shots
<1>4. \A x \in DOMAIN s : s[x] >= ren.batch[f].hash
  <2>1. \A x \in DOMAIN ren.shots : ren.shots[x] >= ren.batch[f].hash
    BY <1>1, <1>2, Nothing DEF IInv, Exported, Shooting, Job
  <2>2. content[f] >= ren.batch[f].hash
    <3>1. content[f] \in Nat /\ ren.batch[f].hash \in Nat
      BY <1>1, <1>2, Holds, Numbers DEF Pending
    <3> QED
      BY <1>2, <3>1
  <2> QED
    BY <2>1, <2>2
<1>5. t \in SUBSET Boards
  BY Holds
<1> HIDE DEF s, t
<1>6. /\ ren' \in Exporting /\ ren'.pc = "shoot" /\ ren'.cur = ren.cur /\ ren'.shots = s
      /\ ren'.queue = ren.queue /\ ren'.batch = ren.batch
  BY <1>1, <1>3, <1>5 DEF IInv, Sound, Exporting
<1>7. \A g \in Files : NotYet(ren'.queue[g], g) /\ NotYet(ren'.batch[g], g)
  BY <1>6, Holds
<1>8. \A x \in DOMAIN ren'.shots : ren'.shots[x] >= Job'.hash
  BY <1>4, <1>6 DEF Job
<1> QED
  BY <1>1, <1>2, <1>6, <1>7, <1>8, Nothing, Memory, Runs

LEMMA RenderFailsGood == ASSUME IInv, NEW f \in Files, RenderFails(f) PROVE IInv'
<1> DEFINE j == [ren.batch[f] EXCEPT !.due = FALSE]
<1>1. /\ ren.pc # "off" /\ ren.batch[f] # None
      /\ ren' = [Done(f) EXCEPT !.cookie = "none", !.queue[f] = j]
      /\ UNCHANGED <<content, disk, away, syn, app>>
  BY DEF RenderFails, envVars
<1>2. j \in Pending /\ j.hash = ren.batch[f].hash
  BY <1>1, Holds DEF Pending
<1> HIDE DEF j
<1>3. Done(f) \in Exporting
  BY NoShots DEF Done, IInv, Sound, Exporting
<1>4. /\ Done(f).pc = "idle" /\ Done(f).cur = None /\ Done(f).queue = ren.queue
      /\ Done(f).batch = [ren.batch EXCEPT ![f] = None]
  BY DEF Done, IInv, Sound, Exporting
<1>5. /\ ren' \in Exporting /\ ren'.pc = "idle" /\ ren'.cur = None
      /\ ren'.queue = [ren.queue EXCEPT ![f] = j] /\ ren'.batch = [ren.batch EXCEPT ![f] = None]
  BY <1>1, <1>2, <1>3, <1>4 DEF Exporting
<1>6. \A g \in Files : NotYet(ren'.queue[g], g) /\ NotYet(ren'.batch[g], g)
  BY <1>1, <1>2, <1>5, Holds DEF NotYet
<1> QED
  BY <1>1, <1>5, <1>6, Memory, Runs

LEMMA ExpireGood == ASSUME IInv, Expire PROVE IInv'
<1>1. /\ ren.cookie = "good" /\ ren' = [ren EXCEPT !.cookie = "stale"]
      /\ UNCHANGED <<content, disk, away, syn, app>>
  BY DEF Expire, envVars
<1>2. /\ ren' \in Exporting /\ ren'.pc = ren.pc /\ ren'.cur = ren.cur /\ ren'.shots = ren.shots
      /\ ren'.queue = ren.queue /\ ren'.batch = ren.batch
  BY <1>1 DEF IInv, Sound, Exporting
<1>3. \A g \in Files : NotYet(ren'.queue[g], g) /\ NotYet(ren'.batch[g], g)
  BY <1>2, Holds
<1>4. ren'.cur # None => \A b \in DOMAIN ren'.shots : ren'.shots[b] >= Job'.hash
  BY <1>2 DEF IInv, Exported, Shooting, Job
<1>5. app
  <2>1. RenOff.cookie = "none"
    BY DEF RenOff
  <2> QED
    BY <1>1, <2>1 DEF IInv, Exported
<1> QED
  BY <1>1, <1>2, <1>3, <1>4, <1>5, Memory DEF IInv, Sound

LEMMA ToggleGood == ASSUME IInv, Toggle PROVE IInv'
<1>1. /\ app /\ UNCHANGED <<content, disk, away, syn, app>>
      /\ ren' = RenOff \/ ren' = ren
  BY DEF Toggle
<1>2. CASE ren' = RenOff
  BY <1>1, <1>2, Off, Memory DEF NotYet
<1>3. CASE ren' = ren
  BY <1>1, <1>3, Holds, Memory DEF IInv, Sound, Exported, Shooting, Job
<1> QED
  BY <1>1, <1>2, <1>3

\* What an interrupted swap left behind goes back as it was filed.
LEMMA BootGood == ASSUME IInv, Boot PROVE IInv'
<1>1. ~app /\ app' = TRUE /\ UNCHANGED <<content, away, syn>>
  BY DEF Boot
<1>2. syn = None /\ ren = RenOff
  BY <1>1 DEF IInv, Daemoned, InSwap, Exported
<1> DEFINE o == [p \in Paths |-> IF disk.out[p] = None THEN disk.old[p] ELSE disk.out[p]]
           n == [p \in Paths |-> None]
           on == [RenOff EXCEPT !.pc = "idle"]
<1>3. \/ ren' = on /\ disk' = [disk EXCEPT !.old = n, !.out = o]
      \/ ren' = ren /\ disk' = disk
  BY DEF Boot, sweep_exports_orphans
<1>4. /\ o \in [Paths -> Rendered \cup {None}] /\ n \in [Paths -> Rendered \cup {None}]
      /\ \A p \in Paths : Filed(o[p]) /\ Filed(n[p])
  <2>1. \A p \in Paths : /\ disk.out[p] \in Rendered \cup {None} /\ disk.old[p] \in Rendered \cup {None}
                         /\ Filed(disk.out[p]) /\ Filed(disk.old[p])
    BY Parts DEF IInv, Sound, Exported, FiledIn
  <2> QED
    BY <2>1 DEF Filed
<1>5. /\ on \in Exporting /\ on.pc = "idle" /\ on.cur = None
      /\ on.queue = [f \in Files |-> None] /\ on.batch = [f \in Files |-> None]
  BY Off DEF Exporting
<1> HIDE DEF o, n, on
<1>6. /\ disk' \in Disk /\ disk'.tree = disk.tree /\ disk'.man = disk.man /\ FiledIn(disk')
  <2>1. CASE disk' = [disk EXCEPT !.old = n, !.out = o]
    <3>1. /\ disk' \in Disk /\ disk'.tree = disk.tree /\ disk'.man = disk.man
          /\ disk'.out = o /\ disk'.old = n
      BY <2>1, <1>4 DEF Disk, IInv, Sound
    <3> QED
      BY <3>1, <1>4 DEF FiledIn
  <2>2. CASE disk' = disk
    BY <2>2 DEF IInv, Sound, Exported
  <2> QED
    BY <2>1, <2>2, <1>3
<1>7. ren' \in {on, RenOff}
  BY <1>2, <1>3
<1>8. Sound'
  BY <1>1, <1>2, <1>5, <1>6, <1>7, Off DEF IInv, Sound
<1>9. Daemoned'
  BY <1>1, <1>2, <1>6, Beside
<1>10. Exported'
  BY <1>1, <1>5, <1>6, <1>7, Off DEF IInv, Exported, Waiting, NotYet, Shooting, FiledIn
<1> QED
  BY <1>8, <1>9, <1>10 DEF IInv

LEMMA CommitExportsGood == ASSUME IInv, CommitExports PROVE IInv'
<1> DEFINE f == ren.cur
           p == Job.path
           o == [file |-> f, hash |-> RenderedFrom, shots |-> ren.shots]
<1>1. ren.cur # None /\ SwapExports /\ UNCHANGED <<content, away, syn, app>>
  BY DEF CommitExports, envVars
<1>2. f \in Files /\ ren.batch[f] \in Pending /\ app /\ ren.pc \in {"shoot", "in", "clean"}
  <2>1. ren.pc \in {"shoot", "in", "clean"}
    BY <1>1 DEF IInv, Sound
  <2> QED
    BY <1>1, <2>1, Holds, Runs DEF IInv, Sound
<1>3. p \in Paths /\ Job.hash \in Versions
  BY <1>2 DEF Job, Pending
<1>4. o \in Rendered /\ o # None /\ Filed(o)
  <2>1. o \in Rendered
    BY <1>2, <1>3, Holds DEF Rendered, RenderedFrom
  <2>2. o.shots = ren.shots /\ o.hash = Job.hash
    BY DEF RenderedFrom
  <2>3. \A b \in DOMAIN ren.shots : ren.shots[b] >= Job.hash
    BY <1>1 DEF IInv, Exported, Shooting
  <2> QED
    BY <2>1, <2>2, <2>3, Nothing DEF Filed
<1>5. /\ \A q \in Paths : /\ disk.out[q] \in Rendered \cup {None} /\ disk.old[q] \in Rendered \cup {None}
                          /\ Filed(disk.out[q]) /\ Filed(disk.old[q])
      /\ FiledIn(away) /\ Filed(None)
  BY Parts DEF IInv, Sound, Exported, FiledIn, Filed
<1> HIDE DEF o, p
<1>6. /\ disk' \in Disk /\ disk'.tree = disk.tree /\ disk'.man = disk.man /\ FiledIn(disk')
  <2>1. CASE disk' = [disk EXCEPT !.old[p] = disk.out[p], !.out[p] = None]
    <3>1. /\ disk' \in Disk /\ disk'.tree = disk.tree /\ disk'.man = disk.man
          /\ disk'.old = [disk.old EXCEPT ![p] = disk.out[p]] /\ disk'.out = [disk.out EXCEPT ![p] = None]
      BY <2>1, <1>3, <1>5 DEF Disk, IInv, Sound
    <3> QED
      BY <3>1, <1>3, <1>5, Parts DEF FiledIn, IInv, Sound
  <2>2. CASE disk' = [disk EXCEPT !.out[p] = o]
    <3>1. /\ disk' \in Disk /\ disk'.tree = disk.tree /\ disk'.man = disk.man
          /\ disk'.old = disk.old /\ disk'.out = [disk.out EXCEPT ![p] = o]
      BY <2>2, <1>3, <1>4 DEF Disk, IInv, Sound
    <3> QED
      BY <3>1, <1>3, <1>4, <1>5, Parts DEF FiledIn, IInv, Sound
  <2>3. CASE disk' = [disk EXCEPT !.old[p] = None]
    <3>1. /\ disk' \in Disk /\ disk'.tree = disk.tree /\ disk'.man = disk.man
          /\ disk'.old = [disk.old EXCEPT ![p] = None] /\ disk'.out = disk.out
      BY <2>3, <1>3 DEF Disk, IInv, Sound
    <3> QED
      BY <3>1, <1>3, <1>5, Parts DEF FiledIn, IInv, Sound
  <2> QED
    BY <2>1, <2>2, <2>3, <1>1 DEF SwapExports, p, o
<1>7. /\ ren' \in Exporting
      /\ \/ /\ ren'.pc \in {"in", "clean"} /\ ren'.cur = f /\ ren'.shots = ren.shots
            /\ ren'.queue = ren.queue /\ ren'.batch = ren.batch
         \/ /\ ren'.pc = "idle" /\ ren'.cur = None
            /\ ren'.queue = ren.queue /\ ren'.batch = [ren.batch EXCEPT ![f] = None]
  <2>1. CASE \E x \in {"in", "clean"} : ren' = [ren EXCEPT !.pc = x]
    BY <2>1 DEF IInv, Sound, Exporting
  <2>2. CASE ren' = Done(f)
    BY <2>2, NoShots DEF Done, IInv, Sound, Exporting
  <2> QED
    BY <2>1, <2>2, <1>1 DEF SwapExports
<1>8. Sound'
  <2>1. (ren'.cur # None) <=> (ren'.pc \in {"shoot", "in", "clean"})
    BY <1>1, <1>7
  <2>2. ren'.cur # None => ren'.batch[ren'.cur] # None
    BY <1>7 DEF IInv, Sound
  <2> QED
    BY <1>1, <1>6, <1>7, <2>1, <2>2 DEF IInv, Sound
<1>9. Daemoned'
  BY <1>1, <1>2, <1>6, Beside
<1>10. Waiting'
  BY <1>1, <1>7, Holds DEF Waiting, NotYet
<1>11. Shooting'
  BY <1>7 DEF Shooting, Job, IInv, Exported
<1>12. Exported'
  BY <1>1, <1>2, <1>5, <1>6, <1>10, <1>11 DEF Exported, FiledIn
<1> QED
  BY <1>8, <1>9, <1>12 DEF IInv

\* The index writes nothing but itself.
LEMMA IndexGood == ASSUME IInv, Index \/ UNCHANGED vars PROVE IInv'
<1>1. UNCHANGED <<content, disk, away, syn, app, ren>>
  BY DEF Index, PollIndex, ReadTree, ReplaceFile, DropOthers, vars, envVars
<1>2. Sound'
  BY <1>1 DEF IInv, Sound
<1>3. Daemoned'
  BY <1>1 DEF IInv, Daemoned, Ahead, InSwap, Kept, Later, Unswapped, HeldIn, Diverged, InStep, HoldsAt,
              There, Place
<1>4. Exported'
  BY <1>1 DEF IInv, Exported, Waiting, NotYet, Shooting, FiledIn, Job
<1> QED
  BY <1>2, <1>3, <1>4 DEF IInv

----------------------------------------------------------------------------
\* Every step keeps the invariant.
LEMMA StepGood == IInv /\ [Next]_vars => IInv'
<1> SUFFICES ASSUME IInv, [Next]_vars PROVE IInv'
  OBVIOUS
<1>1. CASE World
  BY <1>1, EditGood, NewGood, DiskEditGood, DeleteGood, MoveDirGood, LockGood, CrashGood, SwitchGood,
     ToggleGood, ExpireGood DEF World
<1>2. CASE Daemon
  BY <1>2, RecordGood, ImportGood, RekeyGood, SwapTreeGood, LockGood DEF Daemon
<1>3. CASE Boot
  BY <1>3, BootGood
<1>4. CASE Exporter
  BY <1>4, PollExportsGood, CommitExportsGood, ElapseGood, GetFileGood, RenderFailsGood, RenderGood
  DEF Exporter
<1>5. CASE Index \/ UNCHANGED vars
  BY <1>5, IndexGood
<1> QED
  BY <1>1, <1>2, <1>3, <1>4, <1>5 DEF Next

(* A picture is never older than the state it is filed under, however the  *)
(* edits, exports, imports, moves, renders, crashes and switches may mix   *)
(* and whatever the number of files, places, boards and versions.          *)
THEOREM NeverOlder == Spec => []NeverBehind
<1>1. IInv => NeverBehind
  BY DEF IInv, Exported, FiledIn, Filed, NeverBehind
<1> QED
  BY InitGood, StepGood, <1>1, PTL DEF Spec

----------------------------------------------------------------------------
(* RendersKept.  The exporter's swap has a moment at which a place has no  *)
(* renders but those set aside; only then, or after the app was killed in  *)
(* it, may the place be without.                                           *)
SetAside == \A p \in shown : disk.out[p] # None \/ disk.old[p] # None
Swapped == ren.pc = "in" => \A p \in shown : p # Job.path => disk.out[p] # None
Visible == ren.pc \in {"idle", "shoot", "clean"} => \A p \in shown : disk.out[p] # None
Shown == shown \subseteq Paths /\ SetAside /\ Swapped /\ Visible

LEMMA InitShown == Init => Shown
BY Off DEF Init, Shown, SetAside, Swapped, Visible

\* A step of the daemon, of the index or of the exporter's waiting.
LEMMA SameShown ==
    ASSUME Shown, shown' = shown, disk'.out = disk.out, disk'.old = disk.old,
           \/ ren' = ren
           \/ ren'.pc = "off"
           \/ ren.pc \in {"idle", "shoot"} /\ ren'.pc \in {"off", "idle", "shoot"}
    PROVE  Shown'
BY DEF Shown, SetAside, Swapped, Visible, Job

LEMMA DaemonShown ==
    ASSUME Sound, Shown, Daemon \/ World PROVE Shown'
<1>1. CASE Daemon
  <2>1. shown' = shown /\ ren' = ren
    BY <1>1 DEF Daemon, Record, Import, Rekey, SwapTree, Repair, readers
  <2>2. disk'.out = disk.out /\ disk'.old = disk.old
    <3>1. CASE \E f \in Files : Record(f)
      BY <3>1 DEF Record, Disk, Sound
    <3>2. CASE \E f \in Files : Import(f) \/ Rekey(f)
      BY <3>2 DEF Import, Rekey, Disk, Sound
    <3>3. CASE SwapTree
      BY <3>3 DEF SwapTree, Disk, Sound
    <3>4. CASE Repair
      BY <3>4 DEF Repair, Disk, Sound
    <3> QED
      BY <3>1, <3>2, <3>3, <3>4, <1>1 DEF Daemon
  <2> QED
    BY <2>1, <2>2, SameShown
<1>2. CASE World
  <2>1. CASE Switch
    <3>1. shown' = {}
      BY <2>1 DEF Switch
    <3> QED
      BY <3>1 DEF Shown, SetAside, Swapped, Visible
  <2>2. CASE ~Switch
    <3>1. shown' = shown
      BY <1>2, <2>2 DEF World, Edit, New, DiskEdit, Delete, MoveDir, Relock, Crash, Toggle, Expire, readers
    <3>2. disk'.out = disk.out /\ disk'.old = disk.old
      <4>1. CASE \E f \in Files : Delete(f)
        BY <4>1 DEF Delete, Disk, Sound
      <4>2. CASE \E f \in Files, p \in Paths : MoveDir(f, p)
        BY <4>2 DEF MoveDir, Disk, Sound
      <4>3. CASE Relock
        BY <4>3 DEF Relock, Disk, Sound
      <4>4. CASE \E f \in Files : DiskEdit(f)
        BY <4>4 DEF DiskEdit, Disk, Sound
      <4>5. CASE (\E f \in Files : Edit(f) \/ New(f)) \/ Crash \/ Toggle \/ Expire
        BY <4>5 DEF Edit, New, Crash, Toggle, Expire, envVars
      <4> QED
        BY <4>1, <4>2, <4>3, <4>4, <4>5, <1>2, <2>2 DEF World
    <3>3. \/ ren' = ren
          \/ ren'.pc = "off"
          \/ ren' = [ren EXCEPT !.cookie = "stale"]
      BY <1>2, <2>2, Off DEF World, Edit, New, DiskEdit, Delete, MoveDir, Relock, Crash, Toggle, Expire, readers
    <3>4. CASE ren' = [ren EXCEPT !.cookie = "stale"]
      <4>1. ren'.pc = ren.pc /\ ren'.cur = ren.cur /\ ren'.batch = ren.batch
        BY <3>4 DEF Exporting, Sound
      <4> QED
        BY <3>1, <3>2, <4>1 DEF Shown, SetAside, Swapped, Visible, Job
    <3> QED
      BY <3>1, <3>2, <3>3, <3>4, SameShown
  <2> QED
    BY <2>1, <2>2
<1> QED
  BY <1>1, <1>2

LEMMA CommitShown == ASSUME IInv, Shown, CommitExports PROVE Shown'
<1> DEFINE p == Job.path
           o == [file |-> ren.cur, hash |-> RenderedFrom, shots |-> ren.shots]
<1>1. ren \in Exporting /\ disk \in Disk /\ ren.batch[ren.cur] \in Pending /\ SwapExports
  BY Holds DEF CommitExports, IInv, Sound
<1>2. p \in Paths
  BY <1>1 DEF Job, Pending
<1>3. o # None
  <2>1. ren.batch[ren.cur].hash \in Versions
    BY <1>1 DEF Pending
  <2>2. o \in Rendered
    BY <1>1, <2>1, Holds DEF Rendered, RenderedFrom, Job, CommitExports
  <2> QED
    BY <2>2, Nothing
<1>4. disk.out \in [Paths -> Rendered \cup {None}] /\ disk.old \in [Paths -> Rendered \cup {None}]
  BY <1>1, Parts
<1> HIDE DEF p, o
<1>5. CASE /\ ren.pc = "shoot" /\ disk.out[p] # None
           /\ disk' = [disk EXCEPT !.old[p] = disk.out[p], !.out[p] = None]
           /\ ren' = [ren EXCEPT !.pc = "in"] /\ UNCHANGED shown
  <2>1. /\ disk'.old = [disk.old EXCEPT ![p] = disk.out[p]] /\ disk'.out = [disk.out EXCEPT ![p] = None]
        /\ ren'.pc = "in" /\ Job' = Job
    BY <1>1, <1>5 DEF Disk, Exporting, Job
  <2> QED
    BY <1>2, <1>4, <1>5, <2>1 DEF Shown, SetAside, Swapped, Visible, p
<1>6. CASE /\ ren.pc \in {"shoot", "in"}
           /\ disk' = [disk EXCEPT !.out[p] = o]
           /\ ren' = [ren EXCEPT !.pc = "clean"] /\ shown' = shown \cup {p}
  <2>1. disk'.out = [disk.out EXCEPT ![p] = o] /\ ren'.pc = "clean"
    BY <1>1, <1>6 DEF Disk, Exporting
  <2> QED
    BY <1>2, <1>3, <1>4, <1>6, <2>1 DEF Shown, SetAside, Swapped, Visible, p
<1>7. CASE /\ ren.pc = "clean"
           /\ disk' = [disk EXCEPT !.old[p] = None]
           /\ ren' = Done(ren.cur) /\ UNCHANGED shown
  <2>1. disk'.out = disk.out /\ ren'.pc = "idle"
    BY <1>1, <1>7 DEF Disk, Exporting, Done
  <2> QED
    BY <1>7, <2>1 DEF Shown, SetAside, Swapped, Visible
<1> QED
  BY <1>1, <1>5, <1>6, <1>7 DEF SwapExports, p, o

LEMMA BootShown == ASSUME IInv, Shown, Boot PROVE Shown'
<1>1. ~app /\ shown' = shown /\ ren = RenOff
  BY DEF Boot, IInv, Exported
<1>2. CASE ren' = ren /\ disk' = disk
  BY <1>1, <1>2 DEF Shown, SetAside, Swapped, Visible, Job
<1>3. CASE ren' = [RenOff EXCEPT !.pc = "idle"] /\ disk' = sweep_exports_orphans(disk)
  <2>1. disk'.out = [p \in Paths |-> IF disk.out[p] = None THEN disk.old[p] ELSE disk.out[p]]
    BY <1>3 DEF sweep_exports_orphans, Disk, IInv, Sound
  <2>2. ren'.pc = "idle"
    BY <1>3, Off DEF Exporting
  <2> QED
    BY <1>1, <2>1, <2>2 DEF Shown, SetAside, Swapped, Visible
<1> QED
  BY <1>2, <1>3 DEF Boot

LEMMA ExporterShown ==
    ASSUME IInv, Shown, PollExports \/ (\E f \in Files : Elapse(f) \/ GetFile(f) \/ RenderFails(f))
                                    \/ (\E b \in Boards : Render(b))
    PROVE  Shown'
<1>1. shown' = shown /\ disk' = disk
  BY DEF PollExports, Elapse, GetFile, RenderFails, Render
<1>2. ren \in Exporting
  BY DEF IInv, Sound
<1>3. CASE PollExports \/ (\E f \in Files : GetFile(f) \/ RenderFails(f)) \/ (\E b \in Boards : Render(b))
  <2>1. ren.pc \in {"idle", "shoot"} /\ ren'.pc \in {"idle", "shoot"}
    BY <1>2, <1>3 DEF PollExports, GetFile, RenderFails, Render, Done, Exporting
  <2> QED
    BY <1>1, <2>1, SameShown
<1>4. CASE \E f \in Files : Elapse(f)
  <2>1. ren'.pc = ren.pc /\ ren'.cur = ren.cur /\ ren'.batch = ren.batch
    BY <1>2, <1>4 DEF Elapse, Exporting
  <2> QED
    BY <1>1, <2>1 DEF Shown, SetAside, Swapped, Visible, Job
<1> QED
  BY <1>3, <1>4

(* The service never takes a person's renders away: a place that had some  *)
(* has some whenever the exporter is not inside its swap, also after the   *)
(* app was killed there and started again.                                 *)
THEOREM RendersStay == Spec => []RendersKept
<1>1. IInv /\ Shown /\ [Next]_vars => Shown'
  <2> SUFFICES ASSUME IInv, Shown, [Next]_vars PROVE Shown'
    OBVIOUS
  <2>1. CASE World \/ Daemon
    BY <2>1, DaemonShown DEF IInv
  <2>2. CASE Boot
    BY <2>2, BootShown
  <2>3. CASE Exporter
    BY <2>3, CommitShown, ExporterShown DEF Exporter
  <2>4. CASE Index \/ UNCHANGED vars
    <3>1. UNCHANGED <<disk, ren, shown>>
      BY <2>4 DEF Index, PollIndex, ReadTree, ReplaceFile, DropOthers, vars
    <3> QED
      BY <3>1, SameShown
  <2> QED
    BY <2>1, <2>2, <2>3, <2>4 DEF Next
<1>2. Shown => RendersKept
  BY DEF Shown, Visible, RendersKept
<1> QED
  BY InitGood, InitShown, StepGood, <1>1, <1>2, PTL DEF Spec

-----------------------------------------------------------------------------
(* The label of an update (Contracts), for all components, words, variants, *)
(* axes and tokens: contract_index finds a set at each spot where a user    *)
(* sees one (IndexIsFound), what is less there is what a user misses        *)
(* (ShrunkIsMissed), and the ranks of that add up to the label (LabelFits). *)

\* Where a user finds component c: the kind of its set, and its path.
Spot(lib, c) == <<KindOf(lib.comps[c]), lib.comps[c].path>>
Spots(lib) == {Spot(lib, c) : c \in Present(lib)}
Spotted(lib, k) == {c \in Present(lib) : Spot(lib, c) = k}

\* A set, by what a user finds at its spot.
Found(lib, k) ==
  [variantNames      |-> {lib.comps[c].name : c \in Spotted(lib, k)},
   exposedProperties |-> UNION {lib.comps[c].axes : c \in Spotted(lib, k)},
   tokensUsed        |-> UNION {lib.comps[c].uses : c \in Spotted(lib, k)}]

Orderly(lib) == lib \in Library /\ OnePath(lib) /\ Tidy(lib)

\* A component of a tidy library has a path.
LEMMA PathsOfComps ==
  ASSUME WordsAssumption, NEW lib, Orderly(lib), NEW c \in Present(lib)
  PROVE  /\ lib.comps[c] \in Component
         /\ lib.comps[c].path \in Words /\ lib.comps[c].path \in Nat \ {0}
<1>1. c \in Comps /\ lib.comps[c] # Absent /\ lib.comps[c] \in Component \cup {Absent}
  BY DEF Present, Orderly, Library
<1>2. lib.comps[c].path # 0
  BY DEF Orderly, Tidy, Placed
<1> QED BY <1>1, <1>2 DEF WordsAssumption, Component

\* There, components are grouped together exactly where a user finds them so.
LEMMA GroupsAreSpots ==
  ASSUME WordsAssumption, NEW lib, Orderly(lib),
         NEW c \in Present(lib), NEW d \in Present(lib)
  PROVE  GroupKey(lib.comps[c]) = GroupKey(lib.comps[d])
           <=> Spot(lib, c) = Spot(lib, d)
<1>1. lib.comps[c].variant # 0 /\ lib.comps[d].variant = lib.comps[c].variant
        => lib.comps[d].path = lib.comps[c].path
  BY DEF Orderly, OnePath
<1>2. lib.comps[c].variant # 0 /\ lib.comps[d].variant # 0 /\ lib.comps[d].path = lib.comps[c].path
        => lib.comps[d].variant = lib.comps[c].variant
  BY DEF Orderly, Tidy, KindOf
<1> QED BY <1>1, <1>2 DEF GroupKey, Spot, KindOf

\* A group goes by the path its components have in common.
LEMMA GroupName ==
  ASSUME WordsAssumption, NEW lib, Orderly(lib), NEW c \in Present(lib)
  PROVE  LET g == GroupKey(lib.comps[c]) IN
         /\ Members(lib, g) = {lib.comps[d] : d \in Spotted(lib, Spot(lib, c))}
         /\ SetKey(lib, g) = Spot(lib, c)
<1> DEFINE g == GroupKey(lib.comps[c])
           M == Members(lib, g)
           p == lib.comps[c].path
<1>1. {d \in Present(lib) : GroupKey(lib.comps[d]) = g} = Spotted(lib, Spot(lib, c))
  BY GroupsAreSpots DEF Spotted
<1>2. M = {lib.comps[d] : d \in Spotted(lib, Spot(lib, c))}
  BY <1>1 DEF Members
<1>3. \A m \in M : m.path = p
  BY <1>2 DEF Spotted, Spot
<1>4. lib.comps[c] \in M
  BY <1>2 DEF Spotted
<1>5. p \in Nat /\ p # 0
  BY PathsOfComps
<1>6. {m.path : m \in M} \ {0} = {p}
  BY <1>3, <1>4, <1>5
<1>7. Min({p}) = p
  BY <1>5 DEF Min
<1>8. SetName(M) = p
  BY <1>6, <1>7 DEF SetName
<1>9. g[1] = KindOf(lib.comps[c])
  BY DEF GroupKey, KindOf
<1> QED BY <1>2, <1>8, <1>9 DEF SetKey, Spot

\* So the index of a tidy library has its sets where a user finds them.
LEMMA IndexIsFound ==
  ASSUME WordsAssumption, NEW lib, Orderly(lib)
  PROVE  contract_index(lib) = [k \in Spots(lib) |-> Found(lib, k)]
<1> DEFINE Key(g) == SetKey(lib, g)
           Group(c) == GroupKey(lib.comps[c])
           With(k) == {g \in Groups(lib) : Key(g) = k}
           Last(k) == CHOOSE g \in With(k) : \A h \in With(k) : h[2] <= g[2]
<1>1. \A c \in Present(lib) : Key(Group(c)) = Spot(lib, c)
  BY GroupName
<1>2. Groups(lib) = {Group(c) : c \in Present(lib)}
  BY DEF Groups
<1>3. {Key(g) : g \in Groups(lib)} = Spots(lib)
  <2> HIDE DEF Key, Group
  <2> QED BY <1>1, <1>2 DEF Spots
<1>4. ASSUME NEW k \in Spots(lib)
      PROVE  SetOf(lib, Last(k)) = Found(lib, k)
  <2>1. PICK c \in Present(lib) : k = Spot(lib, c)
    BY <1>4 DEF Spots
  <2>2. With(k) = {Group(c)}
    <3>1. \A d \in Present(lib) : Spot(lib, d) = k => Group(d) = Group(c)
      BY <2>1, GroupsAreSpots
    <3> HIDE DEF Key, Group
    <3> QED BY <1>1, <1>2, <2>1, <3>1
  <2>3. Group(c)[2] \in Nat
    BY PathsOfComps DEF GroupKey, Component, WordsAssumption
  <2>4. Last(k) = Group(c)
    <3> DEFINE W == With(k)
    <3>1. W = {Group(c)}
      BY <2>2
    <3>2. Last(k) = CHOOSE g \in W : \A h \in W : h[2] <= g[2]
      OBVIOUS
    <3> HIDE DEF W, Group, Last, With
    <3> QED BY <2>3, <3>1, <3>2
  <2>5. Members(lib, Group(c)) = {lib.comps[d] : d \in Spotted(lib, k)}
    BY <2>1, GroupName
  <2> DEFINE M == Members(lib, Group(c))
             S == Spotted(lib, k)
  <2>6. /\ {m.name : m \in M} = {lib.comps[d].name : d \in S}
        /\ UNION {m.axes : m \in M} = UNION {lib.comps[d].axes : d \in S}
        /\ UNION {m.uses : m \in M} = UNION {lib.comps[d].uses : d \in S}
    <3> HIDE DEF M, S, Group
    <3>1. M = {lib.comps[d] : d \in S}
      BY <2>5 DEF M, S
    <3>2. /\ {m.axes : m \in M} = {lib.comps[d].axes : d \in S}
          /\ {m.uses : m \in M} = {lib.comps[d].uses : d \in S}
          /\ {m.name : m \in M} = {lib.comps[d].name : d \in S}
      BY <3>1
    <3> QED BY <3>2
  <2> HIDE DEF Last, Group
  <2> QED BY <2>4, <2>6 DEF SetOf, Found
<1>5. contract_index(lib)
        = [k \in {Key(g) : g \in Groups(lib)} |-> SetOf(lib, Last(k))]
  BY DEF contract_index
<1> HIDE DEF Key, Last
<1> QED BY <1>3, <1>4, <1>5

\* What a user sees at each spot is what is found there ...
LEMMA SeenIsFound ==
  ASSUME WordsAssumption, NEW lib, Orderly(lib), NEW kind, NEW p, NEW v
  PROVE  /\ <<kind, p, "set", 0>> \in Sets(lib) <=> <<kind, p>> \in Spots(lib)
         /\ <<kind, p, "name", v>> \in Sets(lib)
              <=> v \in Found(lib, <<kind, p>>).variantNames
         /\ <<kind, p, "axis", v>> \in Sets(lib)
              <=> v \in Found(lib, <<kind, p>>).exposedProperties
         /\ <<kind, p, "token", v>> \in Sets(lib)
              <=> v \in Found(lib, <<kind, p>>).tokensUsed
<1>1. \A e : e \in Sets(lib)
               <=> \E c \in Present(lib) : e \in Seen(lib.comps[c])
  BY DEF Sets
<1>2. ASSUME NEW c \in Present(lib)
      PROVE  LET t == lib.comps[c]
                 here == Spot(lib, c) = <<kind, p>> IN
             /\ <<kind, p, "set", 0>> \in Seen(t) <=> here
             /\ <<kind, p, "name", v>> \in Seen(t) <=> here /\ v = t.name
             /\ <<kind, p, "axis", v>> \in Seen(t) <=> here /\ v \in t.axes
             /\ <<kind, p, "token", v>> \in Seen(t) <=> here /\ v \in t.uses
  BY DEF Seen, Spot
<1> QED BY <1>1, <1>2 DEF Spots, Spotted, Found

\* ... and nothing else.
LEMMA SeenKinds ==
  ASSUME NEW lib, NEW e \in Sets(lib)
  PROVE  /\ e = <<e[1], e[2], e[3], e[4]>>
         /\ e[1] \in {"first-class", "legacy"} /\ <<e[1], e[2]>> \in Spots(lib)
         /\ e[3] \in {"set", "name", "axis", "token"} /\ (e[3] = "set" => e[4] = 0)
<1>1. PICK c \in Present(lib) : e \in Seen(lib.comps[c])
  BY DEF Sets
<1> DEFINE t == lib.comps[c]
           kind == KindOf(t)
<1>2. kind \in {"first-class", "legacy"} /\ <<kind, t.path>> \in Spots(lib)
  BY DEF KindOf, Spots, Spot
<1>3. \/ e = <<kind, t.path, "set", 0>> \/ e = <<kind, t.path, "name", t.name>>
      \/ \E x \in t.axes : e = <<kind, t.path, "axis", x>>
      \/ \E x \in t.uses : e = <<kind, t.path, "token", x>>
  BY <1>1 DEF Seen
<1> HIDE DEF t, kind
<1> QED BY <1>2, <1>3

LEMMA SeenAt ==
  ASSUME NEW lib, NEW kind, NEW p, NEW w, NEW v, <<kind, p, w, v>> \in Sets(lib)
  PROVE  /\ kind \in {"first-class", "legacy"} /\ <<kind, p>> \in Spots(lib)
         /\ w \in {"set", "name", "axis", "token"} /\ (w = "set" => v = 0)
<1> DEFINE e == <<kind, p, w, v>>
<1>1. e[1] = kind /\ e[2] = p /\ e[3] = w /\ e[4] = v
  OBVIOUS
<1>2. e \in Sets(lib)
  OBVIOUS
<1> HIDE DEF e
<1> QED BY <1>1, <1>2, SeenKinds

\* At p there is one set and it is of that kind.
Only(lib, kind, p) == \A k \in {"first-class", "legacy"} : <<k, p>> \in Spots(lib) <=> k = kind

\* The kinds that are seen at p are those of the sets there.
LEMMA KindsAt ==
  ASSUME WordsAssumption, NEW lib, Orderly(lib), NEW p, NEW kind
  PROVE  kind \in KindsOf(lib, p)
           <=> kind \in {"first-class", "legacy"} /\ <<kind, p>> \in Spots(lib)
<1>1. ASSUME kind \in KindsOf(lib, p)
      PROVE  kind \in {"first-class", "legacy"} /\ <<kind, p>> \in Spots(lib)
  <2>1. PICK e \in Sets(lib) : e[2] = p /\ e[1] = kind
    BY <1>1 DEF KindsOf
  <2> QED BY <2>1, SeenKinds
<1>2. ASSUME <<kind, p>> \in Spots(lib)
      PROVE  kind \in KindsOf(lib, p)
  <2>1. <<kind, p, "set", 0>> \in Sets(lib)
    BY <1>2, SeenIsFound
  <2> QED BY <2>1 DEF KindsOf
<1> QED BY <1>1, <1>2

\* diff_contracts takes for migrated what a user saw migrate.
LEMMA SwitchedIsMigrated ==
  ASSUME WordsAssumption, Orderly(before), Orderly(after)
  PROVE  /\ Switched(contract_index(before), contract_index(after))
              = Migrated
         /\ \A p \in Migrated : Only(before, "legacy", p) /\ Only(after, "first-class", p)
<1> DEFINE b == contract_index(before)
           a == contract_index(after)
<1>1. /\ b = [k \in Spots(before) |-> Found(before, k)]
      /\ a = [k \in Spots(after) |-> Found(after, k)]
  BY IndexIsFound
<1>2. ASSUME NEW p \in Words
      PROVE  /\ KindsOf(before, p) = {"legacy"} <=> Only(before, "legacy", p)
             /\ KindsOf(after, p) = {"first-class"} <=> Only(after, "first-class", p)
  <2>1. \A kind : /\ kind \in KindsOf(before, p)
                       <=> kind \in {"first-class", "legacy"} /\ <<kind, p>> \in Spots(before)
                  /\ kind \in KindsOf(after, p)
                       <=> kind \in {"first-class", "legacy"} /\ <<kind, p>> \in Spots(after)
    BY KindsAt
  <2> QED BY <2>1 DEF Only
<1>3. ASSUME NEW p \in Words, Only(before, "legacy", p)
      PROVE  Undeclared(before, p)
               <=> Found(before, <<"legacy", p>>).exposedProperties = {}
  <2>1. ASSUME NEW e \in Sets(before), e[2] = p, e[3] = "axis"
        PROVE  e[4] \in Found(before, <<"legacy", p>>).exposedProperties
    <3>1. e = <<e[1], p, "axis", e[4]>> /\ e[1] = "legacy"
      BY <1>3, <2>1, SeenKinds DEF Only
    <3>2. <<"legacy", p, "axis", e[4]>> \in Sets(before)
      BY <2>1, <3>1
    <3> QED BY <3>2, SeenIsFound
  <2>2. ASSUME NEW v \in Found(before, <<"legacy", p>>).exposedProperties
        PROVE  ~Undeclared(before, p)
    <3>1. <<"legacy", p, "axis", v>> \in Sets(before)
      BY SeenIsFound
    <3> QED BY <3>1 DEF Undeclared
  <2> QED BY <2>1, <2>2 DEF Undeclared
<1>4. \A p \in Words : p \in Migrated
        <=> /\ Only(before, "legacy", p) /\ Only(after, "first-class", p)
            /\ Found(before, <<"legacy", p>>).exposedProperties = {}
  BY <1>2, <1>3 DEF Migrated
<1>5. \A p \in Words : p \in Switched(b, a)
        <=> /\ Only(before, "legacy", p) /\ Only(after, "first-class", p)
            /\ Found(before, <<"legacy", p>>).exposedProperties = {}
  <2> HIDE DEF b, a
  <2> QED BY <1>1 DEF Switched, Only
<1>6. Migrated \subseteq Words /\ Switched(b, a) \subseteq Words
  BY DEF Migrated, Switched
<1> HIDE DEF b, a
<1>7. Switched(b, a) = Migrated
  BY <1>4, <1>5, <1>6
<1> QED BY <1>4, <1>6, <1>7 DEF b, a

\* What a user sees of a library, with the migrated sets as they were before.
LEMMA ViewElsewhere ==
  ASSUME NEW lib, NEW k, NEW p, p \notin Migrated, NEW w, NEW v
  PROVE  <<k, p, w, v>> \in View(lib) <=> <<k, p, w, v>> \in Sets(lib)
<1> DEFINE Drawn(e) == <<IF e[2] \in Migrated THEN "legacy" ELSE e[1], e[2], e[3], e[4]>>
           Plain(e) == e[2] \notin Migrated \/ e[3] # "axis"
<1>1. \A f : f \in View(lib)
               <=> \E e \in Sets(lib) : Plain(e) /\ f = Drawn(e)
  BY DEF View
<1>2. \A e \in Sets(lib) : e = <<e[1], e[2], e[3], e[4]>>
  BY SeenKinds
<1>3. ASSUME NEW e \in Sets(lib), <<k, p, w, v>> = Drawn(e)
      PROVE  <<k, p, w, v>> = e
  BY <1>2, <1>3
<1>4. Plain(<<k, p, w, v>>) /\ <<k, p, w, v>> = Drawn(<<k, p, w, v>>)
  OBVIOUS
<1> HIDE DEF Plain, Drawn
<1> QED BY <1>1, <1>3, <1>4

LEMMA ViewAt ==
  ASSUME NEW lib, NEW K \in {"first-class", "legacy"}, NEW p \in Migrated,
         Only(lib, K, p), NEW k, NEW w, NEW v
  PROVE  <<k, p, w, v>> \in View(lib)
           <=> k = "legacy" /\ w # "axis" /\ <<K, p, w, v>> \in Sets(lib)
<1> DEFINE Drawn(e) == <<IF e[2] \in Migrated THEN "legacy" ELSE e[1], e[2], e[3], e[4]>>
           Plain(e) == e[2] \notin Migrated \/ e[3] # "axis"
<1>1. \A f : f \in View(lib)
               <=> \E e \in Sets(lib) : Plain(e) /\ f = Drawn(e)
  BY DEF View
<1>2. \A e \in Sets(lib) :
        e = <<e[1], e[2], e[3], e[4]>> /\ (e[2] = p => e[1] = K)
  BY SeenKinds DEF Only
<1>3. ASSUME NEW e \in Sets(lib), Plain(e), <<k, p, w, v>> = Drawn(e)
      PROVE  k = "legacy" /\ w # "axis" /\ <<K, p, w, v>> = e
  BY <1>2, <1>3
<1>4. w # "axis" => Plain(<<K, p, w, v>>) /\ <<"legacy", p, w, v>> = Drawn(<<K, p, w, v>>)
  OBVIOUS
<1> HIDE DEF Plain, Drawn
<1> QED BY <1>1, <1>3, <1>4

\* What set r has and set s has not, where axes count and where they do not.
LessBare(r, s) == \/ r.variantNames \ s.variantNames # {}
                  \/ r.tokensUsed \ s.tokensUsed # {}
Less(r, s) == LessBare(r, s) \/ r.exposedProperties \ s.exposedProperties # {}

\* Between indexes b and a something is less: a set that was of kind K and is
\* now of kind L, or one that did not change kinds, or there is one no more.
Shrunk(b, a, K, L) ==
  \/ \E p \in Migrated : LessBare(b[<<K, p>>], a[<<L, p>>])
  \/ \E k \in DOMAIN b : k[2] \notin Migrated /\ (k \notin DOMAIN a \/ Less(b[k], a[k]))

\* That is so where a user misses something.
LEMMA ShrunkIsMissed ==
  ASSUME WordsAssumption, NEW x, Orderly(x), NEW y, Orderly(y),
         NEW K \in {"first-class", "legacy"}, \A p \in Migrated : Only(x, K, p),
         NEW L \in {"first-class", "legacy"}, \A p \in Migrated : Only(y, L, p)
  PROVE  View(x) \ View(y) # {}
           <=> Shrunk(contract_index(x), contract_index(y), K, L)
<1> DEFINE b == contract_index(x)
           a == contract_index(y)
           Missed == View(x) \ View(y)
<1>1. /\ b = [k \in Spots(x) |-> Found(x, k)]
      /\ a = [k \in Spots(y) |-> Found(y, k)]
  BY IndexIsFound
<1> HIDE DEF b, a
<1>2. \A k \in Spots(x) : k = <<k[1], k[2]>>
  BY DEF Spots, Spot
<1>3. ASSUME NEW p \in Migrated
      PROVE  LessBare(b[<<K, p>>], a[<<L, p>>]) <=> \E w, v : <<"legacy", p, w, v>> \in Missed
  <2>1. b[<<K, p>>] = Found(x, <<K, p>>) /\ a[<<L, p>>] = Found(y, <<L, p>>)
    BY <1>1 DEF Only
  <2>2. \A w, v : <<"legacy", p, w, v>> \in Missed
          <=> /\ w # "axis" /\ <<K, p, w, v>> \in Sets(x)
              /\ <<L, p, w, v>> \notin Sets(y)
    BY ViewAt
  <2>3. ASSUME NEW w, NEW v, <<"legacy", p, w, v>> \in Missed
        PROVE  LessBare(b[<<K, p>>], a[<<L, p>>])
    <3>1. <<K, p, w, v>> \in Sets(x) /\ w # "axis"
      BY <2>2, <2>3
    <3>2. w \in {"name", "token"}
      <4>1. w \in {"set", "name", "token"} /\ (w = "set" => v = 0)
        BY <3>1, SeenAt
      <4>2. <<L, p, "set", 0>> \in Sets(y)
        BY SeenIsFound DEF Only
      <4> QED BY <2>2, <2>3, <4>1, <4>2
    <3>3. CASE w = "name"
      <4>1. v \in Found(x, <<K, p>>).variantNames /\ v \notin Found(y, <<L, p>>).variantNames
        BY <2>2, <2>3, <3>1, <3>3, SeenIsFound
      <4> QED BY <2>1, <4>1 DEF LessBare
    <3>4. CASE w = "token"
      <4>1. v \in Found(x, <<K, p>>).tokensUsed /\ v \notin Found(y, <<L, p>>).tokensUsed
        BY <2>2, <2>3, <3>1, <3>4, SeenIsFound
      <4> QED BY <2>1, <4>1 DEF LessBare
    <3> QED BY <3>2, <3>3, <3>4
  <2>4. ASSUME NEW v \in Found(x, <<K, p>>).variantNames \ Found(y, <<L, p>>).variantNames
        PROVE  <<"legacy", p, "name", v>> \in Missed
    BY <2>2, SeenIsFound
  <2>5. ASSUME NEW v \in Found(x, <<K, p>>).tokensUsed \ Found(y, <<L, p>>).tokensUsed
        PROVE  <<"legacy", p, "token", v>> \in Missed
    BY <2>2, SeenIsFound
  <2> HIDE DEF Missed
  <2> QED BY <2>1, <2>3, <2>4, <2>5 DEF LessBare
<1>4. ASSUME NEW kind, NEW p, p \notin Migrated, NEW w, NEW v
      PROVE  <<kind, p, w, v>> \in Missed
               <=> /\ <<kind, p, w, v>> \in Sets(x)
                   /\ <<kind, p, w, v>> \notin Sets(y)
  BY <1>4, ViewElsewhere
<1>5. ASSUME NEW k \in Spots(x), k[2] \notin Migrated
      PROVE  k \notin Spots(y) \/ Less(b[k], a[k])
               <=> \E w, v : <<k[1], k[2], w, v>> \in Missed
  <2>1. b[k] = Found(x, k) /\ (k \in Spots(y) => a[k] = Found(y, k))
    BY <1>1
  <2>2. \A w, v : <<k[1], k[2], w, v>> \in Missed
          <=> /\ <<k[1], k[2], w, v>> \in Sets(x)
              /\ <<k[1], k[2], w, v>> \notin Sets(y)
    BY <1>5, <1>4
  <2>3. \A v : /\ <<k[1], k[2], "set", 0>> \in Missed <=> k \notin Spots(y)
               /\ <<k[1], k[2], "name", v>> \in Missed
                    <=> v \in Found(x, k).variantNames \ Found(y, k).variantNames
               /\ <<k[1], k[2], "axis", v>> \in Missed
                    <=> v \in Found(x, k).exposedProperties \ Found(y, k).exposedProperties
               /\ <<k[1], k[2], "token", v>> \in Missed
                    <=> v \in Found(x, k).tokensUsed \ Found(y, k).tokensUsed
    BY <1>2, <2>2, SeenIsFound
  <2>4. ASSUME NEW w, NEW v, <<k[1], k[2], w, v>> \in Missed
        PROVE  w \in {"set", "name", "axis", "token"} /\ (w = "set" => v = 0)
    <3>1. <<k[1], k[2], w, v>> \in Sets(x)
      BY <2>2, <2>4
    <3> QED BY <3>1, SeenAt
  <2> HIDE DEF Missed
  <2>5. k \in Spots(y) => (Less(b[k], a[k]) <=> \E w, v : <<k[1], k[2], w, v>> \in Missed)
    BY <2>1, <2>3, <2>4 DEF Less, LessBare
  <2> QED BY <2>3, <2>5
<1>6. ASSUME NEW e \in Missed
      PROVE  /\ e = <<e[1], e[2], e[3], e[4]>>
             /\ e[2] \in Migrated => e[1] = "legacy"
             /\ e[2] \notin Migrated => <<e[1], e[2]>> \in Spots(x)
  <2>1. PICK f \in Sets(x) :
          e = <<IF f[2] \in Migrated THEN "legacy" ELSE f[1], f[2], f[3], f[4]>>
    BY DEF View
  <2> QED BY <2>1, SeenKinds
<1> HIDE DEF Missed
<1>7. DOMAIN b = Spots(x) /\ DOMAIN a = Spots(y)
  BY <1>1
<1>8. ASSUME NEW e \in Missed
      PROVE  Shrunk(b, a, K, L)
  <2>1. CASE e[2] \in Migrated
    <3>1. <<"legacy", e[2], e[3], e[4]>> \in Missed
      BY <1>6, <2>1
    <3> QED BY <1>3, <2>1, <3>1 DEF Shrunk
  <2>2. CASE e[2] \notin Migrated
    <3> DEFINE k == <<e[1], e[2]>>
    <3>1. k \in Spots(x) /\ k[2] \notin Migrated /\ <<k[1], k[2], e[3], e[4]>> \in Missed
      BY <1>6, <2>2
    <3> HIDE DEF k
    <3> QED BY <1>5, <1>7, <3>1 DEF Shrunk
  <2> QED BY <2>1, <2>2
<1>9. Shrunk(b, a, K, L) => Missed # {}
  BY <1>3, <1>5, <1>7 DEF Shrunk
<1> QED BY <1>8, <1>9 DEF Missed, b, a

\* The highest rank there is among the bumps.
LEMMA MaxBump ==
  ASSUME NEW B
  PROVE  /\ max_bump(B) = "major" <=> "major" \in B
         /\ "major" \notin B => (max_bump(B) = "minor" <=> "minor" \in B)
         /\ "major" \notin B /\ "minor" \notin B =>
              max_bump(B) = IF "migration" \in B THEN "migration" ELSE "patch"
BY DEF max_bump

\* What a field says of it.
LEMMA FieldBump ==
  ASSUME NEW r, NEW s
  PROVE  classify_field(r, s)
           = IF r \ s # {} THEN "major" ELSE IF s \ r # {} THEN "minor" ELSE "patch"
BY DEF classify_field

\* What a set says of it that keeps its kind, and what one that migrates.
LEMMA SetBump ==
  ASSUME NEW r, NEW s
  PROVE  /\ diff_normal(r, s)
              = IF Less(r, s) THEN "major" ELSE IF Less(s, r) THEN "minor" ELSE "patch"
         /\ diff_migration(r, s)
              = IF LessBare(r, s) THEN "major" ELSE IF LessBare(s, r) THEN "minor" ELSE "migration"
<1> DEFINE names == classify_field(r.variantNames, s.variantNames)
           axes  == classify_field(r.exposedProperties, s.exposedProperties)
           uses  == classify_field(r.tokensUsed, s.tokensUsed)
<1>1. \A f, h : classify_field(f, h)
                  = IF f \ h # {} THEN "major" ELSE IF h \ f # {} THEN "minor" ELSE "patch"
  BY FieldBump
<1>2. /\ diff_normal(r, s) = max_bump({names, axes, uses})
      /\ diff_migration(r, s) = max_bump({names, uses, "migration"})
  BY DEF diff_normal, diff_migration
<1>3. /\ names = "major" <=> r.variantNames \ s.variantNames # {}
      /\ axes = "major" <=> r.exposedProperties \ s.exposedProperties # {}
      /\ uses = "major" <=> r.tokensUsed \ s.tokensUsed # {}
      /\ names # "major" => names = IF s.variantNames \ r.variantNames # {} THEN "minor" ELSE "patch"
      /\ axes # "major" => axes = IF s.exposedProperties \ r.exposedProperties # {}
                                  THEN "minor" ELSE "patch"
      /\ uses # "major" => uses = IF s.tokensUsed \ r.tokensUsed # {} THEN "minor" ELSE "patch"
  BY <1>1
<1> HIDE DEF names, axes, uses
<1>4. max_bump({names, axes, uses})
        = IF Less(r, s) THEN "major" ELSE IF Less(s, r) THEN "minor" ELSE "patch"
  BY <1>3, MaxBump DEF Less, LessBare
<1>5. max_bump({names, uses, "migration"})
        = IF LessBare(r, s) THEN "major" ELSE IF LessBare(s, r) THEN "minor" ELSE "migration"
  BY <1>3, MaxBump DEF LessBare
<1> QED BY <1>2, <1>4, <1>5

\* What all the sets say of it, where the migrated ones are known as such.
LEMMA SetsBump ==
  ASSUME NEW b, NEW a, Switched(b, a) = Migrated
  PROVE  LET D == diff_sets(b, a) IN
         /\ "major" \in D <=> Shrunk(b, a, "legacy", "first-class")
         /\ "major" \notin D => ("minor" \in D <=> Shrunk(a, b, "first-class", "legacy"))
         /\ "major" \notin D /\ "minor" \notin D =>
              ("migration" \in D <=> Migrated # {})
<1> DEFINE P == Migrated
           K == {k \in DOMAIN b \cup DOMAIN a : k[2] \notin P}
           Moved(p) == diff_migration(b[<<"legacy", p>>], a[<<"first-class", p>>])
           Stayed(k) == IF k \notin DOMAIN a THEN "major" ELSE IF k \notin DOMAIN b THEN "minor"
                        ELSE diff_normal(b[k], a[k])
           D == diff_sets(b, a)
<1>1. D = {Moved(p) : p \in P} \cup {Stayed(k) : k \in K}
  BY DEF diff_sets
<1>2. \A p \in P :
        LET r == b[<<"legacy", p>>]  s == a[<<"first-class", p>>] IN
        Moved(p) = IF LessBare(r, s) THEN "major"
                   ELSE IF LessBare(s, r) THEN "minor" ELSE "migration"
  BY SetBump
<1>3. \A k \in K :
        Stayed(k) = IF k \notin DOMAIN a \/ (k \in DOMAIN b /\ Less(b[k], a[k])) THEN "major"
                    ELSE IF k \notin DOMAIN b \/ Less(a[k], b[k]) THEN "minor" ELSE "patch"
  BY SetBump
<1>4. \A k \in K : k \notin DOMAIN a => k \in DOMAIN b
  OBVIOUS
<1>5. \A x : x \in D <=> (\E p \in P : x = Moved(p)) \/ (\E k \in K : x = Stayed(k))
  BY <1>1
<1>6. \A k : k \in K <=> (k \in DOMAIN b \/ k \in DOMAIN a) /\ k[2] \notin P
  OBVIOUS
<1>7. /\ Shrunk(b, a, "legacy", "first-class")
           <=> \/ \E p \in P : LessBare(b[<<"legacy", p>>], a[<<"first-class", p>>])
               \/ \E k \in K : k \in DOMAIN b /\ (k \notin DOMAIN a \/ Less(b[k], a[k]))
      /\ Shrunk(a, b, "first-class", "legacy")
           <=> \/ \E p \in P : LessBare(a[<<"first-class", p>>], b[<<"legacy", p>>])
               \/ \E k \in K : k \in DOMAIN a /\ (k \notin DOMAIN b \/ Less(a[k], b[k]))
  BY DEF Shrunk
<1> HIDE DEF K, Moved, Stayed, D, P
<1>8. "major" \in D <=> Shrunk(b, a, "legacy", "first-class")
  <2>1. \A p \in P : Moved(p) = "major" <=> LessBare(b[<<"legacy", p>>], a[<<"first-class", p>>])
    BY <1>2
  <2>2. \A k \in K : Stayed(k) = "major"
                       <=> k \in DOMAIN b /\ (k \notin DOMAIN a \/ Less(b[k], a[k]))
    BY <1>3, <1>4
  <2> QED BY <1>5, <1>7, <2>1, <2>2
<1>9. ASSUME "major" \notin D
      PROVE  "minor" \in D <=> Shrunk(a, b, "first-class", "legacy")
  <2>1. /\ \A p \in P : Moved(p) # "major"
        /\ \A k \in K : Stayed(k) # "major"
    BY <1>5, <1>9
  <2>2. \A p \in P : Moved(p) = "minor" <=> LessBare(a[<<"first-class", p>>], b[<<"legacy", p>>])
    BY <1>2, <2>1
  <2>3. \A k \in K : Stayed(k) = "minor"
                       <=> k \in DOMAIN a /\ (k \notin DOMAIN b \/ Less(a[k], b[k]))
    BY <1>3, <1>6, <2>1
  <2> QED BY <1>5, <1>7, <2>2, <2>3
<1>10. ASSUME "major" \notin D, "minor" \notin D
       PROVE  "migration" \in D <=> P # {}
  <2>1. \A p \in P : Moved(p) = "migration"
    BY <1>2, <1>5, <1>10
  <2>2. \A k \in K : Stayed(k) # "migration"
    BY <1>3
  <2> QED BY <1>5, <2>1, <2>2
<1> QED BY <1>8, <1>9, <1>10 DEF D, P

\* What a change leaves: a library, and one path per variant container.
Proper(lib) == lib \in Library /\ OnePath(lib)

\* Components, and the paths of containers, decide that.
LEMMA KeptByComps ==
  ASSUME NEW lib, Proper(lib), NEW new,
         new = [lib EXCEPT !.comps = new.comps],
         \A c \in Comps : new.comps[c] \in Component \cup {Absent},
         new.comps = [c \in Comps |-> new.comps[c]],
         \A c, d \in Present(new) :
           new.comps[c].variant # 0 /\ new.comps[d].variant = new.comps[c].variant
             => new.comps[d].path = new.comps[c].path
  PROVE  Proper(new)
<1>1. new.comps \in [Comps -> Component \cup {Absent}]
  OBVIOUS
<1>2. new \in Library
  BY <1>1 DEF Proper, Library
<1> QED BY <1>2 DEF Proper, OnePath

\* An edit of one component that leaves it its path and its container, if any.
LEMMA OneEdited ==
  ASSUME NEW lib, Proper(lib), NEW c \in Comps, NEW t \in Component \cup {Absent},
         t # Absent => \/ t.variant = 0
                     \/ /\ c \in Present(lib)
                        /\ t.variant = lib.comps[c].variant /\ t.path = lib.comps[c].path
  PROVE  Proper([lib EXCEPT !.comps[c] = t])
<1> DEFINE new == [lib EXCEPT !.comps[c] = t]
<1>1. /\ lib \in Library
      /\ lib.comps \in [Comps -> Component \cup {Absent}]
  BY DEF Proper, Library
<1>2. new.comps = [lib.comps EXCEPT ![c] = t] /\ new = [lib EXCEPT !.comps = new.comps]
  BY <1>1 DEF Library
<1>3. \A d \in Comps : new.comps[d] = IF d = c THEN t ELSE lib.comps[d]
  BY <1>1, <1>2
<1>4. new.comps = [d \in Comps |-> new.comps[d]]
  BY <1>1, <1>2
<1> HIDE DEF new
<1>5. \A d \in Present(new) : d # c => d \in Present(lib)
  BY <1>3 DEF Present
<1>6. \A d, e \in Present(new) :
        new.comps[d].variant # 0 /\ new.comps[e].variant = new.comps[d].variant
          => new.comps[e].path = new.comps[d].path
  BY <1>3, <1>5 DEF Proper, OnePath, Present
<1>7. \A d \in Comps : new.comps[d] \in Component \cup {Absent}
  BY <1>1, <1>3
<1> QED BY <1>2, <1>4, <1>6, <1>7, KeptByComps DEF new

\* An edit of several, which the reader of a library sees by its components.
LEMMA AllEdited ==
  ASSUME NEW lib, Proper(lib), NEW f \in [Comps -> Component \cup {Absent}],
         \A c, d \in Comps :
           f[c] # Absent /\ f[d] # Absent /\ f[c].variant # 0 /\ f[d].variant = f[c].variant
             => f[d].path = f[c].path
  PROVE  Proper([lib EXCEPT !.comps = f])
<1> DEFINE new == [lib EXCEPT !.comps = f]
<1>1. new.comps = f /\ new = [lib EXCEPT !.comps = new.comps]
  BY DEF Proper, Library
<1> HIDE DEF new
<1>2. \A c, d \in Present(new) :
        new.comps[c].variant # 0 /\ new.comps[d].variant = new.comps[c].variant
          => new.comps[d].path = new.comps[c].path
  BY <1>1 DEF Present
<1> QED BY <1>1, <1>2, KeptByComps DEF new

\* Edits of one component.
LEMMA EditsOfOne ==
  ASSUME Proper(after), NEW c \in Comps,
         Add(c) \/ Drop(c) \/ Rename(c) \/ EditAxes(c)
           \/ Apply(c)
  PROVE  Proper(after')
<1> DEFINE t == after.comps[c]
<1>1. c \in Present(after) => t \in Component
  BY DEF Proper, Library, Present
<1>2. CASE Add(c)
  <2>1. PICK n \in Words, p \in Words \cup {0} :
          after' = [after EXCEPT !.comps[c] = [name |-> n, path |-> p, variant |-> 0,
                                               axes |-> {}, uses |-> {}]]
    BY <1>2 DEF Add, Change
  <2> DEFINE u == [name |-> n, path |-> p, variant |-> 0, axes |-> {}, uses |-> {}]
  <2>2. u \in Component /\ u.variant = 0
    BY DEF Component
  <2> HIDE DEF u
  <2>3. Proper([after EXCEPT !.comps[c] = u])
    BY <2>2, OneEdited
  <2> QED BY <2>1, <2>3 DEF u
<1>3. CASE Drop(c)
  BY <1>3, OneEdited DEF Drop, Change
<1>4. ASSUME NEW u \in Component, u.variant = t.variant, u.path = t.path,
             c \in Present(after)
      PROVE  Proper([after EXCEPT !.comps[c] = u])
  BY <1>4, OneEdited
<1>5. CASE Rename(c)
  <2>1. PICK n \in Words : after' = [after EXCEPT !.comps[c].name = n]
    BY <1>5 DEF Rename, Change
  <2>2. c \in Present(after)
    BY <1>5 DEF Rename
  <2> DEFINE u == [t EXCEPT !.name = n]
  <2>3. u \in Component /\ u.variant = t.variant /\ u.path = t.path
    BY <1>1, <2>2 DEF Component
  <2>4. after' = [after EXCEPT !.comps[c] = u]
    BY <2>1
  <2> HIDE DEF u, t
  <2> QED BY <1>4, <2>2, <2>3, <2>4
<1>6. CASE EditAxes(c)
  <2>1. PICK A \in SUBSET Axes : after' = [after EXCEPT !.comps[c].axes = A]
    BY <1>6 DEF EditAxes, Change
  <2>2. c \in Present(after)
    BY <1>6 DEF EditAxes
  <2> DEFINE u == [t EXCEPT !.axes = A]
  <2>3. u \in Component /\ u.variant = t.variant /\ u.path = t.path
    BY <1>1, <2>2 DEF Component
  <2>4. after' = [after EXCEPT !.comps[c] = u]
    BY <2>1
  <2> HIDE DEF u, t
  <2> QED BY <1>4, <2>2, <2>3, <2>4
<1>7. CASE Apply(c)
  <2>1. PICK U \in SUBSET Tokens : after' = [after EXCEPT !.comps[c].uses = U]
    BY <1>7 DEF Apply, Change
  <2>2. c \in Present(after)
    BY <1>7 DEF Apply
  <2> DEFINE u == [t EXCEPT !.uses = U]
  <2>3. u \in Component /\ u.variant = t.variant /\ u.path = t.path
    BY <1>1, <2>2 DEF Component
  <2>4. after' = [after EXCEPT !.comps[c] = u]
    BY <2>1
  <2> HIDE DEF u, t
  <2> QED BY <1>4, <2>2, <2>3, <2>4
<1> QED BY <1>2, <1>3, <1>5, <1>6, <1>7

\* Edits of several, and of what the library exports.
LEMMA EditsOfMany ==
  ASSUME Proper(after),
         \/ \E c \in Comps : Regroup(c)
         \/ \E p \in Words \cup {0}, v \in Variants : Combine(p, v)
         \/ \E v \in Variants : Uncombine(v)
         \/ EditExports \/ Reimport
  PROVE  Proper(after')
<1> DEFINE Old(c) == after.comps[c]
<1>1. /\ after \in Library
      /\ \A c \in Comps : Old(c) \in Component \cup {Absent}
      /\ \A c \in Comps : c \in Present(after) <=> Old(c) # Absent
  BY DEF Proper, Library, Present
<1>2. \A c, d \in Present(after) :
        Old(c).variant # 0 /\ Old(d).variant = Old(c).variant => Old(d).path = Old(c).path
  BY DEF Proper, OnePath
<1>3. ASSUME NEW c \in Comps, Regroup(c)
      PROVE  Proper(after')
  <2> DEFINE With(d) == d = c \/ (d \in Present(after) /\ Old(c).variant # 0
                                    /\ Old(d).variant = Old(c).variant)
  <2>1. c \in Present(after)
    BY <1>3 DEF Regroup
  <2>2. PICK p \in Words \cup {0} :
          after' = [after EXCEPT !.comps =
                      [d \in Comps |-> IF With(d) THEN [Old(d) EXCEPT !.path = p] ELSE Old(d)]]
    BY <1>3 DEF Regroup, Change
  <2> DEFINE new(d) == IF With(d) THEN [Old(d) EXCEPT !.path = p] ELSE Old(d)
             f == [d \in Comps |-> new(d)]
  <2>3. \A d \in Comps : With(d) => d \in Present(after) /\ Old(d) \in Component
    BY <1>1, <2>1
  <2>4. \A d \in Comps : With(d) =>
          /\ new(d) \in Component
          /\ new(d).path = p /\ new(d).variant = Old(d).variant
    BY <2>3 DEF Component
  <2>5. \A d \in Comps : ~With(d) => new(d) = Old(d)
    OBVIOUS
  <2>6. \A d, e \in Comps : /\ d \in Present(after) /\ e \in Present(after)
                            /\ Old(d).variant # 0 /\ Old(e).variant = Old(d).variant
                            => (With(d) <=> With(e))
    OBVIOUS
  <2>7. \A d \in Comps : f[d] = new(d)
    OBVIOUS
  <2> HIDE DEF With, new, Old
  <2>8. f \in [Comps -> Component \cup {Absent}]
    BY <1>1, <2>4, <2>5
  <2>9. \A d, e \in Comps :
          f[d] # Absent /\ f[e] # Absent /\ f[d].variant # 0 /\ f[e].variant = f[d].variant
            => f[e].path = f[d].path
    BY <1>1, <1>2, <2>3, <2>4, <2>5, <2>6, <2>7
  <2> HIDE DEF f
  <2>10. Proper([after EXCEPT !.comps = f])
    BY <2>8, <2>9, AllEdited
  <2> QED BY <2>2, <2>10 DEF f, new, Old, With
<1>4. ASSUME NEW p \in Words \cup {0}, NEW v \in Variants, Combine(p, v)
      PROVE  Proper(after')
  <2> DEFINE G == {c \in Present(after) : Old(c).path = p /\ Old(c).variant = 0}
  <2>1. \A c \in Present(after) : Old(c).variant # v
    BY <1>4 DEF Combine
  <2>2. PICK A \in SUBSET Axes :
          after' = [after EXCEPT !.comps =
             [c \in Comps |->
                IF c \in G THEN [Old(c) EXCEPT !.variant = v, !.axes = A] ELSE Old(c)]]
    BY <1>4 DEF Combine, Change
  <2> DEFINE new(c) == IF c \in G THEN [Old(c) EXCEPT !.variant = v, !.axes = A] ELSE Old(c)
             f == [c \in Comps |-> new(c)]
  <2>3. \A c \in Comps : c \in G => Old(c) \in Component /\ Old(c).path = p
    BY <1>1
  <2>4. \A c \in Comps : c \in G =>
          new(c) \in Component /\ new(c).path = p /\ new(c).variant = v
    BY <2>3 DEF Component
  <2>5. \A c \in Comps : c \notin G => new(c) = Old(c)
    OBVIOUS
  <2>6. \A c \in Comps : f[c] = new(c)
    OBVIOUS
  <2> HIDE DEF G, new, Old
  <2>7. f \in [Comps -> Component \cup {Absent}]
    BY <1>1, <2>4, <2>5
  <2>8. \A c, d \in Comps :
          f[c] # Absent /\ f[d] # Absent /\ f[c].variant # 0 /\ f[d].variant = f[c].variant
            => f[d].path = f[c].path
    BY <1>1, <1>2, <2>1, <2>4, <2>5, <2>6
  <2> HIDE DEF f
  <2>9. Proper([after EXCEPT !.comps = f])
    BY <2>7, <2>8, AllEdited
  <2> QED BY <2>2, <2>9 DEF f, new, Old, G
<1>5. ASSUME NEW v \in Variants, Uncombine(v)
      PROVE  Proper(after')
  <2> DEFINE Out(c) == c \in Present(after) /\ Old(c).variant = v
             new(c) == IF Out(c) THEN [Old(c) EXCEPT !.variant = 0, !.axes = {}] ELSE Old(c)
             f == [c \in Comps |-> new(c)]
  <2>1. after' = [after EXCEPT !.comps = f]
    BY <1>5 DEF Uncombine, Change
  <2>2. \A c \in Comps : Out(c) => Old(c) \in Component
    BY <1>1
  <2>3. \A c \in Comps : Out(c) => new(c) \in Component /\ new(c).variant = 0
    BY <2>2 DEF Component
  <2>4. \A c \in Comps : ~Out(c) => new(c) = Old(c)
    OBVIOUS
  <2>5. \A c \in Comps : f[c] = new(c)
    OBVIOUS
  <2> HIDE DEF Out, new, Old
  <2>6. f \in [Comps -> Component \cup {Absent}]
    BY <1>1, <2>3, <2>4
  <2>7. \A c, d \in Comps :
          f[c] # Absent /\ f[d] # Absent /\ f[c].variant # 0 /\ f[d].variant = f[c].variant
            => f[d].path = f[c].path
    BY <1>1, <1>2, <2>3, <2>4, <2>5
  <2> HIDE DEF f
  <2> QED BY <2>1, <2>6, <2>7, AllEdited
<1>6. CASE EditExports
  <2>1. CASE \E C \in SUBSET Colours : Change([after EXCEPT !.colours = C])
    <3>1. /\ after' \in Library
          /\ after'.comps = after.comps
      BY <1>1, <2>1 DEF Change, Library
    <3> QED BY <3>1 DEF Proper, OnePath, Present
  <2>2. CASE \E t \in Tokens, ty \in Types \cup {0} :
               Change([after EXCEPT !.tokens[t] = ty])
    <3>1. /\ after' \in Library
          /\ after'.comps = after.comps
      BY <1>1, <2>2 DEF Change, Library
    <3> QED BY <3>1 DEF Proper, OnePath, Present
  <2> QED BY <1>6, <2>1, <2>2 DEF EditExports
<1>7. CASE Reimport
  <2> DEFINE InSet(c) == c \in Present(after) /\ Old(c).variant # 0
  <2>1. PICK g \in Bijection(Variants, Variants) :
          after' = [after EXCEPT !.comps =
             [c \in Comps |-> IF InSet(c) THEN [Old(c) EXCEPT !.variant = g[@]] ELSE Old(c)]]
    BY <1>7 DEF Reimport, Change
  <2>2. /\ g \in [Variants -> Variants]
        /\ \A v, w \in Variants : g[v] = g[w] => v = w
    BY DEF Bijection, Injection, IsInjective
  <2> DEFINE new(c) == IF InSet(c) THEN [Old(c) EXCEPT !.variant = g[Old(c).variant]] ELSE Old(c)
             f == [c \in Comps |-> new(c)]
  <2>3. \A c \in Comps : InSet(c) => Old(c) \in Component /\ Old(c).variant \in Variants
    BY <1>1 DEF Component
  <2>4. \A c \in Comps : InSet(c) => /\ new(c) \in Component
                                  /\ new(c).path = Old(c).path
                                  /\ new(c).variant = g[Old(c).variant]
    BY <2>2, <2>3 DEF Component
  <2>5. \A c \in Comps : ~InSet(c) => new(c) = Old(c)
    OBVIOUS
  <2>6. \A c \in Comps : f[c] = new(c)
    OBVIOUS
  <2>7. \A c \in Comps : ~InSet(c) /\ Old(c) # Absent => Old(c).variant = 0
    BY <1>1
  <2>8. \A c \in Comps : InSet(c) => c \in Present(after)
    OBVIOUS
  <2>9. after' = [after EXCEPT !.comps = f]
    BY <2>1
  <2> HIDE DEF InSet, new, Old
  <2>10. f \in [Comps -> Component \cup {Absent}]
    BY <1>1, <2>4, <2>5
  <2>11. ASSUME NEW c \in Comps, NEW d \in Comps,
                f[c] # Absent, f[d] # Absent, f[c].variant # 0, f[d].variant = f[c].variant
         PROVE  f[d].path = f[c].path
    <3>1. InSet(c)
      BY <2>5, <2>6, <2>7, <2>11
    <3>2. InSet(d)
      BY <2>5, <2>6, <2>7, <2>11
    <3>3. Old(c).variant = Old(d).variant
      BY <2>2, <2>3, <2>4, <2>6, <2>11, <3>1, <3>2
    <3>4. Old(c).variant # 0
      BY <3>1 DEF InSet
    <3> QED BY <1>2, <2>4, <2>6, <2>8, <3>1, <3>2, <3>3, <3>4
  <2> HIDE DEF f
  <2> QED BY <2>9, <2>10, <2>11, AllEdited
<1> QED BY <1>3, <1>4, <1>5, <1>6, <1>7

\* What an export of one library is not in another: colours or tokens.
LEMMA ExportsMissed ==
  ASSUME NEW x, NEW y
  PROVE  Exports(x) \ Exports(y) # {}
           <=> \/ x.colours \ y.colours # {}
               \/ token_strings(x) \ token_strings(y) # {}
<1>1. \A c, lib : <<"colour", c>> \in Exports(lib) <=> c \in lib.colours
  BY DEF Exports
<1>2. \A t, lib : <<"token", t>> \in Exports(lib)
                    <=> t \in token_strings(lib)
  BY DEF Exports
<1>3. \A e \in Exports(x) : \/ \E c \in x.colours : e = <<"colour", c>>
                            \/ \E t \in token_strings(x) : e = <<"token", t>>
  BY Zenon DEF Exports
<1>4. ASSUME NEW e \in Exports(x) \ Exports(y)
      PROVE  \/ x.colours \ y.colours # {}
             \/ token_strings(x) \ token_strings(y) # {}
  <2>1. ASSUME NEW c \in x.colours, e = <<"colour", c>>
        PROVE  c \notin y.colours
    BY <1>1, <1>4, <2>1
  <2>2. ASSUME NEW t \in token_strings(x), e = <<"token", t>>
        PROVE  t \notin token_strings(y)
    BY <1>2, <1>4, <2>2
  <2> QED BY <1>3, <2>1, <2>2
<1>5. \A c \in x.colours \ y.colours :
        <<"colour", c>> \in Exports(x) \ Exports(y)
  BY <1>1
<1>6. \A t \in token_strings(x) \ token_strings(y) :
        <<"token", t>> \in Exports(x) \ Exports(y)
  BY <1>2
<1> QED BY <1>4, <1>5, <1>6

\* Between tidy libraries the algorithm's label is the reference's.
LEMMA LabelFits ==
  ASSUME WordsAssumption, Orderly(before), Orderly(after)
  PROVE  diff_contracts(before, after) = Label
<1> DEFINE b == contract_index(before)
           a == contract_index(after)
           S == diff_sets(b, a)
           colours == classify_field(before.colours, after.colours)
           tokens  == classify_field(token_strings(before),
                                              token_strings(after))
           D == S \cup {colours, tokens}
           Missed == View(before) \ View(after)
           Gained == View(after) \ View(before)
           Out == Exports(before) \ Exports(after)
           In  == Exports(after) \ Exports(before)
<1>1. /\ Switched(b, a) = Migrated
      /\ \A p \in Migrated : Only(before, "legacy", p) /\ Only(after, "first-class", p)
  BY SwitchedIsMigrated
<1>2. /\ Missed # {} <=> Shrunk(b, a, "legacy", "first-class")
      /\ Gained # {} <=> Shrunk(a, b, "first-class", "legacy")
  BY <1>1, ShrunkIsMissed
<1>3. /\ "major" \in S <=> Missed # {}
      /\ "major" \notin S => ("minor" \in S <=> Gained # {})
      /\ "major" \notin S /\ "minor" \notin S => ("migration" \in S <=> Migrated # {})
  <2> HIDE DEF b, a, Missed, Gained
  <2> QED BY <1>1, <1>2, SetsBump
<1>4. /\ Out # {} <=> \/ before.colours \ after.colours # {}
                      \/ token_strings(before) \ token_strings(after) # {}
      /\ In # {} <=> \/ after.colours \ before.colours # {}
                     \/ token_strings(after) \ token_strings(before) # {}
  BY ExportsMissed
<1>5. /\ colours = "major" \/ tokens = "major" <=> Out # {}
      /\ colours # "major" /\ tokens # "major" =>
           (colours = "minor" \/ tokens = "minor" <=> In # {})
      /\ colours # "migration" /\ tokens # "migration"
  BY <1>4, FieldBump
<1>6. diff_contracts(before, after) = max_bump(D)
  BY DEF diff_contracts
<1>7. Label = IF Missed # {} \/ Out # {} THEN "major"
                       ELSE IF Gained # {} \/ In # {} THEN "minor"
                       ELSE IF Migrated # {} THEN "migration" ELSE "patch"
  BY DEF Label, Lost, Grown
<1>8. \A x : x \in D <=> x \in S \/ x = colours \/ x = tokens
  OBVIOUS
<1> HIDE DEF S, colours, tokens, D, Missed, Gained, Out, In
<1>9. CASE "major" \in D
  BY <1>3, <1>5, <1>6, <1>7, <1>8, <1>9, MaxBump
<1>10. CASE "major" \notin D /\ "minor" \in D
  BY <1>3, <1>5, <1>6, <1>7, <1>8, <1>10, MaxBump
<1>11. CASE "major" \notin D /\ "minor" \notin D
  BY <1>3, <1>5, <1>6, <1>7, <1>8, <1>11, MaxBump
<1> QED BY <1>9, <1>10, <1>11

\* "Migration", "minor", "major" mean what a user of the library sees, for all
\* libraries an author can make, step by step, of ones with one path for each
\* container: the label of an update is the reference's whenever every component
\* is in a group and no two containers share a path.
THEOREM LabelTellsTrue == ContractSpec => []Labelled
<1> USE WordsAssumption, LibrariesAssumption
<1> DEFINE Both == Proper(before) /\ Proper(after)
<1>1. ContractInit => Both
  BY DEF ContractInit, LibrariesAssumption, Proper
<1>2. Both /\ [ContractNext]_versions => Both'
  <2> SUFFICES ASSUME Both, [ContractNext]_versions
               PROVE  Both'
    OBVIOUS
  <2>1. CASE UNCHANGED versions
    BY <2>1 DEF versions, Proper, OnePath, Present
  <2>2. CASE ContractNext
    <3>1. UNCHANGED before
      BY <2>2 DEF ContractNext, Change, Add, Drop, Rename,
         Regroup, EditAxes, Apply, Combine,
         Uncombine, EditExports, Reimport
    <3>2. Proper(after')
      BY <2>2, EditsOfOne, EditsOfMany DEF ContractNext
    <3> QED BY <3>1, <3>2 DEF Proper, OnePath, Present
  <2> QED BY <2>1, <2>2
<1>3. Both => Labelled
  BY LabelFits DEF Proper, Orderly, Labelled
<1> QED BY <1>1, <1>2, <1>3, PTL DEF ContractSpec
=============================================================================
