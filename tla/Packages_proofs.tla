-------------------------- MODULE Packages_proofs --------------------------
(***************************************************************************)
(* Two promises of the packages, for any set of packages, requests, files  *)
(* and scenarios:                                                          *)
(*                                                                         *)
(*   Consented   the app puts back and shows as installed only what the    *)
(*               person installed here, and only code that was served then *)
(*   LinksSafe   lock.json loses no link, and a re-link task that has      *)
(*               stopped has derived them all                              *)
(*                                                                         *)
(* For the first: consent is recorded by a capture pass only, of pointers  *)
(* that are live in the profile (Earned), and a pointer gets there by the  *)
(* person's hand or from what was recorded.                                *)
(*                                                                         *)
(* For the second: several lock.json are about, the one on disk and those  *)
(* that handlers read before an import and write after it (Views).  On a   *)
(* package that was not imported again they agree on the file (SameFile)   *)
(* and on the links, except those that this life made itself: these are in *)
(* the database, or an end of them is deleted for good (SameLinks).  So a  *)
(* pass that planned from one of them has planned for all (Planned).       *)
(***************************************************************************)
EXTENDS Packages, TLAPS

\* Handlers that are under way, and those that hold a lock.json they read.
Active(r) == req[r].pc \notin {"queued", "ok", "failed"}
HoldsPC == {"probe", "import", "save"}
Views == {lock} \cup {req[r].snap : r \in {s \in Reqs : req[s].pc \in HoldsPC}}

\* Where a handler has a file.
Filed == {"save", "share", "saveShared", "rel", "saveLink"}

\* The relations a lock.json asks for, of one package.
LinksOf(lk, p) == IF lk[p] = None THEN {} ELSE {<<lk[p].file, k.file>> : k \in lk[p].links}

\* A file that was deleted and has no directory to come back from.
Dead(f) == f \notin files \cup disk /\ f < next
Settled(e) == e \in rels \/ Dead(e[1]) \/ Dead(e[2])

\* Package p is the one that file f was imported for, wherever that is written
\* down: in an entry, in a link, by a handler.
Owns(p, f) ==
  \/ \E v \in Views : v[p] # None /\ v[p].file = f
  \/ \E v \in Views : \E c \in Designs : v[c] # None /\ [file |-> f, pkg |-> p] \in v[c].links
  \/ \E r \in Reqs : req[r].pc \in Filed /\ req[r].pkg = p /\ req[r].file = f
  \/ \E r \in Reqs : Active(r) /\ req[r].lib = p /\ req[r].libFile = f

-----------------------------------------------------------------------------
(* The parts of the inductive invariant. *)

\* What a handler knows where it is.
Knows(q) ==
  /\ q.pc \notin {"queued", "ok", "failed"} => q.pkg \in Designs
  /\ q.pc \in HoldsPC => q.snap \in Locks
  /\ q.pc = "probe" => q.snap[q.pkg] # None
  /\ q.pc \in HoldsPC => q.hash \in Versions
  /\ q.pc \in Filed => q.file \in FileIds
  /\ q.op = "link" /\ q.pc \notin {"queued", "ok", "failed"} => q.lib \in Designs
  /\ q.pc \notin {"queued", "ok", "failed", "template", "drift"} => q.op \in {"install", "publish", "link"}
  /\ q.pc \in {"share", "saveShared"} => q.op # "install"
  /\ q.pc \in {"rel", "saveLink"} => q.op = "link" /\ q.libFile \in FileIds
Handling == \A r \in Reqs : (Active(r) => up) /\ Knows(req[r])

\* The tasks run only while the app does, and have tries left while they wait.
Tasks ==
  /\ ~up => relink.pc = "off" /\ plug.pc = "off"
  /\ relink.pc = "wait" => relink.tries > 0
  /\ plug.pc = "plan" => plug.tries > 0

\* lock.json's entries: a plugin's has no links, a design's has a file.
Entries ==
  /\ \A v \in Views : \A p \in Plugins : v[p] # None => v[p].links = {}
  /\ \A v \in Views : \A p \in Designs : v[p] # None => v[p].file \in FileIds
  /\ files \cup disk \subseteq 1 .. (next - 1)

\* Consent is the person's, for code that was served while the pointer was live.
Earned ==
  /\ \A p \in Plugins : ledger[p] # None => p \in native /\ ledger[p] \in known[p]
  /\ props \subseteq native
  /\ \A p \in native : src[p] # 0
  /\ \A p \in props : src[p] \in known[p]
  /\ plug.pc \in {"write", "record", "ledger"} => plug.got \subseteq native
  /\ plug.pc = "get" => \A p \in plug.ok : p \in native /\ plug.hash[p] \in known[p]
  /\ plug.pc = "write" => \A p \in plug.adds : p \in native /\ plug.hash[p] \in known[p]
  /\ plug.pc \in {"write", "record"} => \A p \in plug.got : src[p] \in known[p]
  /\ plug.pc = "ledger" => \A p \in plug.got : plug.hash[p] \in known[p]

\* What any lock.json about has an entry for is remembered.
Had ==
  up => /\ \A v \in Views : \A p \in Designs : v[p] # None => p \in had
        /\ \A r \in Reqs : req[r].pc \in Filed \ {"save"} => req[r].pkg \in had

\* One file for a package that was imported once.
SameFile ==
  up => \A p \in Designs \ remade : \A v \in Views : v[p] # None =>
          /\ \A w \in Views : w[p] # None => v[p].file = w[p].file
          /\ \A r \in Reqs : req[r].pc \in Filed \ {"save"} /\ req[r].pkg = p
               => req[r].file = v[p].file

\* A link that is in one lock.json is in all, or in the database.
SameLinks ==
  up => \A p \in Designs \ remade : \A v, w \in Views :
          \A e \in LinksOf(v, p) : e \in LinksOf(w, p) \/ Settled(e)

\* A link that is about to be written down is in the database.
Related == \A r \in Reqs : req[r].pc = "saveLink" => Settled(<<req[r].file, req[r].libFile>>)

\* A pass that leaves nothing out has every link still to do, or done.
Planned ==
  relink.pc = "done" \/ (relink.pc = "apply" /\ ~relink.blocked) =>
    \A p \in Designs \ remade : \A e \in LinksOf(lock, p) :
      Settled(e) \/ (relink.pc = "apply" /\ e \in relink.todo)

\* A file belongs to one package.
OneOwner ==
  \A p \in Designs : \A f \in FileIds : Owns(p, f) => f < next /\ \A q \in Designs : Owns(q, f) => p = q

\* Requests come in their order.
InOrder == \A r, s \in Reqs : s < r /\ req[r].pc # "queued" => req[s].pc # "queued"

\* Requests that come one by one: the lock.json one has read knows what the one on disk knows.
OneByOne ==
  left["together"] = 0 =>
    /\ \A r, s \in Reqs : Active(r) /\ Active(s) => r = s
    /\ \A v \in Views : \A p \in Designs : lock[p] # None =>
         v[p] # None /\ (lock[p].shared => v[p].shared) /\ lock[p].links \subseteq v[p].links

IInv == /\ TypeOK /\ Handling /\ Tasks /\ Entries /\ Earned
        /\ Had /\ SameFile /\ SameLinks /\ Related /\ Planned /\ OneOwner /\ InOrder /\ OneByOne
-----------------------------------------------------------------------------
(* The types, part by part. *)
DiskOK ==
  /\ src \in [Packs -> Versions \cup {0}] /\ lock \in Locks /\ ledger \in Ledgers
  /\ disk \subseteq FileIds /\ copies \subseteq FileIds
DbOK ==
  /\ files \subseteq FileIds /\ made \in [FileIds -> Versions \cup {0}] /\ shared \subseteq FileIds
  /\ rels \subseteq files \X files /\ props \subseteq Plugins /\ next \in 1 .. MaxFile + 1
TaskOK == relink \in Relinker /\ plug \in Plugger
ReqOK  == req \in [Reqs -> Request]
RestOK ==
  /\ up \in BOOLEAN /\ shown \in [Designs -> [update : BOOLEAN, bump : BOOLEAN]]
  /\ left \in [Kinds \cup {"together"} -> Nat]
HistOK ==
  /\ native \subseteq Plugins /\ removed \subseteq Plugins /\ known \in [Plugins -> SUBSET Versions]
  /\ had \subseteq Designs /\ remade \subseteq had

LEMMA TypeParts == TypeOK <=> DiskOK /\ DbOK /\ TaskOK /\ ReqOK /\ RestOK /\ HistOK
BY DEF TypeOK, DiskOK, DbOK, TaskOK, ReqOK, RestOK, HistOK

LEMMA PackFacts ==
  /\ Designs \cap Plugins = {} /\ Packs = Designs \cup Plugins /\ None \notin Packs
  /\ \A p \in Packs : p \in Designs \/ p \in Plugins
  /\ None # 0 /\ None # 1 /\ None # 2 /\ Versions = {1, 2}
BY PackAssumption DEF Packs, Versions

LEMMA InitIInv ==
  ASSUME Init
  PROVE  IInv
<1> USE PackFacts, CountAssumption
<1>1. PICK cloned \in BOOLEAN :
        lock = [p \in Packs |-> IF cloned /\ p \in Plugins THEN [Bare EXCEPT !.pins = {p}] ELSE None]
  BY DEF Init
<1>2. \A p \in Plugins : [Bare EXCEPT !.pins = {p}] \in Entry
  BY DEF Bare, Entry
<1>3. DiskOK
  <2>1. lock \in Locks
    BY <1>1, <1>2 DEF Locks
  <2>2. src \in [Packs -> Versions \cup {0}] /\ ledger \in Ledgers
    BY DEF Init, Ledgers
  <2> QED
    BY <2>1, <2>2 DEF Init, DiskOK
<1>4. DbOK /\ HistOK
  BY DEF Init, DbOK, HistOK
<1>5. TaskOK
  BY DEF Init, TaskOK, NoTask, NoPlug, Relinker, Plugger
<1>6. ReqOK
  BY DEF Init, ReqOK, NoReq, Request, ReqPC
<1>7. RestOK
  BY DEF Init, RestOK, Silent
<1>8. \A r \in Reqs : req[r].pc = "queued" /\ ~Active(r)
  BY DEF Init, NoReq, Active
<1>9. Views = {lock}
  BY <1>8 DEF Views, HoldsPC
<1>10. \A p \in Plugins : lock[p] # None => lock[p].links = {}
  BY <1>1 DEF Bare, Packs
<1>11. \A p \in Designs : lock[p] = None
  BY <1>1 DEF Packs
<1>12. Handling /\ Tasks /\ Entries
  BY <1>8, <1>9, <1>10, <1>11 DEF Handling, Knows, Tasks, Entries, Init, NoTask, NoPlug, HoldsPC, Filed
<1>13. Earned
  BY DEF Init, Earned, NoPlug
<1>14. Had /\ SameFile /\ SameLinks /\ Related /\ Planned
  BY <1>8 DEF Init, Had, SameFile, SameLinks, Related, Planned, NoTask
<1>15. \A p \in Designs : \A f \in FileIds : ~Owns(p, f)
  BY <1>8, <1>9, <1>11 DEF Owns, Filed
<1>16. OneOwner /\ InOrder /\ OneByOne
  BY <1>8, <1>9, <1>15 DEF OneOwner, InOrder, OneByOne
<1> QED
  BY <1>3, <1>4, <1>5, <1>6, <1>7, <1>12, <1>13, <1>14, <1>16, TypeParts DEF IInv
-----------------------------------------------------------------------------
(* The handlers. *)

LEMMA OneRequest ==
  ASSUME ReqOK, Handling, up, UNCHANGED up, NEW r \in Reqs, NEW st \in Request, Serve(r, st), Knows(st)
  PROVE  ReqOK' /\ Handling'
<1>1. req' \in [Reqs -> Request] /\ \A s \in Reqs : req'[s] = IF s = r THEN st ELSE req[s]
  BY DEF ReqOK, Serve
<1> QED
  BY <1>1 DEF ReqOK, Handling, Active

\* The records a handler turns into are requests.
LEMMA Turns ==
  ASSUME NEW q \in Request, NEW f \in FileIds
  PROVE  /\ [q EXCEPT !.file = f, !.pc = "save"] \in Request
         /\ [q EXCEPT !.pc = "failed", !.snap = None] \in Request
         /\ \A a, b \in Designs :
              [q EXCEPT !.pc = "load", !.libFile = f, !.pkg = a, !.lib = b, !.file = 0] \in Request
<1>1. f \in 0 .. MaxFile /\ 0 \in 0 .. MaxFile
  BY CountAssumption DEF FileIds
<1>2. {"save", "failed", "load"} \subseteq ReqPC
  BY DEF ReqPC
<1> QED
  BY <1>1, <1>2 DEF Request

\* Where an installed package's handler goes on.
LEMMA Onwards ==
  ASSUME NEW q \in Request
  PROVE  /\ AfterInstall(q) \in Request /\ AfterInstall(q).pc \in {"ok", "rel", "share"}
         /\ AfterInstall(q).pc = "rel" => q.op = "link" /\ q.libFile # 0
         /\ AfterInstall(q).pc = "share" => q.op # "install"
         /\ AfterInstall(q).op = q.op /\ AfterInstall(q).pkg = q.pkg /\ AfterInstall(q).lib = q.lib
         /\ AfterInstall(q).libFile = q.libFile /\ AfterInstall(q).file = q.file
<1>1. CASE q.op = "install"
  <2>1. AfterInstall(q) = [q EXCEPT !.pc = "ok", !.snap = None]
    BY <1>1 DEF AfterInstall
  <2> QED
    BY <1>1, <2>1 DEF Request, ReqPC
<1>2. CASE q.op = "link" /\ q.libFile # 0
  <2>1. AfterInstall(q) = [q EXCEPT !.pc = "rel", !.snap = None]
    BY <1>2 DEF AfterInstall
  <2> QED
    BY <1>2, <2>1 DEF Request, ReqPC
<1>3. CASE q.op # "install" /\ ~(q.op = "link" /\ q.libFile # 0)
  <2>1. AfterInstall(q) = [q EXCEPT !.pc = "share", !.snap = None]
    BY <1>3 DEF AfterInstall
  <2> QED
    BY <1>3, <2>1 DEF Request, ReqPC
<1> QED
  BY <1>1, <1>2, <1>3

LEMMA Installed ==
  ASSUME NEW q \in Request, Knows(q), q.pc \notin {"queued", "ok", "failed", "template", "drift"}, NEW f \in FileIds
  PROVE  Knows(AfterInstall([q EXCEPT !.file = f])) /\ [q EXCEPT !.file = f] \in Request
<1> DEFINE p == [q EXCEPT !.file = f]
<1>1. p \in Request /\ p.op = q.op /\ p.pkg = q.pkg /\ p.lib = q.lib /\ p.libFile = q.libFile /\ p.file = f
  BY DEF Request, FileIds
<1> HIDE DEF p
<1>2. Knows(AfterInstall(p))
  BY <1>1, Onwards DEF Knows, HoldsPC, Filed, Request, FileIds
<1> QED
  BY <1>1, <1>2 DEF p

LEMMA ReqStep ==
  ASSUME TypeOK, Handling, Entries, [Next]_vars
  PROVE  ReqOK' /\ Handling'
<1> USE TypeParts, PackFacts, CountAssumption
<1>1. CASE UNCHANGED req /\ (up => up')
  BY <1>1 DEF ReqOK, Handling, Active
<1>2. ASSUME NEW r \in Reqs, Handler(r)
      PROVE  ReqOK' /\ Handling'
  <2> DEFINE q == req[r]
  <2>1. q \in Request /\ Knows(q) /\ up /\ UNCHANGED up
    BY <1>2 DEF ReqOK, Handling, Handler, At, Start, Load, Probe, Import, Save, Share, SaveShared, Rel,
      SaveLink, new_from_template, do_preserve_drift
  <2>2. ASSUME NEW pc \in ReqPC, pc \notin {"rel", "saveLink"} \/ q.pc \in {"rel", "saveLink"},
               pc \in Filed => q.pc \in Filed,
               pc \in HoldsPC => q.pc \in HoldsPC /\ pc # "probe" /\ (pc = "save" => q.pc = "save"),
               q.pc \notin {"queued", "ok", "failed"}, pc \notin {"queued", "template", "drift"},
               pc \notin {"ok", "failed"} => q.pc \notin {"template", "drift"},
               pc \in {"share", "saveShared"} => q.pc \in {"share", "saveShared"}
        PROVE  [q EXCEPT !.pc = pc] \in Request /\ Knows([q EXCEPT !.pc = pc])
    <3>1. [q EXCEPT !.pc = pc] \in Request
      BY <2>1 DEF Request
    <3> DEFINE st == [q EXCEPT !.pc = pc]
    <3>2. /\ st.pc = pc /\ st.pkg = q.pkg /\ st.snap = q.snap /\ st.hash = q.hash /\ st.file = q.file
          /\ st.op = q.op /\ st.lib = q.lib /\ st.libFile = q.libFile
      BY <2>1 DEF Request
    <3> HIDE DEF st
    <3>3. Knows(st)
      BY <2>1, <2>2, <3>2 DEF Knows, HoldsPC
    <3> QED
      BY <3>1, <3>3 DEF st
  <2>3. CASE Start(r)
    <3>1. PICK op \in ReqOps, p \in Designs, l \in Designs :
            Serve(r, [NoReq EXCEPT !.op = op, !.pkg = IF op = "link" THEN l ELSE p,
                                   !.lib = IF op = "link" THEN p ELSE None,
                                   !.pc = IF op \in {"template", "drift"} THEN op ELSE "load"])
      BY <2>3 DEF Start
    <3> DEFINE st == [NoReq EXCEPT !.op = op, !.pkg = IF op = "link" THEN l ELSE p,
                                   !.lib = IF op = "link" THEN p ELSE None,
                                   !.pc = IF op \in {"template", "drift"} THEN op ELSE "load"]
    <3>2. st \in Request
      <4>1. (IF op = "link" THEN l ELSE p) \in Designs /\ (IF op = "link" THEN p ELSE None) \in Designs \cup {None}
            /\ (IF op \in {"template", "drift"} THEN op ELSE "load") \in ReqPC
        BY DEF ReqPC
      <4>2. NoReq \in Request
        BY DEF NoReq, Request, ReqPC
      <4> QED
        BY <4>1, <4>2 DEF Request
    <3>3. st.pc \in {"template", "drift", "load"} /\ (st.pc = "load" => st.op \in {"install", "publish", "link"})
          /\ st.op = op /\ st.pkg \in Designs /\ (st.op = "link" => st.lib \in Designs)
      BY DEF NoReq, ReqOps
    <3>4. Knows(st)
      BY <3>3 DEF Knows, HoldsPC, Filed
    <3> QED
      BY <2>1, <3>1, <3>2, <3>4, OneRequest
  <2>4. CASE Load(r)
    <3>1. q.pc = "load" /\ lock \in Locks /\ Source(q.pkg) \in Versions \cup {0} /\ q.pkg \in Designs
      BY <2>1, <2>4 DEF Load, At, DiskOK, Source, Knows
    <3>2. CASE Serve(r, [q EXCEPT !.pc = "failed"])
      BY <2>1, <2>2, <3>1, <3>2, OneRequest DEF ReqPC, Filed, HoldsPC
    <3>3. ASSUME NEW h \in Versions, NEW pc \in {"import", "probe"}, pc = "probe" => lock[q.pkg] # None,
                 Serve(r, [q EXCEPT !.hash = h, !.snap = lock, !.pc = pc])
          PROVE  ReqOK' /\ Handling'
      <4> DEFINE st == [q EXCEPT !.hash = h, !.snap = lock, !.pc = pc]
      <4>1. st \in Request
        BY <2>1, <3>1, <3>3 DEF Request, ReqPC
      <4>2. /\ st.pc = pc /\ st.hash = h /\ st.snap = lock /\ st.pkg = q.pkg
            /\ st.op = q.op /\ st.lib = q.lib
        BY <2>1 DEF Request
      <4>3. Knows(st)
        BY <2>1, <3>1, <3>3, <4>2 DEF Knows, Filed, HoldsPC
      <4> QED
        BY <2>1, <3>3, <4>1, <4>3, OneRequest
    <3>4. CASE Source(q.pkg) # 0
      <4>1. Serve(r, [q EXCEPT !.hash = Source(q.pkg), !.snap = lock,
                      !.pc = IF lock[q.pkg] = None \/ lock[q.pkg].hash # Source(q.pkg) THEN "import" ELSE "probe"])
        BY <2>4, <3>4 DEF Load
      <4> QED
        BY <3>1, <3>3, <3>4, <4>1
    <3> QED
      BY <2>4, <3>2, <3>4 DEF Load
  <2>5. CASE Probe(r)
    <3>1. q.pc = "probe" /\ q.pkg \in Designs /\ q.snap \in Views /\ q.snap[q.pkg] # None
      BY <2>1, <2>5 DEF Probe, At, Knows, Views, HoldsPC
    <3> DEFINE f == q.snap[q.pkg].file
    <3>2. f \in FileIds
      BY <3>1 DEF Entries
    <3>3. CASE Serve(r, AfterInstall([q EXCEPT !.file = f]))
      <4>1. [q EXCEPT !.file = f] \in Request /\ Knows(AfterInstall([q EXCEPT !.file = f]))
        BY <2>1, <3>1, <3>2, Installed
      <4>2. AfterInstall([q EXCEPT !.file = f]) \in Request
        BY <4>1, Onwards
      <4> QED
        BY <2>1, <3>3, <4>1, <4>2, OneRequest
    <3>4. CASE Serve(r, [q EXCEPT !.pc = "import"])
      BY <2>1, <2>2, <3>1, <3>4, OneRequest DEF ReqPC, Filed, HoldsPC
    <3> QED
      BY <2>5, <3>3, <3>4 DEF Probe
  <2>6. CASE Import(r)
    <3>1. q.pc = "import" /\ next \in FileIds
      <4>1. next \in 1 .. MaxFile + 1
        BY DEF DbOK
      <4>2. q.pc = "import" /\ next <= MaxFile
        BY <2>6 DEF Import, At, New
      <4> QED
        BY <4>1, <4>2 DEF FileIds
    <3>2. CASE Serve(r, [q EXCEPT !.file = next, !.pc = "save"])
      <4> DEFINE st == [q EXCEPT !.file = next, !.pc = "save"]
      <4>1. st \in Request
        BY <2>1, <3>1, Turns
      <4>2. /\ st.pc = "save" /\ st.pkg = q.pkg /\ st.snap = q.snap /\ st.hash = q.hash
            /\ st.file = next /\ st.op = q.op /\ st.lib = q.lib
        BY <2>1 DEF Request
      <4> HIDE DEF st
      <4>3. Knows(st)
        BY <2>1, <3>1, <4>2 DEF Knows, HoldsPC, Filed
      <4> QED
        BY <2>1, <3>2, <4>1, <4>3, OneRequest DEF st
    <3>3. CASE Serve(r, [q EXCEPT !.pc = "failed", !.snap = None])
      <4> DEFINE st == [q EXCEPT !.pc = "failed", !.snap = None]
      <4>1. st \in Request /\ st.pc = "failed"
        BY <2>1 DEF Request, ReqPC
      <4> HIDE DEF st
      <4>2. Knows(st)
        BY <4>1 DEF Knows, HoldsPC, Filed
      <4> QED
        BY <2>1, <3>3, <4>1, <4>2, OneRequest DEF st
    <3> QED
      BY <2>6, <3>2, <3>3 DEF Import
  <2>7. CASE Save(r)
    <3>1. q.pc = "save" /\ q.file \in FileIds /\ Serve(r, AfterInstall(q))
      BY <2>1, <2>7 DEF Save, At, Knows, Filed
    <3>2. q = [q EXCEPT !.file = q.file]
      BY <2>1 DEF Request
    <3>3. Knows(AfterInstall(q)) /\ AfterInstall(q) \in Request
      BY <2>1, <3>1, <3>2, Installed, Onwards
    <3> QED
      BY <2>1, <3>1, <3>3, OneRequest
  <2>8. CASE Share(r)
    <3>1. q.pc = "share" /\ (Serve(r, [q EXCEPT !.pc = "saveShared"]) \/ Serve(r, [q EXCEPT !.pc = "failed"]))
      BY <2>8 DEF Share, At
    <3> QED
      BY <2>1, <2>2, <3>1, OneRequest DEF ReqPC, Filed, HoldsPC
  <2>9. CASE SaveShared(r)
    <3>1. q.pc = "saveShared" /\ q.file \in FileIds /\ q.pkg \in Designs
      BY <2>1, <2>9 DEF SaveShared, At, Knows, Filed
    <3>2. CASE Serve(r, [q EXCEPT !.pc = "ok"])
      BY <2>1, <2>2, <3>1, <3>2, OneRequest DEF ReqPC, Filed, HoldsPC
    <3>3. CASE Serve(r, [q EXCEPT !.pc = "load", !.libFile = q.file, !.pkg = q.lib, !.lib = q.pkg, !.file = 0])
               /\ q.op # "publish"
      <4> DEFINE st == [q EXCEPT !.pc = "load", !.libFile = q.file, !.pkg = q.lib, !.lib = q.pkg, !.file = 0]
      <4>1. q.op = "link" /\ q.lib \in Designs
        BY <2>1, <3>1, <3>3 DEF Knows
      <4>2. st \in Request
        BY <2>1, <3>1, <4>1, Turns
      <4>3. st.pc = "load" /\ st.pkg = q.lib /\ st.lib = q.pkg /\ st.op = q.op
        BY <2>1 DEF Request
      <4> HIDE DEF st
      <4>4. Knows(st)
        BY <3>1, <4>1, <4>3 DEF Knows, HoldsPC, Filed
      <4> QED
        BY <2>1, <3>3, <4>2, <4>4, OneRequest DEF st
    <3> QED
      BY <2>9, <3>2, <3>3 DEF SaveShared
  <2>10. CASE Rel(r)
    <3>1. q.pc = "rel" /\ (Serve(r, [q EXCEPT !.pc = "saveLink"]) \/ Serve(r, [q EXCEPT !.pc = "failed"]))
      BY <2>10 DEF Rel, At
    <3> QED
      BY <2>1, <2>2, <3>1, OneRequest DEF ReqPC, Filed, HoldsPC
  <2>11. CASE SaveLink(r)
    <3>1. q.pc = "saveLink" /\ (Serve(r, [q EXCEPT !.pc = "ok"]) \/ Serve(r, [q EXCEPT !.pc = "failed"]))
      BY <2>11 DEF SaveLink, At
    <3> QED
      BY <2>1, <2>2, <3>1, OneRequest DEF ReqPC, Filed, HoldsPC
  <2>12. CASE new_from_template(r) \/ do_preserve_drift(r)
    <3>1. q.pc \in {"template", "drift"}
          /\ (Serve(r, [q EXCEPT !.pc = "ok"]) \/ Serve(r, [q EXCEPT !.pc = "failed"]))
      BY <2>12 DEF new_from_template, do_preserve_drift, At
    <3> QED
      BY <2>1, <2>2, <3>1, OneRequest DEF ReqPC, Filed, HoldsPC
  <2> QED
    BY <1>2, <2>3, <2>4, <2>5, <2>6, <2>7, <2>8, <2>9, <2>10, <2>11, <2>12 DEF Handler
<1>3. CASE Crash
  <2>1. \A r \in Reqs : req'[r] \in Request
    <3>1. [NoReq EXCEPT !.pc = "failed"] \in Request
      BY DEF NoReq, Request, ReqPC
    <3> QED
      BY <1>3, <3>1 DEF Crash, ReqOK
  <2>2. \A r \in Reqs : req'[r].pc \in {"queued", "ok", "failed"}
    BY <1>3 DEF Crash, NoReq
  <2>3. req' \in [Reqs -> Request]
    <3>1. req' = [r \in Reqs |-> req'[r]]
      BY <1>3 DEF Crash
    <3> QED
      BY <2>1, <3>1
  <2> QED
    BY <2>2, <2>3 DEF ReqOK, Handling, Active, Knows, HoldsPC, Filed
<1>4. CASE \/ Boot \/ Wipe \/ (\E f \in FileIds : Export(f) \/ Resurrect(f) \/ DeleteFile(f) \/ EditFile(f))
           \/ (\E p \in Packs : fetch_package(p) \/ Pull(p))
           \/ (\E p \in Plugins : NativeInstall(p) \/ NativeRemove(p))
  <2>1. UNCHANGED req /\ (up => up')
    BY <1>4 DEF Boot, Wipe, Export, Resurrect, DeleteFile, EditFile, fetch_package, Pull, NativeInstall,
      NativeRemove
  <2> QED
    BY <1>1, <2>1
<1>5. CASE RelinkTask \/ PluginTask \/ compute_updates_model \/ UNCHANGED vars
  <2>1. UNCHANGED req /\ (up => up')
    <3>1. CASE RelinkTask
      <4>1. CASE plan_relink
        BY <4>1 DEF plan_relink
      <4>2. CASE \E e \in relink.todo : Relink(e)
        BY <4>2 DEF Relink
      <4>3. CASE spawn_relink_reconcile
        BY <4>3 DEF spawn_relink_reconcile
      <4> QED
        BY <3>1, <4>1, <4>2, <4>3 DEF RelinkTask
    <3>2. CASE Plan \/ get_profile_props \/ reapply_plugin_props \/ CaptureGet \/ SaveLedger
      BY <3>2 DEF Plan, get_profile_props, reapply_plugin_props, CaptureGet, SaveLedger
    <3>3. CASE capture_plugin_props
      BY <3>3 DEF capture_plugin_props
    <3>4. CASE compute_updates_model \/ UNCHANGED vars
      BY <3>4 DEF compute_updates_model, vars
    <3> QED
      BY <1>5, <3>1, <3>2, <3>3, <3>4 DEF PluginTask
  <2> QED
    BY <1>1, <2>1
<1> QED
  BY <1>2, <1>3, <1>4, <1>5 DEF Next
-----------------------------------------------------------------------------
(* What each save makes of lock.json. *)

\* The entry of a package is there as before, with its file and its links.
Stands(p) == (lock'[p] = None) = (lock[p] = None)
             /\ (lock[p] # None => /\ lock'[p].file = lock[p].file /\ lock'[p].links = lock[p].links
                                   /\ (lock[p].shared => lock'[p].shared))

\* do_install, after the import.
LEMMA SaveFacts ==
  ASSUME TypeOK, Handling, NEW r \in Reqs, Save(r)
  PROVE  /\ up /\ req[r].pc = "save" /\ req[r].snap \in Locks /\ req[r].snap \in Views
         /\ req[r].pkg \in Designs /\ req[r].file \in FileIds
         /\ lock' \in Locks /\ lock'[req[r].pkg] # None /\ lock'[req[r].pkg].file = req[r].file
         /\ LET old == req[r].snap[req[r].pkg] IN
              /\ lock'[req[r].pkg].links = IF old = None THEN {} ELSE old.links
              /\ old # None => (old.shared => lock'[req[r].pkg].shared)
         /\ \A p \in Packs \ {req[r].pkg} : lock'[p] = req[r].snap[p]
<1> USE TypeParts, PackFacts
<1> DEFINE q == req[r]
           old == q.snap[q.pkg]
           base == IF old = None THEN Bare ELSE Kept(old)
           e == [base EXCEPT !.hash = q.hash, !.file = q.file]
<1>1. q \in Request /\ Knows(q) /\ q.pc = "save" /\ up
  BY DEF ReqOK, Handling, Save, At
<1>2. q.snap \in Locks /\ q.pkg \in Designs /\ q.file \in FileIds /\ q.hash \in Versions /\ q.snap \in Views
  BY <1>1 DEF Knows, HoldsPC, Filed, Views
<1>3. lock' = [q.snap EXCEPT ![q.pkg] = e]
  BY DEF Save
<1>4. old \in Entry \cup {None}
  BY <1>2 DEF Locks
<1>5. base \in Entry /\ base.links = (IF old = None THEN {} ELSE old.links)
      /\ (old # None => base.shared = old.shared)
  BY <1>4 DEF Bare, Kept, Entry
<1>6. e \in Entry /\ e.file = q.file /\ e.links = base.links /\ e.shared = base.shared
  <2> HIDE DEF base
  <2> QED
    BY <1>2, <1>5 DEF Entry
<1>7. e # None
  BY <1>6, EntryAssumption
<1> HIDE DEF e, base
<1>8. lock' \in Locks /\ lock'[q.pkg] = e /\ \A p \in Packs \ {q.pkg} : lock'[p] = q.snap[p]
  BY <1>2, <1>3, <1>6 DEF Locks
<1> QED
  BY <1>1, <1>2, <1>5, <1>6, <1>7, <1>8

\* do_publish, after set-file-shared.
LEMMA SaveSharedFacts ==
  ASSUME TypeOK, NEW r \in Reqs, SaveShared(r)
  PROVE  lock' \in Locks /\ \A p \in Packs : Stands(p)
<1> USE TypeParts
<1>1. lock' = [p \in Packs |-> IF p = req[r].pkg /\ lock[p] # None THEN [lock[p] EXCEPT !.shared = TRUE] ELSE lock[p]]
  BY DEF SaveShared
<1>2. \A e \in Entry : [e EXCEPT !.shared = TRUE] \in Entry /\ [e EXCEPT !.shared = TRUE] # None
  BY EntryAssumption DEF Entry
<1>3. \A p \in Packs : lock[p] \in Entry \cup {None}
  BY DEF DiskOK, Locks
<1>4. \A p \in Packs : lock'[p] \in Entry \cup {None}
  BY <1>1, <1>2, <1>3
<1>5. lock' \in Locks
  <2>1. lock' = [p \in Packs |-> lock'[p]]
    BY <1>1
  <2> QED
    BY <1>4, <2>1 DEF Locks
<1>6. \A e \in Entry : /\ [e EXCEPT !.shared = TRUE].file = e.file /\ [e EXCEPT !.shared = TRUE].links = e.links
                       /\ [e EXCEPT !.shared = TRUE].shared
  BY DEF Entry
<1>7. ASSUME NEW p \in Packs
      PROVE  Stands(p)
  <2>1. CASE lock'[p] = lock[p]
    BY <2>1 DEF Stands
  <2>2. CASE lock[p] # None /\ lock'[p] = [lock[p] EXCEPT !.shared = TRUE]
    BY <1>2, <1>3, <1>6, <2>2 DEF Stands
  <2> QED
    BY <1>1, <2>1, <2>2
<1> QED
  BY <1>5, <1>7

\* The link, after link-file-to-library: one of the same library is replaced.
LEMMA SaveLinkFacts ==
  ASSUME TypeOK, Handling, NEW r \in Reqs, SaveLink(r), lock' # lock
  PROVE  LET q == req[r] IN
         /\ up /\ q.pc = "saveLink" /\ q.pkg \in Designs /\ q.lib \in Designs
         /\ lock' \in Locks /\ lock[q.pkg] # None /\ lock'[q.pkg] # None
         /\ lock'[q.pkg].file = lock[q.pkg].file /\ lock'[q.pkg].shared = lock[q.pkg].shared
         /\ lock'[q.pkg].links = {k \in lock[q.pkg].links : k.file # q.libFile}
                                   \cup {[file |-> q.libFile, pkg |-> q.lib]}
         /\ \A p \in Packs \ {q.pkg} : lock'[p] = lock[p]
<1> USE TypeParts, PackFacts
<1> DEFINE q == req[r]
           l == [file |-> q.libFile, pkg |-> q.lib]
           links == {k \in lock[q.pkg].links : k.file # q.libFile} \cup {l}
           e == [lock[q.pkg] EXCEPT !.links = links]
<1>1. q \in Request /\ Knows(q) /\ q.pc = "saveLink" /\ up
  BY DEF ReqOK, Handling, SaveLink, At
<1>2. q.pkg \in Designs /\ q.lib \in Designs /\ q.libFile \in FileIds
  BY <1>1 DEF Knows
<1>3. lock' = [lock EXCEPT ![q.pkg].links = {k \in @ : k.file # q.libFile} \cup {l}] /\ lock[q.pkg] # None
  BY DEF SaveLink
<1>4. lock \in [Packs -> Entry \cup {None}] /\ q.pkg \in Packs
  BY <1>2 DEF DiskOK, Locks
<1>5. lock[q.pkg] \in Entry
  BY <1>3, <1>4
<1>6. l \in Link
  BY <1>2 DEF Link
<1>7. lock'[q.pkg] = e /\ \A p \in Packs \ {q.pkg} : lock'[p] = lock[p]
  BY <1>3, <1>4
<1> HIDE DEF l
<1>8. links \subseteq Link
  BY <1>5, <1>6 DEF Entry
<1>9. e \in Entry /\ e.file = lock[q.pkg].file /\ e.shared = lock[q.pkg].shared /\ e.links = links
  <2> HIDE DEF links
  <2> QED
    BY <1>5, <1>8 DEF Entry
<1>10. e # None
  BY <1>9, EntryAssumption
<1> HIDE DEF e
<1>11. lock' \in Locks
  <2>1. \A p \in Packs : lock'[p] \in Entry \cup {None}
    BY <1>4, <1>7, <1>9
  <2>2. lock' = [p \in Packs |-> lock'[p]]
    BY <1>3, <1>4
  <2> QED
    BY <2>1, <2>2 DEF Locks
<1> QED
  BY <1>1, <1>2, <1>3, <1>7, <1>9, <1>10, <1>11 DEF l

\* capture_plugin_props touches the pins only, and entries of plugins.
LEMMA CaptureFacts ==
  ASSUME TypeOK, Entries, Earned, capture_plugin_props
  PROVE  /\ up /\ lock' \in Locks
         /\ \A p \in Designs : Stands(p) /\ (lock[p] # None => lock'[p].shared = lock[p].shared)
         /\ \A p \in Plugins : lock'[p] # None => lock'[p].links = {}
<1> USE TypeParts, PackFacts
<1> DEFINE New0(p) == [Bare EXCEPT !.hash = src[p], !.pins = {p}]
           pinned(p) == IF p \in plug.got
                        THEN IF lock[p] = None THEN New0(p) ELSE [lock[p] EXCEPT !.pins = {p}]
                        ELSE lock[p]
           Pruned(e) == [e EXCEPT !.pins = @ \ Gone]
<1>1. up /\ plug.pc = "record"
      /\ lock' = [p \in Packs |->
                      IF pinned(p) = None THEN None
                      ELSE IF p \in Plugins /\ pinned(p).pins \cap Gone # {} /\ pinned(p).file = 0
                           THEN None
                           ELSE Pruned(pinned(p))]
  BY DEF capture_plugin_props
<1>2. \A p \in Packs : lock[p] \in Entry \cup {None}
  BY DEF DiskOK, Locks
<1>3. plug.got \subseteq Plugins /\ \A p \in plug.got : src[p] \in Versions
  BY <1>1 DEF TaskOK, Plugger, Earned, HistOK
<1>4. lock \in Views
  BY DEF Views
<1>5. ASSUME NEW p \in Packs
      PROVE  /\ pinned(p) \in Entry \cup {None}
             /\ p \in Designs => pinned(p) = lock[p]
             /\ p \in Plugins /\ pinned(p) # None => pinned(p).links = {}
  <2>1. CASE p \notin plug.got
    BY <1>2, <1>4, <2>1 DEF Entries
  <2>2. CASE p \in plug.got /\ lock[p] = None
    <3>1. New0(p) \in Entry /\ New0(p).links = {}
      BY <1>3, <2>2 DEF Bare, Entry
    <3> QED
      BY <1>3, <2>2, <3>1
  <2>3. CASE p \in plug.got /\ lock[p] # None
    <3>1. [lock[p] EXCEPT !.pins = {p}] \in Entry /\ [lock[p] EXCEPT !.pins = {p}].links = lock[p].links
      BY <1>2, <1>3, <2>3 DEF Entry
    <3> QED
      BY <1>3, <1>4, <2>3, <3>1 DEF Entries
  <2> QED
    BY <2>1, <2>2, <2>3
<1> HIDE DEF pinned
<1>6. \A e \in Entry : /\ Pruned(e) \in Entry /\ Pruned(e).file = e.file /\ Pruned(e).links = e.links
                       /\ Pruned(e).shared = e.shared /\ Pruned(e) # None
  <2>1. \A e \in Entry : /\ Pruned(e) \in Entry /\ Pruned(e).file = e.file /\ Pruned(e).links = e.links
                         /\ Pruned(e).shared = e.shared
    BY DEF Entry
  <2> QED
    BY <2>1, EntryAssumption
<1> HIDE DEF Pruned
<1>7. lock' \in Locks
  <2>1. \A p \in Packs : lock'[p] \in Entry \cup {None}
    BY <1>1, <1>5, <1>6
  <2>2. lock' = [p \in Packs |-> lock'[p]]
    BY <1>1
  <2> QED
    BY <2>1, <2>2 DEF Locks
<1>8. \A p \in Designs : Stands(p) /\ (lock[p] # None => lock'[p].shared = lock[p].shared)
  BY <1>1, <1>2, <1>5, <1>6 DEF Stands
<1>9. \A p \in Plugins : lock'[p] # None => lock'[p].links = {}
  BY <1>1, <1>2, <1>5, <1>6
<1> QED
  BY <1>1, <1>7, <1>8, <1>9
-----------------------------------------------------------------------------
(* The types again. *)

\* Where lock.json is written.
Writes(r) == Save(r) \/ SaveShared(r) \/ (SaveLink(r) /\ lock' # lock)

LEMMA LockMoves ==
  ASSUME TypeOK, Handling, Entries, Earned, [Next]_vars
  PROVE  UNCHANGED lock \/ (\E r \in Reqs : Writes(r)) \/ capture_plugin_props
<1>1. ASSUME NEW r \in Reqs, Handler(r)
      PROVE  UNCHANGED lock \/ Writes(r)
  BY <1>1 DEF Handler, Writes, Start, Load, Probe, Import, Share, Rel, SaveLink, new_from_template,
    do_preserve_drift, diskVars
<1>2. CASE Boot \/ Crash \/ Wipe \/ compute_updates_model \/ UNCHANGED vars
  BY <1>2 DEF Boot, Crash, Wipe, compute_updates_model, vars, diskVars
<1>3. ASSUME NEW f \in FileIds, Export(f) \/ Resurrect(f) \/ DeleteFile(f) \/ EditFile(f)
      PROVE  UNCHANGED lock
  BY <1>3 DEF Export, Resurrect, DeleteFile, EditFile, diskVars
<1>4. ASSUME NEW p \in Packs, fetch_package(p) \/ Pull(p)
      PROVE  UNCHANGED lock
  BY <1>4 DEF fetch_package, Pull
<1>5. ASSUME NEW p \in Plugins, NativeInstall(p) \/ NativeRemove(p)
      PROVE  UNCHANGED lock
  BY <1>5 DEF NativeInstall, NativeRemove, diskVars
<1>6. CASE plan_relink
  BY <1>6 DEF plan_relink, diskVars
<1>7. ASSUME NEW e \in relink.todo, Relink(e)
      PROVE  UNCHANGED lock
  BY <1>7 DEF Relink, diskVars
<1>8. CASE spawn_relink_reconcile
  BY <1>8 DEF spawn_relink_reconcile, diskVars
<1>9. CASE Plan \/ get_profile_props \/ reapply_plugin_props \/ CaptureGet \/ SaveLedger
  BY <1>9 DEF Plan, get_profile_props, reapply_plugin_props, CaptureGet, SaveLedger, diskVars
<1> QED
  BY <1>1, <1>2, <1>3, <1>4, <1>5, <1>6, <1>7, <1>8, <1>9 DEF Next, RelinkTask, PluginTask

\* Every lock.json that is about was about before, but for the one just written.
LEMMA LockStep ==
  ASSUME TypeOK, Handling, Entries, Earned, [Next]_vars
  PROVE  /\ lock' \in Locks
         /\ \A p \in Plugins : lock'[p] # None => lock'[p].links = {}
         /\ \A p \in Designs : lock'[p] # None => lock'[p].file \in FileIds
<1> USE TypeParts, PackFacts
<1>1. lock \in Views /\ lock \in Locks
  BY DEF Views, DiskOK
<1>2. CASE UNCHANGED lock
  BY <1>1, <1>2 DEF Entries
<1>3. ASSUME NEW r \in Reqs, Save(r)
      PROVE  /\ lock' \in Locks
             /\ \A p \in Plugins : lock'[p] # None => lock'[p].links = {}
             /\ \A p \in Designs : lock'[p] # None => lock'[p].file \in FileIds
  BY <1>3, SaveFacts DEF Entries
<1>4. ASSUME NEW r \in Reqs, SaveShared(r)
      PROVE  /\ lock' \in Locks
             /\ \A p \in Plugins : lock'[p] # None => lock'[p].links = {}
             /\ \A p \in Designs : lock'[p] # None => lock'[p].file \in FileIds
  BY <1>1, <1>4, SaveSharedFacts DEF Entries, Stands
<1>5. ASSUME NEW r \in Reqs, SaveLink(r), lock' # lock
      PROVE  /\ lock' \in Locks
             /\ \A p \in Plugins : lock'[p] # None => lock'[p].links = {}
             /\ \A p \in Designs : lock'[p] # None => lock'[p].file \in FileIds
  <2> DEFINE q == req[r]
  <2>1. /\ q.pkg \in Designs /\ lock' \in Locks /\ lock'[q.pkg].file = lock[q.pkg].file
        /\ lock[q.pkg] # None /\ \A p \in Packs \ {q.pkg} : lock'[p] = lock[p]
    BY <1>5, SaveLinkFacts
  <2> QED
    BY <1>1, <2>1 DEF Entries
<1>6. CASE capture_plugin_props
  BY <1>1, <1>6, CaptureFacts DEF Entries, Stands
<1> QED
  BY <1>2, <1>3, <1>4, <1>5, <1>6, LockMoves DEF Writes

\* Consent stays the person's.
LEMMA EarnedStep ==
  ASSUME TypeOK, Earned, [Next]_vars
  PROVE  Earned'
<1> USE TypeParts, PackFacts
<1>1. CASE UNCHANGED <<ledger, native, known, props, src, plug>>
  BY <1>1 DEF Earned
<1>2. CASE Boot \/ Crash
  <2>1. UNCHANGED <<ledger, native, known, props, src>> /\ plug'.pc \in {"plan", "off"}
    <3>1. CASE Boot
      BY <3>1 DEF Boot, diskVars, dbVars, NoPlug
    <3>2. CASE Crash
      BY <3>2 DEF Crash, diskVars, dbVars, histVars, NoPlug
    <3> QED
      BY <1>2, <3>1, <3>2
  <2> QED
    BY <2>1 DEF Earned
<1>3. CASE Wipe
  BY <1>3 DEF Wipe, diskVars, histVars, Earned
<1>4. ASSUME NEW p \in Packs, fetch_package(p)
      PROVE  Earned'
  <2>1. \A q \in Packs : src[q] # 0 => src'[q] = src[q]
    BY <1>4 DEF fetch_package, DiskOK
  <2>2. \A q \in Plugins : src[q] \in known[q] => src'[q] \in known[q]
    BY <2>1 DEF HistOK
  <2>3. UNCHANGED <<ledger, native, known, props, plug>>
    BY <1>4 DEF fetch_package, dbVars, histVars
  <2> QED
    BY <2>1, <2>2, <2>3 DEF Earned, DbOK, TaskOK, Plugger, HistOK
<1>5. ASSUME NEW p \in Packs, Pull(p)
      PROVE  Earned'
  <2>1. \A q \in Packs : src'[q] = IF q = p THEN 2 ELSE src[q]
    BY <1>5 DEF Pull, DiskOK
  <2>2. \A q \in Plugins : known[q] \subseteq known'[q] /\ (q = p /\ q \in props \cup plug.got => 2 \in known'[q])
    BY <1>5 DEF Pull, HistOK
  <2>3. \A q \in props \cup plug.got : q \in Plugins /\ (src[q] \in known[q] => src'[q] \in known'[q])
    BY <2>1, <2>2 DEF DbOK, TaskOK, Plugger
  <2>4. UNCHANGED <<ledger, native, props, plug>>
    BY <1>5 DEF Pull, dbVars
  <2>5. plug.ok \cup plug.adds \subseteq Plugins
    BY DEF TaskOK, Plugger
  <2> QED
    BY <2>1, <2>2, <2>3, <2>4, <2>5 DEF Earned, HistOK
<1>6. ASSUME NEW p \in Plugins, NativeInstall(p)
      PROVE  Earned'
  <2>1. \A q \in Plugins : known'[q] = IF q = p THEN known[q] \cup {src[q]} ELSE known[q]
    BY <1>6 DEF NativeInstall, HistOK
  <2>2. UNCHANGED <<src, ledger, plug>> /\ props' = props \cup {p} /\ native' = native \cup {p} /\ src[p] # 0
    BY <1>6 DEF NativeInstall, diskVars
  <2>3. plug.ok \cup plug.adds \cup plug.got \cup props \subseteq Plugins
    BY DEF TaskOK, Plugger, DbOK
  <2> QED
    BY <2>1, <2>2, <2>3 DEF Earned
<1>7. ASSUME NEW p \in Plugins, NativeRemove(p)
      PROVE  Earned'
  BY <1>7 DEF NativeRemove, diskVars, Earned
<1>8. CASE Plan
  <2>1. plug.pc = "plan" /\ UNCHANGED <<src, ledger, native, known, props>>
        /\ plug'.pc \in {"watch", "get"}
        /\ plug'.ok = plan_plugin_reapply /\ plug'.hash = live_plugin_content_hashes /\ plug'.adds = plug.adds
    BY <1>8 DEF Plan, diskVars, dbVars, histVars, TaskOK, Plugger
  <2>2. \A p \in plan_plugin_reapply : p \in native /\ src[p] \in known[p] /\ p \in Plugins
    <3> SUFFICES ASSUME NEW p \in plan_plugin_reapply
                 PROVE  p \in native /\ src[p] \in known[p] /\ p \in Plugins
      OBVIOUS
    <3>1. p \in Plugins /\ classify_plugin_consent(p, TRUE) = "installed"
      BY DEF plan_plugin_reapply, Pins
    <3>2. src[p] # None
      BY <3>1 DEF DiskOK
    <3>3. ledger[p] = src[p]
      BY <3>1, <3>2 DEF classify_plugin_consent, plugin_content_hash
    <3> QED
      BY <3>1, <3>2, <3>3 DEF Earned
  <2>3. \A p \in Plugins : plug'.hash[p] = src[p]
    BY <2>1 DEF live_plugin_content_hashes, plugin_content_hash
  <2> QED
    BY <2>1, <2>2, <2>3 DEF Earned
<1>9. CASE get_profile_props
  <2>1. plug.pc = "get" /\ UNCHANGED <<src, ledger, native, known, props>>
    BY <1>9 DEF get_profile_props, diskVars, dbVars, histVars
  <2>2. \/ /\ plug'.pc \in {"watch", "write"} /\ plug'.got \subseteq props
           /\ plug'.adds \subseteq plug.ok /\ plug'.hash = plug.hash
        \/ plug'.pc \in {"watch", "plan"}
    <3>1. CASE plug' = [plug EXCEPT !.pc = IF plug.ok \subseteq props THEN "watch" ELSE "write",
                          !.got = IF plug.ok \subseteq props THEN {} ELSE props, !.adds = plug.ok \ props, !.ok = {}]
      BY <3>1 DEF TaskOK, Plugger
    <3>2. CASE plug' = [plug EXCEPT !.pc = IF plug.tries = 0 THEN "watch" ELSE "plan", !.ok = {}]
      BY <3>2 DEF TaskOK, Plugger
    <3> QED
      BY <1>9, <3>1, <3>2 DEF get_profile_props
  <2> QED
    BY <2>1, <2>2 DEF Earned
<1>10. CASE reapply_plugin_props
  <2>1. plug.pc = "write" /\ UNCHANGED <<src, ledger, native>> /\ plug'.pc \in {"watch", "plan"}
    BY <1>10 DEF reapply_plugin_props, diskVars, TaskOK, Plugger
  <2>2. CASE UNCHANGED <<props, known>>
    BY <2>1, <2>2 DEF Earned
  <2>3. CASE props' = plug.got \cup plug.adds
             /\ known' = [p \in Plugins |-> IF p \in props' THEN known[p] \cup {src[p]} ELSE known[p]]
    <3>1. props' \subseteq native /\ props' \subseteq Plugins
      BY <2>1, <2>3 DEF Earned, TaskOK, Plugger
    <3>2. \A p \in Plugins : known[p] \subseteq known'[p] /\ (p \in props' => src[p] \in known'[p])
      BY <2>3
    <3> QED
      BY <2>1, <3>1, <3>2 DEF Earned
  <2> QED
    BY <1>10, <2>2, <2>3 DEF reapply_plugin_props
<1>11. CASE CaptureGet
  <2>1. /\ UNCHANGED <<src, ledger, native, known, props>>
        /\ plug'.pc = "record" /\ plug'.got = local_plugin_pointers
    BY <1>11 DEF CaptureGet, diskVars, dbVars, histVars, TaskOK, Plugger
  <2>2. local_plugin_pointers \subseteq props
    BY DEF local_plugin_pointers
  <2> QED
    BY <2>1, <2>2 DEF Earned
<1>12. CASE capture_plugin_props
  <2>1. /\ plug.pc = "record" /\ UNCHANGED <<src, ledger, native, known, props>>
        /\ plug' = [plug EXCEPT !.pc = "ledger", !.hash = live_plugin_content_hashes]
    BY <1>12 DEF capture_plugin_props, diskVars, dbVars, histVars
  <2>2. plug'.pc = "ledger" /\ plug'.got = plug.got /\ plug'.hash = live_plugin_content_hashes
    BY <2>1 DEF TaskOK, Plugger
  <2>3. \A p \in plug.got : live_plugin_content_hashes[p] = src[p]
    BY DEF TaskOK, Plugger, live_plugin_content_hashes, plugin_content_hash
  <2> QED
    BY <2>1, <2>2, <2>3 DEF Earned
<1>13. CASE SaveLedger
  <2>1. /\ plug.pc = "ledger" /\ plug'.pc = "watch" /\ UNCHANGED <<src, native, known, props>>
        /\ ledger' = [p \in Plugins |-> IF p \in plug.got THEN plug.hash[p]
                                        ELSE IF p \in Gone THEN None ELSE ledger[p]]
    BY <1>13 DEF SaveLedger, dbVars, histVars, TaskOK, Plugger
  <2> QED
    BY <2>1 DEF Earned
<1>14. ASSUME NEW r \in Reqs, Handler(r)
       PROVE  UNCHANGED <<ledger, native, known, props, src, plug>>
  <2>1. CASE Start(r) \/ Load(r) \/ Probe(r) \/ Save(r) \/ SaveShared(r)
    BY <2>1 DEF Start, Load, Probe, Save, SaveShared, diskVars, dbVars, histVars
  <2>2. CASE Import(r) \/ Share(r) \/ Rel(r) \/ SaveLink(r)
    BY <2>2 DEF Import, Share, Rel, SaveLink, diskVars, dbVars, histVars
  <2>3. CASE new_from_template(r) \/ do_preserve_drift(r)
    BY <2>3 DEF new_from_template, do_preserve_drift, diskVars, dbVars, histVars
  <2> QED
    BY <1>14, <2>1, <2>2, <2>3 DEF Handler
<1>15. CASE \/ plan_relink \/ spawn_relink_reconcile \/ compute_updates_model \/ UNCHANGED vars
            \/ \E e \in relink.todo : Relink(e)
  <2>1. CASE plan_relink
    BY <1>1, <2>1 DEF plan_relink, diskVars, dbVars, histVars
  <2>2. CASE spawn_relink_reconcile
    BY <1>1, <2>2 DEF spawn_relink_reconcile, diskVars, dbVars, histVars
  <2>3. CASE compute_updates_model \/ UNCHANGED vars
    BY <1>1, <2>3 DEF compute_updates_model, vars, diskVars, dbVars, histVars
  <2>4. CASE \E e \in relink.todo : Relink(e)
    BY <1>1, <2>4 DEF Relink, diskVars, histVars
  <2> QED
    BY <1>15, <2>1, <2>2, <2>3, <2>4
<1>16. ASSUME NEW f \in FileIds, Export(f) \/ Resurrect(f) \/ DeleteFile(f) \/ EditFile(f)
       PROVE  UNCHANGED <<ledger, native, known, props, src, plug>>
  BY <1>16 DEF Export, Resurrect, DeleteFile, EditFile, diskVars, dbVars, histVars
<1> QED
  BY <1>1, <1>2, <1>3, <1>4, <1>5, <1>6, <1>7, <1>8, <1>9, <1>10, <1>11, <1>12, <1>13, <1>14, <1>15, <1>16
  DEF Next, RelinkTask, PluginTask

LEMMA HistStep ==
  ASSUME TypeOK, Handling, Entries, Earned, [Next]_vars
  PROVE  HistOK'
<1> USE TypeParts, PackFacts
<1>1. UNCHANGED <<native, removed, known>> => native' \subseteq Plugins /\ removed' \subseteq Plugins
        /\ known' \in [Plugins -> SUBSET Versions]
  BY DEF HistOK
<1>2. UNCHANGED <<had, remade>> => had' \subseteq Designs /\ remade' \subseteq had'
  BY DEF HistOK
<1>3. CASE Boot
  BY <1>1, <1>3 DEF Boot, HistOK
<1>4. ASSUME NEW r \in Reqs, Save(r)
      PROVE  HistOK'
  <2>1. req[r].pkg \in Designs
    BY <1>4, SaveFacts
  <2> QED
    BY <1>4, <2>1 DEF Save, HistOK
<1>5. ASSUME NEW r \in Reqs, Handler(r), ~Save(r)
      PROVE  UNCHANGED histVars
  <2>1. CASE Start(r) \/ Load(r) \/ Probe(r) \/ SaveShared(r) \/ Import(r) \/ Share(r)
    BY <2>1 DEF Start, Load, Probe, SaveShared, Import, Share
  <2>2. CASE Rel(r) \/ SaveLink(r) \/ new_from_template(r) \/ do_preserve_drift(r)
    BY <2>2 DEF Rel, SaveLink, new_from_template, do_preserve_drift
  <2> QED
    BY <1>5, <2>1, <2>2 DEF Handler
<1>6. CASE Crash \/ Wipe \/ (\E f \in FileIds : Export(f) \/ Resurrect(f) \/ DeleteFile(f) \/ EditFile(f))
           \/ (\E p \in Packs : fetch_package(p))
  <2>1. UNCHANGED histVars
    BY <1>6 DEF Crash, Wipe, Export, Resurrect, DeleteFile, EditFile, fetch_package
  <2> QED
    BY <2>1 DEF histVars, HistOK
<1>7. ASSUME NEW p \in Packs, Pull(p)
      PROVE  HistOK'
  <2>1. \A q \in Plugins : (IF q = p /\ q \in props \cup plug.got THEN known[q] \cup {2} ELSE known[q]) \in SUBSET Versions
    BY DEF HistOK
  <2>2. known' \in [Plugins -> SUBSET Versions] /\ UNCHANGED <<native, removed, had, remade>>
    BY <1>7, <2>1 DEF Pull
  <2> QED
    BY <2>2 DEF HistOK
<1>8. ASSUME NEW p \in Plugins, NativeInstall(p)
      PROVE  HistOK'
  <2>1. src[p] \in Versions
    BY <1>8 DEF NativeInstall, DiskOK
  <2>2. \A q \in Plugins : known[q] \cup {src[p]} \in SUBSET Versions
    BY <2>1 DEF HistOK
  <2>3. known' \in [Plugins -> SUBSET Versions]
    BY <1>8, <2>2 DEF NativeInstall, HistOK
  <2> QED
    BY <1>8, <2>3 DEF NativeInstall, HistOK
<1>9. ASSUME NEW p \in Plugins, NativeRemove(p)
      PROVE  HistOK'
  BY <1>9 DEF NativeRemove, HistOK
<1>10. CASE reapply_plugin_props
  <2>1. CASE UNCHANGED known
    BY <1>10, <2>1 DEF reapply_plugin_props, HistOK
  <2>2. CASE plug.pc = "write" /\ props' = plug.got \cup plug.adds
             /\ known' = [p \in Plugins |-> IF p \in props' THEN known[p] \cup {src[p]} ELSE known[p]]
    <3>1. \A p \in props' : src[p] \in Versions
      <4>1. \A p \in plug.got : src[p] \in Versions
        BY <2>2 DEF Earned, TaskOK, Plugger, HistOK
      <4>2. \A p \in plug.adds : src[p] \in Versions
        BY <2>2 DEF Earned, TaskOK, Plugger, DiskOK
      <4> QED
        BY <2>2, <4>1, <4>2
    <3>2. known' \in [Plugins -> SUBSET Versions]
      BY <2>2, <3>1 DEF HistOK
    <3> QED
      BY <1>10, <3>2 DEF reapply_plugin_props, HistOK
  <2> QED
    BY <1>10, <2>1, <2>2 DEF reapply_plugin_props
<1>11. CASE Plan \/ get_profile_props \/ CaptureGet \/ capture_plugin_props \/ SaveLedger
  <2>1. UNCHANGED histVars
    <3>1. CASE capture_plugin_props
      BY <3>1 DEF capture_plugin_props
    <3> QED
      BY <1>11, <3>1 DEF Plan, get_profile_props, CaptureGet, SaveLedger
  <2> QED
    BY <2>1 DEF histVars, HistOK
<1>12. CASE plan_relink \/ (\E e \in relink.todo : Relink(e)) \/ spawn_relink_reconcile
  <2>1. UNCHANGED histVars
    <3>1. CASE plan_relink
      BY <3>1 DEF plan_relink
    <3>2. CASE spawn_relink_reconcile
      BY <3>2 DEF spawn_relink_reconcile
    <3> QED
      BY <1>12, <3>1, <3>2 DEF Relink
  <2> QED
    BY <2>1 DEF histVars, HistOK
<1>13. CASE compute_updates_model \/ UNCHANGED vars
  BY <1>13 DEF compute_updates_model, vars, histVars, HistOK
<1>14. ASSUME NEW r \in Reqs, Handler(r), ~Save(r)
       PROVE  HistOK'
  BY <1>5, <1>14 DEF histVars, HistOK
<1> QED
  BY <1>3, <1>4, <1>6, <1>7, <1>8, <1>9, <1>10, <1>11, <1>12, <1>13, <1>14 DEF Next, RelinkTask, PluginTask

LEMMA DiskStep ==
  ASSUME TypeOK, Handling, Entries, Earned, [Next]_vars
  PROVE  DiskOK'
<1> USE TypeParts, PackFacts
<1>1. lock' \in Locks
  BY LockStep
<1>2. DiskOK
  OBVIOUS
<1>3. CASE UNCHANGED <<src, ledger, disk, copies>>
  BY <1>1, <1>2, <1>3 DEF DiskOK
<1>4. ASSUME NEW p \in Packs, fetch_package(p) \/ Pull(p)
      PROVE  DiskOK'
  <2>1. src' \in [Packs -> Versions \cup {0}] /\ UNCHANGED <<ledger, disk, copies>>
    BY <1>2, <1>4 DEF fetch_package, Pull, DiskOK
  <2> QED
    BY <1>1, <1>2, <2>1 DEF DiskOK
<1>5. ASSUME NEW f \in FileIds, Export(f) \/ DeleteFile(f)
      PROVE  DiskOK'
  BY <1>1, <1>2, <1>5 DEF Export, DeleteFile, DiskOK
<1>6. ASSUME NEW f \in FileIds, Resurrect(f) \/ EditFile(f)
      PROVE  DiskOK'
  BY <1>3, <1>6 DEF Resurrect, EditFile, diskVars
<1>7. ASSUME NEW r \in Reqs, do_preserve_drift(r)
      PROVE  DiskOK'
  BY <1>1, <1>2, <1>7 DEF do_preserve_drift, DiskOK
<1>8. ASSUME NEW r \in Reqs, Handler(r), ~do_preserve_drift(r)
      PROVE  DiskOK'
  <2>1. CASE Start(r) \/ Load(r) \/ Probe(r) \/ SaveShared(r) \/ Import(r) \/ Share(r)
    BY <1>3, <2>1 DEF Start, Load, Probe, SaveShared, Import, Share, diskVars
  <2>2. CASE Rel(r) \/ SaveLink(r) \/ new_from_template(r) \/ Save(r)
    BY <1>3, <2>2 DEF Rel, SaveLink, new_from_template, Save, diskVars
  <2> QED
    BY <1>8, <2>1, <2>2 DEF Handler
<1>9. CASE SaveLedger
  <2>1. ledger' = [p \in Plugins |-> IF p \in plug.got THEN plug.hash[p]
                                     ELSE IF p \in Gone THEN None ELSE ledger[p]]
        /\ plug.pc = "ledger" /\ UNCHANGED <<src, disk, copies>>
    BY <1>9 DEF SaveLedger
  <2>2. \A p \in plug.got : plug.hash[p] \in Versions
    BY <2>1 DEF Earned, HistOK, TaskOK, Plugger
  <2>3. ledger' \in Ledgers
    BY <1>2, <2>1, <2>2 DEF Ledgers, DiskOK
  <2> QED
    BY <1>1, <1>2, <2>1, <2>3 DEF DiskOK
<1>10. CASE Plan \/ get_profile_props \/ reapply_plugin_props \/ CaptureGet
  BY <1>3, <1>10 DEF Plan, get_profile_props, reapply_plugin_props, CaptureGet, diskVars
<1>11. CASE capture_plugin_props
  BY <1>3, <1>11 DEF capture_plugin_props
<1>12. CASE plan_relink
  BY <1>3, <1>12 DEF plan_relink, diskVars
<1>13. CASE spawn_relink_reconcile
  BY <1>3, <1>13 DEF spawn_relink_reconcile, diskVars
<1>14. ASSUME NEW e \in relink.todo, Relink(e)
       PROVE  DiskOK'
  BY <1>3, <1>14 DEF Relink, diskVars
<1>15. CASE Boot \/ Crash \/ Wipe \/ compute_updates_model \/ UNCHANGED vars
  BY <1>3, <1>15 DEF Boot, Crash, Wipe, compute_updates_model, vars, diskVars
<1>16. ASSUME NEW p \in Plugins, NativeInstall(p) \/ NativeRemove(p)
       PROVE  DiskOK'
  BY <1>3, <1>16 DEF NativeInstall, NativeRemove, diskVars
<1> QED
  BY <1>4, <1>5, <1>6, <1>7, <1>8, <1>9, <1>10, <1>11, <1>12, <1>13, <1>14, <1>15, <1>16
  DEF Next, RelinkTask, PluginTask

\* A new file gets the next id.
LEMMA NewFacts ==
  ASSUME DbOK, files \cup disk \subseteq 1 .. (next - 1), NEW v \in Versions \cup {0}, New(next, v)
  PROVE  /\ next \in FileIds /\ next' = next + 1 /\ next' \in 1 .. MaxFile + 1
         /\ files' = files \cup {next} /\ made' \in [FileIds -> Versions \cup {0}]
         /\ files' \cup disk \subseteq 1 .. (next' - 1)
<1>1. next \in Nat /\ MaxFile \in Nat /\ 1 <= next /\ next <= MaxFile /\ next' = next + 1
      /\ files' = files \cup {next} /\ made' = [made EXCEPT ![next] = v]
  BY CountAssumption DEF New, DbOK
<1> QED
  BY <1>1 DEF FileIds, DbOK

LEMMA DbStep ==
  ASSUME TypeOK, Handling, Entries, Earned, [Next]_vars
  PROVE  DbOK' /\ files' \cup disk' \subseteq 1 .. (next' - 1)
<1> USE TypeParts, PackFacts
<1>1. DbOK /\ files \cup disk \subseteq 1 .. (next - 1)
  BY DEF Entries
<1>2. CASE UNCHANGED dbVars /\ UNCHANGED disk
  BY <1>1, <1>2 DEF dbVars, DbOK
<1>3. ASSUME NEW f \in FileIds, Export(f) \/ Resurrect(f) \/ DeleteFile(f) \/ EditFile(f)
      PROVE  DbOK' /\ files' \cup disk' \subseteq 1 .. (next' - 1)
  <2>1. CASE Export(f)
    BY <1>1, <2>1 DEF Export, dbVars, DbOK
  <2>2. CASE Resurrect(f)
    BY <1>1, <2>2 DEF Resurrect, diskVars, DbOK
  <2>3. CASE DeleteFile(f)
    <3>1. rels' = {e \in rels : f \notin {e[1], e[2]}} /\ files' = files \ {f} /\ rels \subseteq files \X files
      BY <1>1, <2>3 DEF DeleteFile, DbOK
    <3>2. rels' \subseteq files' \X files'
      BY <3>1
    <3> QED
      BY <1>1, <2>3, <3>2 DEF DeleteFile, DbOK
  <2>4. CASE EditFile(f)
    BY <1>1, <2>4 DEF EditFile, diskVars, DbOK
  <2> QED
    BY <1>3, <2>1, <2>2, <2>3, <2>4
<1>4. ASSUME NEW r \in Reqs, Import(r) \/ new_from_template(r)
      PROVE  DbOK' /\ files' \cup disk' \subseteq 1 .. (next' - 1)
  <2>1. UNCHANGED <<disk, shared, rels, props>>
    BY <1>4 DEF Import, new_from_template, diskVars
  <2>2. PICK v \in Versions \cup {0} : New(next, v)
    <3>1. Import(r) => req[r].hash \in Versions
      BY DEF Handling, Knows, HoldsPC, Import, At
    <3> QED
      BY <1>4, <3>1 DEF Import, new_from_template
  <2>3. /\ next \in FileIds /\ next' \in 1 .. MaxFile + 1 /\ files' = files \cup {next}
        /\ made' \in [FileIds -> Versions \cup {0}] /\ files' \cup disk \subseteq 1 .. (next' - 1)
    BY <1>1, <2>2, NewFacts
  <2>4. rels' \subseteq files' \X files'
    BY <1>1, <2>1, <2>3 DEF DbOK
  <2> QED
    BY <1>1, <2>1, <2>3, <2>4 DEF DbOK
<1>5. ASSUME NEW r \in Reqs, Share(r)
      PROVE  DbOK' /\ files' \cup disk' \subseteq 1 .. (next' - 1)
  BY <1>1, <1>5 DEF Share, diskVars, DbOK
<1>6. ASSUME NEW r \in Reqs, Rel(r)
      PROVE  DbOK' /\ files' \cup disk' \subseteq 1 .. (next' - 1)
  BY <1>1, <1>6 DEF Rel, diskVars, DbOK
<1>7. ASSUME NEW r \in Reqs, Handler(r), ~(Import(r) \/ new_from_template(r) \/ Share(r) \/ Rel(r))
      PROVE  DbOK' /\ files' \cup disk' \subseteq 1 .. (next' - 1)
  <2>1. CASE Start(r) \/ Load(r) \/ Probe(r) \/ SaveShared(r)
    BY <1>2, <2>1 DEF Start, Load, Probe, SaveShared, diskVars
  <2>2. CASE SaveLink(r) \/ do_preserve_drift(r) \/ Save(r)
    BY <1>2, <2>2 DEF SaveLink, do_preserve_drift, Save
  <2> QED
    BY <1>7, <2>1, <2>2 DEF Handler
<1>8. CASE Wipe
  BY <1>1, <1>8 DEF Wipe, diskVars, DbOK
<1>9. CASE Boot \/ Crash \/ compute_updates_model \/ UNCHANGED vars
  BY <1>2, <1>9 DEF Boot, Crash, compute_updates_model, vars, diskVars
<1>10. ASSUME NEW p \in Packs, fetch_package(p) \/ Pull(p)
       PROVE  UNCHANGED dbVars /\ UNCHANGED disk
  BY <1>10 DEF fetch_package, Pull
<1>11. ASSUME NEW p \in Plugins, NativeInstall(p) \/ NativeRemove(p)
       PROVE  DbOK' /\ files' \cup disk' \subseteq 1 .. (next' - 1)
  BY <1>1, <1>11 DEF NativeInstall, NativeRemove, diskVars, DbOK
<1>12. CASE Plan \/ get_profile_props \/ CaptureGet \/ SaveLedger
  BY <1>2, <1>12 DEF Plan, get_profile_props, CaptureGet, SaveLedger, diskVars
<1>13. CASE capture_plugin_props
  BY <1>2, <1>13 DEF capture_plugin_props
<1>14. CASE reapply_plugin_props
  BY <1>1, <1>14 DEF reapply_plugin_props, diskVars, DbOK, TaskOK, Plugger
<1>15. CASE plan_relink
  BY <1>2, <1>15 DEF plan_relink, diskVars
<1>16. CASE spawn_relink_reconcile
  BY <1>2, <1>16 DEF spawn_relink_reconcile, diskVars
<1>17. ASSUME NEW e \in relink.todo, Relink(e)
       PROVE  DbOK' /\ files' \cup disk' \subseteq 1 .. (next' - 1)
  <2>1. e \in FileIds \X FileIds
    BY DEF TaskOK, Relinker
  <2>2. {e[1], e[2]} \subseteq files => e \in files \X files /\ e[2] \in FileIds
    BY <2>1
  <2>3. UNCHANGED <<disk, files, made, props, next>>
        /\ (UNCHANGED <<rels, shared>> \/ (/\ {e[1], e[2]} \subseteq files
                                           /\ rels' = rels \cup {e} /\ shared' = shared \cup {e[2]}))
    BY <1>17 DEF Relink, diskVars
  <2> QED
    BY <1>1, <2>2, <2>3 DEF DbOK
<1> QED
  BY <1>2, <1>3, <1>4, <1>5, <1>6, <1>7, <1>8, <1>9, <1>10, <1>11, <1>12, <1>13, <1>14, <1>15, <1>16, <1>17
  DEF Next, RelinkTask, PluginTask

\* The tasks.
LEMMA TaskStep ==
  ASSUME TypeOK, Handling, Entries, Tasks, [Next]_vars
  PROVE  TaskOK' /\ Tasks'
<1> USE TypeParts, PackFacts, CountAssumption
<1>1. relink \in Relinker /\ plug \in Plugger /\ Tasks
  BY DEF TaskOK
<1>2. CASE UNCHANGED <<relink, plug>> /\ (up => up')
  BY <1>1, <1>2 DEF TaskOK, Tasks
<1>3. CASE Boot
  <2>1. relink' \in Relinker /\ relink'.pc = "wait" /\ relink'.tries = Attempts
    <3>1. NoTask \in Relinker /\ Attempts \in 0 .. Attempts
      BY DEF NoTask, Relinker
    <3> QED
      BY <1>3, <3>1 DEF Boot, Relinker
  <2>2. plug' \in Plugger /\ plug'.pc = "plan" /\ plug'.tries = Attempts
    <3>1. NoPlug \in Plugger /\ Attempts \in 0 .. Attempts
      BY DEF NoPlug, Plugger
    <3> QED
      BY <1>3, <3>1 DEF Boot, Plugger
  <2> QED
    BY <1>3, <2>1, <2>2 DEF Boot, TaskOK, Tasks
<1>4. CASE Crash
  BY <1>4 DEF Crash, NoTask, NoPlug, Relinker, Plugger, TaskOK, Tasks
<1>5. CASE plan_relink
  <2> DEFINE all == {<<e.file, e.lib>> : e \in Linked(lock)}
             ready == {e \in all : {e[1], e[2]} \subseteq files}
  <2>1. relink' = [relink EXCEPT !.pc = "apply", !.tries = @ - 1, !.todo = ready, !.blocked = ready # all]
        /\ relink.pc = "wait" /\ up /\ UNCHANGED <<plug, up>>
    BY <1>5 DEF plan_relink
  <2>2. ready \subseteq FileIds \X FileIds
    BY DEF DbOK
  <2>3. relink.tries - 1 \in 0 .. Attempts
    BY <1>1, <2>1 DEF Tasks, Relinker
  <2>4. (ready # all) \in BOOLEAN
    OBVIOUS
  <2> HIDE DEF ready, all
  <2>5. relink' \in Relinker /\ relink'.pc = "apply"
    BY <1>1, <2>1, <2>2, <2>3, <2>4 DEF Relinker
  <2> QED
    BY <1>1, <2>1, <2>5 DEF TaskOK, Tasks
<1>6. ASSUME NEW e \in relink.todo, Relink(e)
      PROVE  TaskOK' /\ Tasks'
  <2>1. UNCHANGED <<plug, up>> /\ up /\ relink.pc = "apply"
        /\ \/ relink' = [relink EXCEPT !.todo = @ \ {e}]
           \/ relink' = [relink EXCEPT !.todo = @ \ {e}, !.blocked = TRUE]
    BY <1>6 DEF Relink
  <2>2. relink' \in Relinker /\ relink'.pc = "apply"
    BY <1>1, <2>1 DEF Relinker
  <2> QED
    BY <1>1, <2>1, <2>2 DEF TaskOK, Tasks
<1>7. CASE spawn_relink_reconcile
  <2> DEFINE pc == CASE ~relink.blocked -> "done"
                     [] relink.blocked /\ relink.tries = 0 -> "closed"
                     [] OTHER -> "wait"
  <2>1. up /\ UNCHANGED <<up, plug>> /\ relink' = [relink EXCEPT !.pc = pc, !.blocked = FALSE]
    BY <1>7 DEF spawn_relink_reconcile
  <2>2. pc \in {"done", "closed", "wait"} /\ (pc = "wait" => relink.tries # 0)
    BY <1>1 DEF Relinker
  <2> HIDE DEF pc
  <2>3. relink' \in Relinker /\ relink'.pc = pc /\ relink'.tries = relink.tries
    BY <1>1, <2>1, <2>2 DEF Relinker
  <2>4. relink.tries \in Nat
    BY <1>1 DEF Relinker
  <2> QED
    BY <1>1, <2>1, <2>2, <2>3, <2>4 DEF TaskOK, Tasks
<1>8. CASE Plan
  <2>1. up /\ UNCHANGED <<up, relink>> /\ plug.pc = "plan"
        /\ plug' = [plug EXCEPT !.pc = IF Pins(lock) = {} THEN "watch" ELSE "get",
                       !.ok = plan_plugin_reapply, !.hash = live_plugin_content_hashes, !.tries = @ - 1]
    BY <1>8 DEF Plan
  <2>2. plan_plugin_reapply \subseteq Plugins \ Remote
    BY DEF plan_plugin_reapply, Pins, is_local_host
  <2>3. live_plugin_content_hashes \in [Plugins -> Versions \cup {0}]
    BY DEF live_plugin_content_hashes, plugin_content_hash, DiskOK
  <2>4. plug.tries - 1 \in 0 .. Attempts
    BY <1>1, <2>1 DEF Tasks, Plugger
  <2>5. plug' \in Plugger /\ plug'.pc \in {"watch", "get"}
    BY <1>1, <2>1, <2>2, <2>3, <2>4 DEF Plugger
  <2> QED
    BY <1>1, <2>1, <2>5 DEF TaskOK, Tasks
<1>9. CASE get_profile_props
  <2>1. up /\ UNCHANGED <<up, relink>>
        /\ \/ plug' = [plug EXCEPT !.pc = IF plug.ok \subseteq props THEN "watch" ELSE "write",
                          !.got = IF plug.ok \subseteq props THEN {} ELSE props, !.adds = plug.ok \ props, !.ok = {}]
           \/ plug' = [plug EXCEPT !.pc = IF plug.tries = 0 THEN "watch" ELSE "plan", !.ok = {}]
    BY <1>9 DEF get_profile_props
  <2>2. props \subseteq Plugins /\ plug.ok \ props \subseteq Plugins \ Remote
    BY <1>1 DEF DbOK, Plugger
  <2> DEFINE pc == IF plug.ok \subseteq props THEN "watch" ELSE "write"
             got == IF plug.ok \subseteq props THEN {} ELSE props
  <2>5. pc \in {"watch", "write"} /\ got \subseteq Plugins
    BY <2>2
  <2> HIDE DEF pc, got
  <2>3. plug' \in Plugger /\ plug'.tries = plug.tries /\ (plug'.pc = "plan" => plug.tries # 0) /\ plug'.pc # "off"
    <3>1. CASE plug' = [plug EXCEPT !.pc = pc, !.got = got, !.adds = plug.ok \ props, !.ok = {}]
      BY <1>1, <2>2, <2>5, <3>1 DEF Plugger
    <3>2. CASE plug' = [plug EXCEPT !.pc = IF plug.tries = 0 THEN "watch" ELSE "plan", !.ok = {}]
      BY <1>1, <3>2 DEF Plugger
    <3> QED
      BY <2>1, <3>1, <3>2 DEF pc, got
  <2>4. plug.tries \in Nat
    BY <1>1 DEF Plugger
  <2> QED
    BY <1>1, <2>1, <2>3, <2>4 DEF TaskOK, Tasks
<1>10. CASE reapply_plugin_props
  <2>1. up /\ UNCHANGED <<up, relink>>
        /\ \/ plug' = [plug EXCEPT !.pc = "watch", !.got = {}, !.adds = {}]
           \/ plug' = [plug EXCEPT !.pc = IF plug.tries = 0 THEN "watch" ELSE "plan", !.got = {}, !.adds = {}]
    BY <1>10 DEF reapply_plugin_props
  <2>2. plug' \in Plugger /\ plug'.tries = plug.tries /\ (plug'.pc = "plan" => plug.tries # 0)
    BY <1>1, <2>1 DEF Plugger
  <2>3. plug.tries \in Nat
    BY <1>1 DEF Plugger
  <2> QED
    BY <1>1, <2>1, <2>2, <2>3 DEF TaskOK, Tasks
<1>11. CASE CaptureGet \/ SaveLedger
  <2>1. up /\ UNCHANGED <<up, relink>>
        /\ \/ plug' = [plug EXCEPT !.pc = "record", !.got = local_plugin_pointers]
           \/ plug' = [plug EXCEPT !.pc = "watch", !.seen = plug.got, !.got = {}]
    BY <1>11 DEF CaptureGet, SaveLedger
  <2>2. local_plugin_pointers \subseteq Plugins
    BY DEF local_plugin_pointers, DbOK
  <2>3. plug' \in Plugger /\ plug'.pc \in {"record", "watch"}
    BY <1>1, <2>1, <2>2 DEF Plugger
  <2> QED
    BY <1>1, <2>1, <2>3 DEF TaskOK, Tasks
<1>12. CASE capture_plugin_props
  <2>1. up /\ UNCHANGED <<up, relink>> /\ plug' = [plug EXCEPT !.pc = "ledger", !.hash = live_plugin_content_hashes]
    BY <1>12 DEF capture_plugin_props
  <2>2. live_plugin_content_hashes \in [Plugins -> Versions \cup {0}]
    BY DEF live_plugin_content_hashes, plugin_content_hash, DiskOK
  <2>3. plug' \in Plugger /\ plug'.pc = "ledger"
    BY <1>1, <2>1, <2>2 DEF Plugger
  <2> QED
    BY <1>1, <2>1, <2>3 DEF TaskOK, Tasks
<1>13. ASSUME NEW r \in Reqs, Handler(r)
       PROVE  UNCHANGED <<relink, plug>> /\ (up => up')
  <2>1. CASE Load(r) \/ Probe(r) \/ SaveShared(r)
    BY <2>1 DEF Load, Probe, SaveShared
  <2>3. CASE Start(r)
    BY <2>3 DEF Start
  <2>4. CASE Import(r) \/ Share(r)
    BY <2>4 DEF Import, Share
  <2>2. CASE Rel(r) \/ SaveLink(r) \/ new_from_template(r) \/ Save(r) \/ do_preserve_drift(r)
    BY <2>2 DEF Rel, SaveLink, new_from_template, Save, do_preserve_drift
  <2> QED
    BY <1>13, <2>1, <2>2, <2>3, <2>4 DEF Handler
<1>14. CASE \/ Wipe \/ (\E f \in FileIds : Export(f) \/ Resurrect(f) \/ DeleteFile(f) \/ EditFile(f))
            \/ (\E p \in Packs : fetch_package(p) \/ Pull(p))
            \/ (\E p \in Plugins : NativeInstall(p) \/ NativeRemove(p))
            \/ compute_updates_model \/ UNCHANGED vars
  <2>1. UNCHANGED <<relink, plug>> /\ (up => up')
    BY <1>14 DEF Wipe, Export, Resurrect, DeleteFile, EditFile, fetch_package, Pull, NativeInstall,
      NativeRemove, compute_updates_model, vars
  <2> QED
    BY <1>2, <2>1
<1>15. ASSUME NEW r \in Reqs, Handler(r)
       PROVE  TaskOK' /\ Tasks'
  BY <1>2, <1>13, <1>15
<1> QED
  BY <1>3, <1>4, <1>5, <1>6, <1>7, <1>8, <1>9, <1>10, <1>11, <1>12, <1>14, <1>15 DEF Next, RelinkTask, PluginTask

LEMMA Spent ==
  ASSUME RestOK, NEW k \in Kinds, Spend(k)
  PROVE  left' \in [Kinds \cup {"together"} -> Nat] /\ left'["together"] = left["together"]
<1>1. k # "together" /\ left \in [Kinds \cup {"together"} -> Nat] /\ left[k] \in Nat /\ left[k] > 0
      /\ left' = [left EXCEPT ![k] = left[k] - 1]
  BY DEF RestOK, Spend, Kinds
<1>2. left[k] - 1 \in Nat
  BY <1>1
<1> HIDE DEF Kinds
<1> QED
  BY <1>1, <1>2

\* What is left of the scenario, and that nothing makes requests overlap that did not.
LEMMA RestStep ==
  ASSUME TypeOK, [Next]_vars
  PROVE  RestOK' /\ left'["together"] = left["together"]
<1> USE TypeParts, PackFacts
<1>1. RestOK
  OBVIOUS
<1>2. {"crash", "wipe", "delete", "edit", "fetch", "pull", "native", "remove", "poll", "fault"} \subseteq Kinds
      /\ ReqOps \subseteq Kinds
  BY DEF Kinds, ReqOps
<1>3. Silent \in [Designs -> [update : BOOLEAN, bump : BOOLEAN]]
      /\ \A p \in Designs : classify_update(p) \in [update : BOOLEAN, bump : BOOLEAN]
  BY DEF Silent, classify_update
<1>4. /\ up' \in BOOLEAN
      /\ shown' \in [Designs -> [update : BOOLEAN, bump : BOOLEAN]]
      /\ UNCHANGED left \/ (\E k \in Kinds : Spend(k))
  <2>1. ASSUME NEW r \in Reqs, Handler(r)
        PROVE  UNCHANGED <<up, shown>> /\ (UNCHANGED left \/ (\E k \in Kinds : Spend(k)))
    <3>1. CASE Start(r)
      BY <1>2, <3>1 DEF Start
    <3>2. CASE Load(r) \/ Probe(r) \/ SaveShared(r) \/ Import(r) \/ Share(r)
      BY <1>2, <3>2 DEF Load, Probe, SaveShared, Import, Share, Fails
    <3>3. CASE Rel(r) \/ SaveLink(r) \/ new_from_template(r) \/ Save(r) \/ do_preserve_drift(r)
      BY <1>2, <3>3 DEF Rel, SaveLink, new_from_template, Save, do_preserve_drift, Fails
    <3> QED
      BY <2>1, <3>1, <3>2, <3>3 DEF Handler
  <2>2. CASE Boot \/ Crash \/ Wipe \/ UNCHANGED vars
    BY <1>1, <1>2, <1>3, <2>2 DEF Boot, Crash, Wipe, vars, RestOK
  <2>3. CASE compute_updates_model
    BY <1>1, <1>2, <1>3, <2>3 DEF compute_updates_model, RestOK
  <2>4. ASSUME NEW f \in FileIds, Export(f) \/ Resurrect(f) \/ DeleteFile(f) \/ EditFile(f)
        PROVE  UNCHANGED <<up, shown>> /\ (UNCHANGED left \/ (\E k \in Kinds : Spend(k)))
    BY <1>2, <2>4 DEF Export, Resurrect, DeleteFile, EditFile
  <2>5. ASSUME NEW p \in Packs, fetch_package(p) \/ Pull(p)
        PROVE  UNCHANGED <<up, shown>> /\ (UNCHANGED left \/ (\E k \in Kinds : Spend(k)))
    BY <1>2, <2>5 DEF fetch_package, Pull
  <2>6. ASSUME NEW p \in Plugins, NativeInstall(p) \/ NativeRemove(p)
        PROVE  UNCHANGED <<up, shown>> /\ (UNCHANGED left \/ (\E k \in Kinds : Spend(k)))
    BY <1>2, <2>6 DEF NativeInstall, NativeRemove
  <2>7. ASSUME PluginTask
        PROVE  UNCHANGED <<up, shown>> /\ (UNCHANGED left \/ (\E k \in Kinds : Spend(k)))
    <3>1. CASE capture_plugin_props
      BY <3>1 DEF capture_plugin_props
    <3> QED
      BY <1>2, <2>7, <3>1 DEF PluginTask, Plan, get_profile_props, reapply_plugin_props, CaptureGet, SaveLedger, Fails
  <2>8. ASSUME RelinkTask
        PROVE  UNCHANGED <<up, shown>> /\ (UNCHANGED left \/ (\E k \in Kinds : Spend(k)))
    <3>1. CASE plan_relink
      BY <3>1 DEF plan_relink
    <3>2. CASE \E e \in relink.todo : Relink(e)
      BY <1>2, <3>2 DEF Relink, Fails
    <3>3. CASE spawn_relink_reconcile
      BY <3>3 DEF spawn_relink_reconcile
    <3> QED
      BY <2>8, <3>1, <3>2, <3>3 DEF RelinkTask
  <2> QED
    BY <1>1, <2>1, <2>2, <2>3, <2>4, <2>5, <2>6, <2>7, <2>8 DEF Next, RestOK
<1> QED
  BY <1>1, <1>4, Spent DEF RestOK
-----------------------------------------------------------------------------
(* How a request, a link and a lock.json move. *)

\* A request's next state: it stands, is answered, or takes one of its handler's steps.
Alike(q, t) == t.pkg = q.pkg /\ t.lib = q.lib /\ t.libFile = q.libFile
Moved(r) ==
  LET q == req[r]  t == req'[r]
  IN \/ t = q
     \/ t.pc \in {"ok", "failed"}
     \/ q.pc = "queued" /\ t.pc \in {"load", "template", "drift"} /\ t.libFile = 0 /\ Start(r)
     \/ q.pc = "load" /\ t.pc \in {"probe", "import"} /\ t.snap = lock /\ Alike(q, t)
     \/ q.pc = "probe" /\ t.pc = "import" /\ t.snap = q.snap /\ Alike(q, t)
     \/ q.pc = "probe" /\ t.pc \in {"rel", "share"} /\ t.file = q.snap[q.pkg].file /\ Alike(q, t)
     \/ q.pc = "import" /\ t.pc = "save" /\ t.snap = q.snap /\ t.file = next /\ next' = next + 1 /\ Alike(q, t)
     \/ q.pc = "save" /\ t.pc \in {"rel", "share"} /\ t.file = q.file /\ Alike(q, t) /\ Save(r)
     \/ q.pc = "share" /\ t.pc = "saveShared" /\ t.file = q.file /\ Alike(q, t)
     \/ q.pc = "rel" /\ t.pc = "saveLink" /\ t.file = q.file /\ <<q.file, q.libFile>> \in rels' /\ Alike(q, t)
     \/ q.pc = "saveShared" /\ t.pc = "load" /\ t.libFile = q.file /\ t.lib = q.pkg

\* One handler at a time.
LEMMA Others ==
  ASSUME ReqOK, NEW r \in Reqs, Handler(r)
  PROVE  /\ up /\ UNCHANGED <<up, relink>>
         /\ \A s \in Reqs : s # r => req'[s] = req[s]
<1>1. ASSUME NEW st, Serve(r, st)
      PROVE  \A s \in Reqs : s # r => req'[s] = req[s]
  BY <1>1 DEF Serve, ReqOK
<1>2. CASE Load(r) \/ Probe(r) \/ SaveShared(r)
  BY <1>1, <1>2 DEF Load, Probe, SaveShared, At
<1>3. CASE Start(r)
  BY <1>1, <1>3 DEF Start, At
<1>4. CASE Import(r) \/ Share(r) \/ Save(r)
  BY <1>1, <1>4 DEF Import, Share, Save, At
<1>5. CASE Rel(r) \/ SaveLink(r) \/ new_from_template(r) \/ do_preserve_drift(r)
  BY <1>1, <1>5 DEF Rel, SaveLink, new_from_template, do_preserve_drift, At
<1> QED
  BY <1>2, <1>3, <1>4, <1>5 DEF Handler

LEMMA OwnMove ==
  ASSUME TypeOK, Handling, Entries, NEW r \in Reqs, Handler(r)
  PROVE  Moved(r)
<1> USE TypeParts, PackFacts
<1> DEFINE q == req[r]
<1>1. q \in Request /\ Knows(q)
  BY DEF ReqOK, Handling
<1>2. ASSUME NEW st, Serve(r, st)
      PROVE  req'[r] = st
  BY <1>2 DEF Serve, ReqOK
<1>3. \A pc \in ReqPC : /\ [q EXCEPT !.pc = pc].pc = pc /\ [q EXCEPT !.pc = pc].file = q.file
                        /\ [q EXCEPT !.pc = pc].snap = q.snap /\ Alike(q, [q EXCEPT !.pc = pc])
  BY <1>1 DEF Request, Alike
<1>4. CASE Start(r)
  <2>1. PICK op \in ReqOps, p \in Designs, l \in Designs :
          Serve(r, [NoReq EXCEPT !.op = op, !.pkg = IF op = "link" THEN l ELSE p,
                                 !.lib = IF op = "link" THEN p ELSE None,
                                 !.pc = IF op \in {"template", "drift"} THEN op ELSE "load"])
    BY <1>4 DEF Start
  <2>2. req'[r] = [NoReq EXCEPT !.op = op, !.pkg = IF op = "link" THEN l ELSE p,
                                 !.lib = IF op = "link" THEN p ELSE None,
                                 !.pc = IF op \in {"template", "drift"} THEN op ELSE "load"]
    BY <1>2, <2>1
  <2>3. req'[r].pc \in {"load", "template", "drift"} /\ req'[r].libFile = 0
    BY <2>2 DEF NoReq
  <2> QED
    BY <1>4, <2>3 DEF Moved, Start, At
<1>5. CASE Load(r)
  <2>1. CASE Serve(r, [q EXCEPT !.pc = "failed"])
    BY <1>2, <1>3, <2>1 DEF Moved, ReqPC
  <2>2. ASSUME NEW h, NEW pc \in {"import", "probe"}, Serve(r, [q EXCEPT !.hash = h, !.snap = lock, !.pc = pc])
        PROVE  Moved(r)
    <3>1. req'[r] = [q EXCEPT !.hash = h, !.snap = lock, !.pc = pc]
      BY <1>2, <2>2
    <3>2. req'[r].pc = pc /\ req'[r].snap = lock /\ Alike(q, req'[r])
      BY <1>1, <3>1 DEF Request, Alike
    <3> QED
      BY <1>5, <3>2 DEF Moved, Load, At
  <2>3. \/ Serve(r, [q EXCEPT !.pc = "failed"])
        \/ Serve(r, [q EXCEPT !.hash = Source(q.pkg), !.snap = lock,
                      !.pc = IF lock[q.pkg] = None \/ lock[q.pkg].hash # Source(q.pkg) THEN "import" ELSE "probe"])
    BY <1>5 DEF Load
  <2> QED
    BY <2>1, <2>2, <2>3
<1>6. CASE Probe(r)
  <2> DEFINE f == q.snap[q.pkg].file
             p == [q EXCEPT !.file = f]
  <2>1. q.pc = "probe" /\ q.pkg \in Designs /\ q.snap \in Views /\ q.snap[q.pkg] # None
    BY <1>1, <1>6 DEF Probe, At, Knows, Views, HoldsPC
  <2>2. f \in FileIds
    BY <2>1 DEF Entries
  <2>3. CASE Serve(r, AfterInstall(p))
    <3>1. p \in Request /\ p.file = f /\ Alike(q, p)
      BY <1>1, <2>2 DEF Request, FileIds, Alike
    <3>2. req'[r] = AfterInstall(p)
      BY <1>2, <2>3
    <3> HIDE DEF p
    <3>3. req'[r].pc \in {"ok", "rel", "share"} /\ req'[r].file = f /\ Alike(q, req'[r])
      BY <3>1, <3>2, Onwards DEF Alike
    <3> QED
      BY <2>1, <3>3 DEF Moved
  <2>4. CASE Serve(r, [q EXCEPT !.pc = "import"])
    <3>1. req'[r] = [q EXCEPT !.pc = "import"]
      BY <1>2, <2>4
    <3>2. req'[r].pc = "import" /\ req'[r].snap = q.snap /\ Alike(q, req'[r])
      BY <1>3, <3>1 DEF ReqPC
    <3> QED
      BY <2>1, <3>2 DEF Moved
  <2> QED
    BY <1>6, <2>3, <2>4 DEF Probe
<1>7. CASE Import(r)
  <2>1. q.pc = "import" /\ next' = next + 1
    BY <1>7 DEF Import, At, New
  <2>2. CASE Serve(r, [q EXCEPT !.file = next, !.pc = "save"])
    <3>1. req'[r] = [q EXCEPT !.file = next, !.pc = "save"]
      BY <1>2, <2>2
    <3>2. req'[r].pc = "save" /\ req'[r].file = next /\ req'[r].snap = q.snap /\ Alike(q, req'[r])
      BY <1>1, <3>1 DEF Request, Alike
    <3> QED
      BY <2>1, <3>2 DEF Moved
  <2>3. CASE Serve(r, [q EXCEPT !.pc = "failed", !.snap = None])
    <3>1. req'[r] = [q EXCEPT !.pc = "failed", !.snap = None]
      BY <1>2, <2>3
    <3>2. req'[r].pc = "failed"
      BY <1>1, <3>1 DEF Request
    <3> QED
      BY <3>2 DEF Moved
  <2> QED
    BY <1>7, <2>2, <2>3 DEF Import
<1>8. CASE Save(r)
  <2>1. q.pc = "save" /\ req'[r] = AfterInstall(q)
    BY <1>2, <1>8 DEF Save, At
  <2>2. req'[r].pc \in {"ok", "rel", "share"} /\ req'[r].file = q.file /\ Alike(q, req'[r])
    BY <1>1, <2>1, Onwards DEF Alike
  <2> QED
    BY <1>8, <2>1, <2>2 DEF Moved
<1>9. CASE Share(r)
  <2>1. q.pc = "share" /\ (Serve(r, [q EXCEPT !.pc = "saveShared"]) \/ Serve(r, [q EXCEPT !.pc = "failed"]))
    BY <1>9 DEF Share, At
  <2>2. \/ req'[r].pc = "saveShared" /\ req'[r].file = q.file /\ Alike(q, req'[r])
        \/ req'[r].pc = "failed"
    BY <1>2, <1>3, <2>1 DEF ReqPC
  <2> QED
    BY <2>1, <2>2 DEF Moved
<1>10. CASE SaveShared(r)
  <2>1. CASE Serve(r, [q EXCEPT !.pc = "ok"])
    BY <1>2, <1>3, <2>1 DEF Moved, ReqPC
  <2>2. CASE Serve(r, [q EXCEPT !.pc = "load", !.libFile = q.file, !.pkg = q.lib, !.lib = q.pkg, !.file = 0])
    <3>1. req'[r] = [q EXCEPT !.pc = "load", !.libFile = q.file, !.pkg = q.lib, !.lib = q.pkg, !.file = 0]
      BY <1>2, <2>2
    <3>2. req'[r].pc = "load" /\ req'[r].libFile = q.file /\ req'[r].lib = q.pkg
      BY <1>1, <3>1 DEF Request
    <3> QED
      BY <1>10, <3>2 DEF Moved, SaveShared, At
  <2> QED
    BY <1>10, <2>1, <2>2 DEF SaveShared
<1>11. CASE Rel(r)
  <2>1. CASE rels' = rels \cup {<<q.file, q.libFile>>} /\ Serve(r, [q EXCEPT !.pc = "saveLink"])
    BY <1>2, <1>3, <1>11, <2>1 DEF Moved, ReqPC, Rel, At
  <2>2. CASE Serve(r, [q EXCEPT !.pc = "failed"])
    BY <1>2, <1>3, <2>2 DEF Moved, ReqPC
  <2> QED
    BY <1>11, <2>1, <2>2 DEF Rel
<1>12. CASE SaveLink(r) \/ new_from_template(r) \/ do_preserve_drift(r)
  <2>1. Serve(r, [q EXCEPT !.pc = "ok"]) \/ Serve(r, [q EXCEPT !.pc = "failed"])
    BY <1>12 DEF SaveLink, new_from_template, do_preserve_drift
  <2> QED
    BY <1>2, <1>3, <2>1 DEF Moved, ReqPC
<1> QED
  BY <1>4, <1>5, <1>6, <1>7, <1>8, <1>9, <1>10, <1>11, <1>12 DEF Handler

\* What is no handler's step leaves the requests alone, or answers them all.
LEMMA Elsewhere ==
  ASSUME [Next]_vars, \A r \in Reqs : ~Handler(r)
  PROVE  UNCHANGED req \/ Crash
<1>1. CASE \/ Boot \/ Wipe \/ (\E f \in FileIds : Export(f) \/ Resurrect(f) \/ DeleteFile(f) \/ EditFile(f))
           \/ (\E p \in Packs : fetch_package(p) \/ Pull(p))
           \/ (\E p \in Plugins : NativeInstall(p) \/ NativeRemove(p))
           \/ compute_updates_model \/ UNCHANGED vars
  BY <1>1 DEF Boot, Wipe, Export, Resurrect, DeleteFile, EditFile, fetch_package, Pull, NativeInstall,
      NativeRemove, compute_updates_model, vars
<1>2. CASE plan_relink
  BY <1>2 DEF plan_relink
<1>3. CASE \E e \in relink.todo : Relink(e)
  BY <1>3 DEF Relink
<1>4. CASE spawn_relink_reconcile
  BY <1>4 DEF spawn_relink_reconcile
<1>5. CASE Plan \/ get_profile_props \/ reapply_plugin_props \/ CaptureGet \/ SaveLedger
  BY <1>5 DEF Plan, get_profile_props, reapply_plugin_props, CaptureGet, SaveLedger
<1>6. CASE capture_plugin_props
  BY <1>6 DEF capture_plugin_props
<1> QED
  BY <1>1, <1>2, <1>3, <1>4, <1>5, <1>6 DEF Next, RelinkTask, PluginTask

LEMMA AllMove ==
  ASSUME TypeOK, Handling, Entries, [Next]_vars
  PROVE  \A r \in Reqs : Moved(r)
<1>1. ASSUME NEW r \in Reqs, Handler(r)
      PROVE  \A s \in Reqs : Moved(s)
  <2>1. \A s \in Reqs : s # r => req'[s] = req[s]
    BY <1>1, Others, TypeParts
  <2> QED
    BY <1>1, <2>1, OwnMove DEF Moved
<1>2. CASE UNCHANGED req
  BY <1>2 DEF Moved
<1>3. CASE Crash
  <2>1. \A r \in Reqs : req'[r] = req[r] \/ req'[r].pc = "failed"
    BY <1>3 DEF Crash, NoReq
  <2> QED
    BY <2>1 DEF Moved
<1> QED
  BY <1>1, <1>2, <1>3, Elsewhere

\* A life of the app forgets neither what had an entry nor what was imported again.
LEMMA Memory ==
  ASSUME [Next]_vars, up
  PROVE  had \subseteq had' /\ remade \subseteq remade'
<1>1. ASSUME NEW r \in Reqs, Handler(r)
      PROVE  had \subseteq had' /\ remade \subseteq remade'
  <2>1. CASE Save(r)
    BY <2>1 DEF Save
  <2>2. CASE Start(r) \/ Load(r) \/ Probe(r) \/ SaveShared(r) \/ Import(r) \/ Share(r)
    BY <2>2 DEF Start, Load, Probe, SaveShared, Import, Share, histVars
  <2>3. CASE Rel(r) \/ SaveLink(r) \/ new_from_template(r) \/ do_preserve_drift(r)
    BY <2>3 DEF Rel, SaveLink, new_from_template, do_preserve_drift, histVars
  <2> QED
    BY <1>1, <2>1, <2>2, <2>3 DEF Handler
<1>2. CASE \/ Boot \/ Crash \/ Wipe
           \/ (\E f \in FileIds : Export(f) \/ Resurrect(f) \/ DeleteFile(f) \/ EditFile(f))
           \/ (\E p \in Packs : fetch_package(p) \/ Pull(p))
  BY <1>2 DEF Boot, Crash, Wipe, Export, Resurrect, DeleteFile, EditFile, fetch_package, Pull, histVars
<1>3. CASE (\E p \in Plugins : NativeInstall(p) \/ NativeRemove(p)) \/ compute_updates_model \/ UNCHANGED vars
  BY <1>3 DEF NativeInstall, NativeRemove, compute_updates_model, vars, histVars
<1>4. CASE plan_relink
  BY <1>4 DEF plan_relink, histVars
<1>5. CASE \E e \in relink.todo : Relink(e)
  BY <1>5 DEF Relink, histVars
<1>6. CASE spawn_relink_reconcile
  BY <1>6 DEF spawn_relink_reconcile, histVars
<1>7. CASE Plan \/ get_profile_props \/ reapply_plugin_props \/ CaptureGet \/ SaveLedger
  BY <1>7 DEF Plan, get_profile_props, reapply_plugin_props, CaptureGet, SaveLedger, histVars
<1>8. CASE capture_plugin_props
  BY <1>8 DEF capture_plugin_props, histVars
<1> QED
  BY <1>1, <1>2, <1>3, <1>4, <1>5, <1>6, <1>7, <1>8 DEF Next, RelinkTask, PluginTask

\* Only a wipe of the database undoes a relation whose ends are not gone for good.
LEMMA SettledStays ==
  ASSUME TypeOK, Entries, [Next]_vars, ~Wipe, NEW e \in FileIds \X FileIds, Settled(e)
  PROVE  Settled(e)'
<1> USE TypeParts
<1>1. e[1] \in FileIds /\ e[2] \in FileIds /\ next \in Nat /\ FileIds \subseteq Nat
  BY CountAssumption DEF DbOK, FileIds
<1>2. CASE UNCHANGED <<files, disk, next>> /\ rels \subseteq rels'
  BY <1>2 DEF Settled, Dead
<1>3. ASSUME NEW f \in FileIds, Export(f) \/ Resurrect(f) \/ EditFile(f)
      PROVE  Settled(e)'
  <2>1. files' \cup disk' = files \cup disk /\ UNCHANGED <<next, rels>>
    BY <1>3 DEF Export, Resurrect, EditFile, dbVars, diskVars
  <2> QED
    BY <2>1 DEF Settled, Dead
<1>4. ASSUME NEW f \in FileIds, DeleteFile(f)
      PROVE  Settled(e)'
  <2>1. files' = files \ {f} /\ disk' = disk \ {f} /\ next' = next
        /\ rels' = {d \in rels : f \notin {d[1], d[2]}} /\ f \in files
    BY <1>4 DEF DeleteFile
  <2>2. \A g \in FileIds : Dead(g) => Dead(g)'
    BY <2>1 DEF Dead
  <2>3. e \in rels => e \in rels' \/ f \in {e[1], e[2]}
    BY <2>1
  <2>4. f < next
    BY <1>1, <2>1 DEF Entries
  <2>5. Dead(f)'
    BY <2>1, <2>4 DEF Dead
  <2> QED
    BY <1>1, <2>2, <2>3, <2>5 DEF Settled
<1>5. ASSUME NEW r \in Reqs, Import(r) \/ new_from_template(r)
      PROVE  Settled(e)'
  <2>1. files' = files \cup {next} /\ next' = next + 1 /\ UNCHANGED <<disk, rels>>
    BY <1>5 DEF Import, new_from_template, New, diskVars
  <2>2. \A f \in FileIds : Dead(f) => Dead(f)'
    BY <1>1, <2>1 DEF Dead
  <2> QED
    BY <1>1, <2>1, <2>2 DEF Settled
<1>6. ASSUME NEW r \in Reqs, Handler(r), ~Import(r), ~new_from_template(r)
      PROVE  Settled(e)'
  <2>1. CASE Start(r) \/ Load(r) \/ Probe(r) \/ SaveShared(r) \/ Share(r)
    BY <1>2, <2>1 DEF Start, Load, Probe, SaveShared, Share, diskVars, dbVars
  <2>2. CASE Rel(r) \/ SaveLink(r) \/ Save(r) \/ do_preserve_drift(r)
    BY <1>2, <2>2 DEF Rel, SaveLink, Save, do_preserve_drift, diskVars, dbVars
  <2> QED
    BY <1>6, <2>1, <2>2 DEF Handler
<1>7. CASE Boot \/ Crash \/ (\E p \in Packs : fetch_package(p) \/ Pull(p)) \/ compute_updates_model \/ UNCHANGED vars
  BY <1>2, <1>7 DEF Boot, Crash, fetch_package, Pull, compute_updates_model, vars, diskVars, dbVars
<1>8. CASE \E p \in Plugins : NativeInstall(p) \/ NativeRemove(p)
  BY <1>2, <1>8 DEF NativeInstall, NativeRemove, diskVars
<1>9. CASE plan_relink
  BY <1>2, <1>9 DEF plan_relink, diskVars, dbVars
<1>10. CASE \E d \in relink.todo : Relink(d)
  BY <1>2, <1>10 DEF Relink, diskVars
<1>11. CASE spawn_relink_reconcile
  BY <1>2, <1>11 DEF spawn_relink_reconcile, diskVars, dbVars
<1>12. CASE Plan \/ get_profile_props \/ reapply_plugin_props \/ CaptureGet \/ SaveLedger
  BY <1>2, <1>12 DEF Plan, get_profile_props, reapply_plugin_props, CaptureGet, SaveLedger, diskVars, dbVars
<1>13. CASE capture_plugin_props
  BY <1>2, <1>13 DEF capture_plugin_props, dbVars
<1> QED
  BY <1>2, <1>3, <1>4, <1>5, <1>6, <1>7, <1>8, <1>9, <1>10, <1>11, <1>12, <1>13 DEF Next, RelinkTask, PluginTask

\* What a handler has read was on disk.
LEMMA ViewsStep ==
  ASSUME TypeOK, Handling, Entries, [Next]_vars
  PROVE  /\ \A r \in Reqs : req'[r].pc \in HoldsPC => req'[r].snap \in Views
         /\ \A v \in Views' : v \in Views \/ v = lock'
<1>1. ASSUME NEW r \in Reqs, req'[r].pc \in HoldsPC
      PROVE  req'[r].snap \in Views
  <2>1. Moved(r)
    BY AllMove
  <2> QED
    BY <1>1, <2>1 DEF Moved, HoldsPC, Views
<1> QED
  BY <1>1 DEF Views

LEMMA ViewLocks ==
  ASSUME TypeOK, Handling
  PROVE  \A v \in Views : v \in Locks /\ \A p \in Packs : v[p] # None => v[p] \in Entry
BY TypeParts DEF Views, Handling, Knows, DiskOK, Locks

LEMMA EntriesStep ==
  ASSUME TypeOK, Handling, Entries, Earned, [Next]_vars
  PROVE  Entries'
BY ViewsStep, LockStep, DbStep DEF Entries

\* What the lock.json on disk says next of a package's links comes from one that is about,
\* or from nothing.
Follows(u, p) ==
  /\ (lock'[p] = None) = (u[p] = None) /\ (u[p] # None => lock'[p].file = u[p].file)
  /\ LinksOf(u, p) \subseteq LinksOf(lock', p)
  /\ \A e \in LinksOf(lock', p) : e \in LinksOf(u, p) \/ Settled(e)
Anew(p) == p \notin had /\ LinksOf(lock', p) = {} /\ lock'[p] # None
           /\ \E r \in Reqs : Save(r) /\ req[r].pkg = p /\ lock'[p].file = req[r].file

LEMMA Descent ==
  ASSUME IInv, [Next]_vars, up, NEW p \in Designs, p \notin remade'
  PROVE  (\E u \in Views : Follows(u, p)) \/ Anew(p)
<1> USE TypeParts, PackFacts
<1>1. TypeOK /\ Handling /\ Entries /\ Earned /\ lock \in Views /\ p \notin remade /\ p \in Packs
  BY Memory DEF IInv, Views
<1>2. CASE lock'[p] = lock[p]
  BY <1>1, <1>2 DEF Follows, LinksOf
<1>3. CASE Stands(p)
  BY <1>1, <1>3 DEF Follows, LinksOf, Stands
<1>4. ASSUME NEW r \in Reqs, Save(r)
      PROVE  (\E u \in Views : Follows(u, p)) \/ Anew(p)
  <2> DEFINE q == req[r]
             u == q.snap
  <2>1. /\ u \in Views /\ q.pkg \in Designs /\ \A c \in Packs \ {q.pkg} : lock'[c] = u[c]
        /\ lock'[q.pkg] # None /\ lock'[q.pkg].file = q.file
        /\ lock'[q.pkg].links = IF u[q.pkg] = None THEN {} ELSE u[q.pkg].links
    BY <1>1, <1>4, SaveFacts
  <2>2. CASE p # q.pkg
    <3>1. lock'[p] = u[p]
      BY <1>1, <2>1, <2>2
    <3>2. Follows(u, p)
      BY <3>1 DEF Follows, LinksOf
    <3> QED
      BY <2>1, <3>2
  <2>3. CASE p = q.pkg
    <3>1. p \notin had
      BY <1>1, <1>4, <2>3 DEF Save
    <3>2. u[p] = None
      BY <2>1, <2>3, <3>1 DEF IInv, Had
    <3>3. LinksOf(lock', p) = {}
      BY <2>1, <2>3, <3>2 DEF LinksOf
    <3> QED
      BY <1>4, <2>1, <2>3, <3>1, <3>3 DEF Anew
  <2> QED
    BY <2>2, <2>3
<1>5. ASSUME NEW r \in Reqs, SaveLink(r), lock' # lock
      PROVE  (\E u \in Views : Follows(u, p)) \/ Anew(p)
  <2> DEFINE q == req[r]
             l == [file |-> q.libFile, pkg |-> q.lib]
  <2>1. /\ q.pc = "saveLink" /\ q.pkg \in Designs /\ lock[q.pkg] # None /\ lock'[q.pkg] # None
        /\ lock'[q.pkg].file = lock[q.pkg].file
        /\ lock'[q.pkg].links = {k \in lock[q.pkg].links : k.file # q.libFile} \cup {l}
        /\ \A c \in Packs \ {q.pkg} : lock'[c] = lock[c]
    BY <1>1, <1>5, SaveLinkFacts
  <2>2. CASE p # q.pkg
    BY <1>1, <1>2, <2>1, <2>2
  <2>3. CASE p = q.pkg
    <3>1. q.file = lock[p].file
      BY <1>1, <2>1, <2>3 DEF IInv, SameFile, Filed
    <3>2. Settled(<<lock[p].file, q.libFile>>)
      BY <2>1, <3>1 DEF IInv, Related
    <3>3. LinksOf(lock, p) = {<<lock[p].file, k.file>> : k \in lock[p].links}
      BY <2>1, <2>3 DEF LinksOf
    <3>4. LinksOf(lock', p) = {<<lock[p].file, k.file>> : k \in lock'[p].links}
      BY <2>1, <2>3 DEF LinksOf
    <3>5. l \in lock'[p].links /\ l.file = q.libFile
          /\ \A k \in lock[p].links : k \in lock'[p].links \/ k.file = l.file
      BY <2>1, <2>3
    <3>6. \A k \in lock'[p].links : k \in lock[p].links \/ k.file = q.libFile
      BY <2>1, <2>3
    <3> HIDE DEF l
    <3>7. LinksOf(lock, p) \subseteq LinksOf(lock', p)
      BY <3>3, <3>4, <3>5
    <3>8. \A e \in LinksOf(lock', p) : e \in LinksOf(lock, p) \/ Settled(e)
      BY <3>2, <3>3, <3>4, <3>6
    <3>9. Follows(lock, p)
      BY <2>1, <2>3, <3>7, <3>8 DEF Follows
    <3> QED
      BY <1>1, <3>9
  <2> QED
    BY <2>2, <2>3
<1>6. ASSUME NEW r \in Reqs, SaveShared(r)
      PROVE  Stands(p)
  BY <1>1, <1>6, SaveSharedFacts
<1>7. CASE capture_plugin_props
  BY <1>1, <1>3, <1>7, CaptureFacts
<1> QED
  BY <1>1, <1>2, <1>3, <1>4, <1>5, <1>6, <1>7, LockMoves DEF Writes

LEMMA Pairs ==
  ASSUME TypeOK, Handling, Entries, NEW v \in Views, NEW p \in Designs, NEW e \in LinksOf(v, p)
  PROVE  e \in FileIds \X FileIds
<1>1. v[p] # None /\ v[p] \in Entry /\ v[p].file \in FileIds
  BY ViewLocks, PackFacts DEF Entries, LinksOf
<1>2. \A k \in v[p].links : k.file \in FileIds
  BY <1>1 DEF Entry, Link
<1> QED
  BY <1>1, <1>2 DEF LinksOf

\* What an entry may have come from: a reboot starts a new memory of it.
LEMMA BootFacts ==
  ASSUME IInv, [Next]_vars, ~up, up'
  PROVE  Boot /\ Views = {lock} /\ UNCHANGED <<lock, req>> /\ \A r \in Reqs : ~Active(r)
<1>1. Boot
  <2>1. ASSUME NEW r \in Reqs, Handler(r)
        PROVE  FALSE
    BY <2>1, Others, TypeParts DEF IInv
  <2>2. CASE Crash \/ Wipe \/ compute_updates_model \/ UNCHANGED vars
    BY <2>2 DEF Crash, Wipe, compute_updates_model, vars
  <2>3. CASE \E f \in FileIds : Export(f) \/ Resurrect(f) \/ DeleteFile(f) \/ EditFile(f)
    BY <2>3 DEF Export, Resurrect, DeleteFile, EditFile
  <2>4. CASE \/ (\E p \in Packs : fetch_package(p) \/ Pull(p))
             \/ (\E p \in Plugins : NativeInstall(p) \/ NativeRemove(p))
    BY <2>4 DEF fetch_package, Pull, NativeInstall, NativeRemove
  <2>5. CASE plan_relink \/ (\E e \in relink.todo : Relink(e)) \/ spawn_relink_reconcile
    BY <2>5 DEF plan_relink, Relink, spawn_relink_reconcile
  <2>6. CASE \/ Plan \/ get_profile_props \/ reapply_plugin_props \/ CaptureGet \/ SaveLedger
             \/ capture_plugin_props
    BY <2>6 DEF Plan, get_profile_props, reapply_plugin_props, CaptureGet, SaveLedger, capture_plugin_props
  <2> QED
    BY <2>1, <2>2, <2>3, <2>4, <2>5, <2>6 DEF Next, RelinkTask, PluginTask
<1>2. \A r \in Reqs : ~Active(r)
  BY DEF IInv, Handling
<1>3. \A r \in Reqs : req[r].pc \notin HoldsPC
  BY <1>2 DEF Active, HoldsPC
<1> QED
  BY <1>1, <1>2, <1>3 DEF Boot, diskVars, Views
-----------------------------------------------------------------------------
(* The parts about the lock.json that are about. *)

LEMMA HadStep ==
  ASSUME IInv, [Next]_vars
  PROVE  Had'
<1> USE TypeParts, PackFacts
<1>1. /\ \A v \in Views' : v \in Views \/ v = lock'
      /\ \A r \in Reqs : Moved(r)
  BY ViewsStep, AllMove DEF IInv
<1>2. CASE ~up'
  BY <1>2 DEF Had
<1>3. CASE ~up /\ up'
  <2>1. Boot /\ Views = {lock} /\ UNCHANGED <<lock, req>> /\ \A r \in Reqs : ~Active(r)
    BY <1>3, BootFacts
  <2>2. \A r \in Reqs : req'[r].pc \notin Filed
    BY <2>1 DEF Active, Filed
  <2> QED
    BY <1>1, <2>1, <2>2 DEF Had, Boot
<1>4. CASE up /\ up'
  <2>1. had \subseteq had' /\ remade' \subseteq had'
    BY <1>4, Memory, HistStep DEF HistOK, IInv
  <2>2. ASSUME NEW p \in Designs, lock'[p] # None
        PROVE  p \in had'
    <3>1. CASE p \notin remade'
      <4>1. (\E u \in Views : Follows(u, p)) \/ Anew(p)
        BY <1>4, <3>1, Descent
      <4>2. ASSUME NEW u \in Views, Follows(u, p)
            PROVE  p \in had
        BY <1>4, <2>2, <4>2 DEF IInv, Had, Follows
      <4>3. Anew(p) => p \in had'
        BY DEF Anew, Save
      <4> QED
        BY <2>1, <4>1, <4>2, <4>3
    <3> QED
      BY <2>1, <3>1
  <2>3. ASSUME NEW r \in Reqs, req'[r].pc \in Filed \ {"save"}
        PROVE  req'[r].pkg \in had'
    <3>1. CASE req'[r] = req[r] \/ (req[r].pc \in {"share", "rel"} /\ Alike(req[r], req'[r]))
      BY <1>4, <2>1, <2>3, <3>1 DEF IInv, Had, Filed, Alike
    <3>2. CASE req[r].pc = "probe" /\ Alike(req[r], req'[r])
      <4>1. req[r].snap \in Views /\ req[r].pkg \in Designs /\ req[r].snap[req[r].pkg] # None
        BY <3>2 DEF IInv, Handling, Knows, Views, HoldsPC
      <4> QED
        BY <1>4, <2>1, <3>2, <4>1 DEF IInv, Had, Alike
    <3>3. CASE Save(r) /\ Alike(req[r], req'[r])
      BY <3>3 DEF Save, Alike
    <3> QED
      BY <1>1, <2>3, <3>1, <3>2, <3>3 DEF Moved, Filed
  <2> QED
    BY <1>1, <1>4, <2>1, <2>2, <2>3 DEF Had, IInv
<1>5. up' \in BOOLEAN /\ up \in BOOLEAN
  BY RestStep DEF IInv, RestOK
<1> QED
  BY <1>2, <1>3, <1>4, <1>5

LEMMA SameFileStep ==
  ASSUME IInv, [Next]_vars
  PROVE  SameFile'
<1> USE TypeParts, PackFacts
<1>1. /\ \A v \in Views' : v \in Views \/ v = lock'
      /\ \A r \in Reqs : Moved(r)
      /\ lock' \in Views'
  BY ViewsStep, AllMove DEF IInv, Views
<1>2. CASE ~up /\ up'
  <2>1. Boot /\ Views = {lock} /\ UNCHANGED <<lock, req>> /\ \A r \in Reqs : ~Active(r)
    BY <1>2, BootFacts
  <2>2. \A r \in Reqs : req'[r].pc \notin Filed
    BY <2>1 DEF Active, Filed
  <2> QED
    BY <1>1, <2>1, <2>2 DEF SameFile
<1>3. ASSUME up, NEW p \in Designs, p \notin remade'
      PROVE  \A v \in Views' : v[p] # None =>
               /\ \A w \in Views' : w[p] # None => v[p].file = w[p].file
               /\ \A r \in Reqs : req'[r].pc \in Filed \ {"save"} /\ req'[r].pkg = p
                    => req'[r].file = v[p].file
  <2>1. p \notin remade
    BY <1>3, Memory
  <2>2. (\E u \in Views : Follows(u, p)) \/ Anew(p)
    BY <1>3, Descent
  <2>3. /\ \A v, w \in Views : v[p] # None /\ w[p] # None => v[p].file = w[p].file
        /\ \A v \in Views : v[p] # None =>
             \A r \in Reqs : req[r].pc \in Filed \ {"save"} /\ req[r].pkg = p => req[r].file = v[p].file
    BY <1>3, <2>1 DEF IInv, SameFile
  <2>4. p \notin had =>
          /\ \A v \in Views : v[p] = None
          /\ \A r \in Reqs : req[r].pc \in Filed \ {"save"} => req[r].pkg # p
    BY <1>3 DEF IInv, Had
  <2>5. \A v, w \in Views' : v[p] # None /\ w[p] # None => v[p].file = w[p].file
    BY <1>1, <2>2, <2>3, <2>4 DEF Follows, Anew
  <2>6. ASSUME NEW v \in Views', v[p] # None,
               NEW r \in Reqs, req'[r].pc \in Filed \ {"save"}, req'[r].pkg = p
        PROVE  req'[r].file = v[p].file
    <3>1. CASE \/ req'[r] = req[r]
               \/ req[r].pc \in {"share", "rel"} /\ Alike(req[r], req'[r]) /\ req'[r].file = req[r].file
      <4>1. req[r].pc \in Filed \ {"save"} /\ req[r].pkg = p /\ req'[r].file = req[r].file
        BY <2>6, <3>1 DEF Filed, Alike
      <4>2. \A u \in Views : u[p] # None => req[r].file = u[p].file
        BY <2>3, <4>1
      <4>3. ~Anew(p)
        BY <2>4, <4>1 DEF Anew
      <4> QED
        BY <1>1, <2>2, <2>6, <4>1, <4>2, <4>3 DEF Follows
    <3>2. CASE req[r].pc = "probe" /\ Alike(req[r], req'[r]) /\ req'[r].file = req[r].snap[req[r].pkg].file
      <4>1. req[r].snap \in Views /\ req[r].pkg = p /\ req[r].snap[p] # None
        BY <2>6, <3>2 DEF IInv, Handling, Knows, Views, HoldsPC, Alike
      <4>2. ~Anew(p)
        BY <2>4, <4>1 DEF Anew
      <4> QED
        BY <1>1, <2>2, <2>3, <2>6, <3>2, <4>1, <4>2 DEF Follows
    <3>3. CASE Save(r) /\ Alike(req[r], req'[r]) /\ req'[r].file = req[r].file
      <4>1. lock'[p] # None /\ lock'[p].file = req[r].file
        BY <2>6, <3>3, SaveFacts DEF IInv, Alike
      <4> QED
        BY <1>1, <2>5, <2>6, <3>3, <4>1
    <3> QED
      BY <1>1, <2>6, <3>1, <3>2, <3>3 DEF Moved, Filed
  <2> QED
    BY <2>5, <2>6
<1>4. up' \in BOOLEAN /\ up \in BOOLEAN
  BY RestStep DEF IInv, RestOK
<1> QED
  BY <1>2, <1>3, <1>4 DEF SameFile

\* The relations lock.json asks for are between files.
LEMMA LockPairs ==
  ASSUME NEW lk \in Locks, NEW p \in Designs, lk[p] # None => lk[p].file \in FileIds, NEW e \in LinksOf(lk, p)
  PROVE  e \in FileIds \X FileIds
<1>1. lk[p] # None /\ lk[p] \in Entry /\ lk[p].file \in FileIds
  BY PackFacts DEF LinksOf, Locks
<1>2. \A k \in lk[p].links : k.file \in FileIds
  BY <1>1 DEF Entry, Link
<1> QED
  BY <1>1, <1>2 DEF LinksOf

LEMMA SameLinksStep ==
  ASSUME IInv, [Next]_vars
  PROVE  SameLinks'
<1> USE TypeParts, PackFacts
<1>1. /\ \A v \in Views' : v \in Views \/ v = lock'
      /\ lock' \in Locks /\ \A p \in Designs : lock'[p] # None => lock'[p].file \in FileIds
  BY ViewsStep, LockStep DEF IInv
<1>2. CASE ~up /\ up'
  <2>1. Boot /\ Views = {lock} /\ UNCHANGED lock
    BY <1>2, BootFacts
  <2> QED
    BY <1>1, <2>1 DEF SameLinks
<1>3. ASSUME up, NEW p \in Designs, p \notin remade', NEW v \in Views', NEW w \in Views', NEW e \in LinksOf(v, p)
      PROVE  e \in LinksOf(w, p) \/ Settled(e)'
  <2>1. p \notin remade
    BY <1>3, Memory
  <2>2. e \in FileIds \X FileIds
    BY <1>1, <1>3, LockPairs, Pairs DEF IInv
  <2>3. Settled(e) => Settled(e)'
    <3>1. ~Wipe
      BY <1>3 DEF Wipe
    <3> QED
      BY <2>2, <3>1, SettledStays DEF IInv
  <2>4. CASE Anew(p)
    <3>1. \A u \in Views : u[p] = None
      BY <1>3, <2>4 DEF IInv, Had, Anew
    <3> QED
      BY <1>1, <1>3, <2>4, <3>1 DEF Anew, LinksOf
  <2>5. ASSUME NEW u \in Views, Follows(u, p)
        PROVE  e \in LinksOf(w, p) \/ Settled(e)
    <3>1. PICK x \in Views : e \in LinksOf(x, p) \/ Settled(e)
      BY <1>1, <1>3, <2>5 DEF Follows
    <3>2. PICK y \in Views : LinksOf(y, p) \subseteq LinksOf(w, p)
      BY <1>1, <1>3, <2>5 DEF Follows
    <3>3. e \in LinksOf(x, p) => e \in LinksOf(y, p) \/ Settled(e)
      BY <1>3, <2>1 DEF IInv, SameLinks
    <3> QED
      BY <3>1, <3>2, <3>3
  <2> QED
    BY <1>3, <2>3, <2>4, <2>5, Descent
<1>4. up' \in BOOLEAN /\ up \in BOOLEAN
  BY RestStep DEF IInv, RestOK
<1>5. CASE up
  <2>1. SameLinks' = (up' => \A p \in Designs \ remade' : \A v, w \in Views' :
                        \A e \in LinksOf(v, p) : e \in LinksOf(w, p) \/ Settled(e)')
    BY DEF SameLinks, LinksOf
  <2> QED
    BY <1>3, <1>5, <2>1
<1>6. CASE ~up'
  BY <1>6 DEF SameLinks
<1> QED
  BY <1>2, <1>4, <1>5, <1>6

LEMMA RelatedStep ==
  ASSUME IInv, [Next]_vars
  PROVE  Related'
<1>1. ASSUME NEW r \in Reqs, req'[r].pc = "saveLink", NEW f, NEW g, req'[r].file = f, req'[r].libFile = g
      PROVE  Settled(<<f, g>>)'
  <2>1. Moved(r)
    BY AllMove DEF IInv
  <2>2. CASE req'[r] = req[r]
    <3>1. up /\ f \in FileIds /\ g \in FileIds /\ req[r].pc = "saveLink" /\ req[r].file = f /\ req[r].libFile = g
      BY <1>1, <2>2 DEF IInv, Handling, Knows, Active, Filed
    <3>2. Settled(<<f, g>>) /\ ~Wipe
      BY <3>1 DEF IInv, Related, Wipe
    <3> QED
      BY <3>1, <3>2, SettledStays DEF IInv
  <2>3. CASE req'[r].file = req[r].file /\ Alike(req[r], req'[r]) /\ <<req[r].file, req[r].libFile>> \in rels'
    <3>1. req[r].file = f /\ req[r].libFile = g
      BY <1>1, <2>3 DEF Alike
    <3> QED
      BY <2>3, <3>1 DEF Settled
  <2> QED
    BY <1>1, <2>1, <2>2, <2>3 DEF Moved
<1>2. ASSUME NEW r \in Reqs, req'[r].pc = "saveLink"
      PROVE  \A f, g : req'[r].file = f /\ req'[r].libFile = g =>
               <<f, g>> \in rels' \/ Dead(f)' \/ Dead(g)'
  BY <1>1, <1>2 DEF Settled
<1> QED
  BY <1>2 DEF Related, Settled, Dead
LEMMA PlannedStep ==
  ASSUME IInv, [Next]_vars
  PROVE  Planned'
<1> USE TypeParts, PackFacts
<1> DEFINE Ready(t) == t.pc = "done" \/ (t.pc = "apply" /\ ~t.blocked)
<1>1. ASSUME NEW p \in Designs, NEW e \in LinksOf(lock, p)
      PROVE  e \in FileIds \X FileIds
  BY <1>1, Pairs DEF IInv, Views
<1>2. CASE UNCHANGED relink
  <2>1. SUFFICES ASSUME Ready(relink), NEW p \in Designs, p \notin remade', NEW e \in LinksOf(lock', p)
                 PROVE  Settled(e)' \/ (relink.pc = "apply" /\ e \in relink.todo)
    BY <1>2 DEF Planned, LinksOf
  <2>2. up /\ ~Wipe
    <3>1. up
      BY <2>1 DEF IInv, Tasks
    <3> QED
      BY <3>1 DEF Wipe
  <2>3. p \notin remade
    BY <2>1, <2>2, Memory
  <2>4. PICK u \in Views : Follows(u, p)
    BY <2>1, <2>2, Descent DEF Anew
  <2>5. e \in LinksOf(lock, p) \/ Settled(e)
    BY <2>1, <2>2, <2>3, <2>4 DEF Follows, IInv, SameLinks, Views
  <2>6. Settled(e) \/ (relink.pc = "apply" /\ e \in relink.todo)
    BY <2>1, <2>3, <2>5 DEF IInv, Planned
  <2>7. e \in FileIds \X FileIds
    BY <2>1, LockStep, LockPairs DEF IInv
  <2> QED
    BY <2>2, <2>6, <2>7, SettledStays DEF IInv
<1>3. CASE Boot \/ Crash
  <2>1. relink'.pc \in {"wait", "off"}
    <3>1. CASE Boot
      BY <3>1 DEF Boot, NoTask
    <3>2. CASE Crash
      BY <3>2 DEF Crash, NoTask
    <3> QED
      BY <1>3, <3>1, <3>2
  <2> QED
    BY <2>1 DEF Planned
<1>4. CASE plan_relink
  <2> DEFINE all == {<<d.file, d.lib>> : d \in Linked(lock)}
             ready == {d \in all : {d[1], d[2]} \subseteq files}
  <2>1. UNCHANGED lock /\ relink' = [relink EXCEPT !.pc = "apply", !.tries = @ - 1, !.todo = ready, !.blocked = ready # all]
    BY <1>4 DEF plan_relink, diskVars
  <2>2. relink \in Relinker
    BY DEF IInv, TaskOK
  <2> HIDE DEF ready, all
  <2>3. relink'.pc = "apply" /\ relink'.todo = ready /\ relink'.blocked = (ready # all)
    BY <2>1, <2>2 DEF Relinker
  <2>4. \A p \in Designs : LinksOf(lock, p) \subseteq all
    <3> SUFFICES ASSUME NEW p \in Designs, lock[p] # None, NEW k \in lock[p].links
                 PROVE  <<lock[p].file, k.file>> \in all
      BY DEF LinksOf
    <3>1. [file |-> lock[p].file, lib |-> k.file] \in Linked(lock)
      BY DEF Linked
    <3> QED
      BY <3>1 DEF all
  <2>5. \A p \in Designs : LinksOf(lock', p) = LinksOf(lock, p)
    BY <2>1
  <2> QED
    BY <2>3, <2>4, <2>5 DEF Planned, LinksOf
<1>5. ASSUME NEW d \in relink.todo, Relink(d)
      PROVE  Planned'
  <2>1. UNCHANGED <<lock, disk, files, next, remade>> /\ relink.pc = "apply"
    BY <1>5 DEF Relink, diskVars, histVars
  <2>2. relink \in Relinker
    BY DEF IInv, TaskOK
  <2>3. CASE rels' = rels \cup {d} /\ relink' = [relink EXCEPT !.todo = @ \ {d}]
    <3>1. relink'.pc = "apply" /\ relink'.todo = relink.todo \ {d} /\ relink'.blocked = relink.blocked
      BY <2>1, <2>2, <2>3 DEF Relinker
    <3> QED
      BY <2>1, <2>3, <3>1 DEF IInv, Planned, Settled, Dead, LinksOf
  <2>4. CASE relink' = [relink EXCEPT !.todo = @ \ {d}, !.blocked = TRUE]
    <3>1. relink'.pc = "apply" /\ relink'.blocked
      BY <2>1, <2>2, <2>4 DEF Relinker
    <3> QED
      BY <3>1 DEF Planned
  <2> QED
    BY <1>5, <2>3, <2>4 DEF Relink
<1>6. CASE spawn_relink_reconcile
  <2> DEFINE pc == CASE ~relink.blocked -> "done"
                     [] relink.blocked /\ relink.tries = 0 -> "closed"
                     [] OTHER -> "wait"
  <2>1. /\ UNCHANGED <<lock, disk, files, rels, next, remade>>
        /\ relink.pc = "apply" /\ relink.todo = {} /\ relink' = [relink EXCEPT !.pc = pc, !.blocked = FALSE]
    BY <1>6 DEF spawn_relink_reconcile, diskVars, dbVars, histVars
  <2>2. relink \in Relinker
    BY DEF IInv, TaskOK
  <2>3. pc \in {"done", "closed", "wait"} /\ (pc = "done" => ~relink.blocked)
    BY <2>2 DEF Relinker
  <2> HIDE DEF pc
  <2>4. relink'.pc = pc
    BY <2>1, <2>2 DEF Relinker
  <2>5. CASE pc = "done"
    BY <2>1, <2>3, <2>4, <2>5 DEF IInv, Planned, Settled, Dead, LinksOf
  <2> QED
    BY <2>3, <2>4, <2>5 DEF Planned
<1>7. ASSUME NEW r \in Reqs, Handler(r)
      PROVE  UNCHANGED relink
  BY <1>7, Others DEF IInv
<1>8. CASE \/ Wipe \/ (\E f \in FileIds : Export(f) \/ Resurrect(f) \/ DeleteFile(f) \/ EditFile(f))
           \/ (\E p \in Packs : fetch_package(p) \/ Pull(p))
           \/ (\E p \in Plugins : NativeInstall(p) \/ NativeRemove(p))
           \/ compute_updates_model \/ UNCHANGED vars
  BY <1>2, <1>8 DEF Wipe, Export, Resurrect, DeleteFile, EditFile, fetch_package, Pull, NativeInstall,
    NativeRemove, compute_updates_model, vars
<1>9. CASE Plan \/ get_profile_props \/ reapply_plugin_props \/ CaptureGet \/ SaveLedger
  BY <1>2, <1>9 DEF Plan, get_profile_props, reapply_plugin_props, CaptureGet, SaveLedger
<1>10. CASE capture_plugin_props
  BY <1>2, <1>10 DEF capture_plugin_props
<1> QED
  BY <1>2, <1>3, <1>4, <1>5, <1>6, <1>7, <1>8, <1>9, <1>10 DEF Next, RelinkTask, PluginTask

\* A file's package is the one it was imported for: only an import makes a new tie.
LEMMA Ties ==
  ASSUME IInv, [Next]_vars, NEW p \in Designs, NEW f \in FileIds, Owns(p, f)'
  PROVE  \/ Owns(p, f)
         \/ f = next /\ next' = next + 1 /\ \E r \in Reqs : req[r].pc = "import" /\ req[r].pkg = p /\ req'[r].pc = "save"
<1> USE TypeParts, PackFacts
<1>1. /\ \A v \in Views' : v \in Views \/ v = lock'
      /\ \A r \in Reqs : Moved(r)
      /\ lock \in Views /\ p \in Packs
  BY ViewsStep, AllMove DEF IInv, Views
<1>2. CASE \E v \in Views' : v[p] # None /\ v[p].file = f
  <2>1. CASE \E v \in Views : v[p] # None /\ v[p].file = f
    BY <2>1 DEF Owns
  <2>2. ASSUME lock'[p] # None, lock'[p].file = f
        PROVE  Owns(p, f)
    <3>1. CASE Stands(p)
      BY <1>1, <2>2, <3>1 DEF Owns, Stands
    <3>2. ASSUME NEW r \in Reqs, Save(r)
          PROVE  Owns(p, f)
      <4>1. /\ req[r].pc = "save" /\ req[r].snap \in Views /\ lock'[req[r].pkg].file = req[r].file
            /\ \A q \in Packs \ {req[r].pkg} : lock'[q] = req[r].snap[q]
        BY <3>2, SaveFacts DEF IInv
      <4> QED
        BY <1>1, <2>2, <4>1 DEF Owns, Filed
    <3>3. ASSUME NEW r \in Reqs, SaveLink(r), lock' # lock
          PROVE  Owns(p, f)
      <4>1. /\ lock[req[r].pkg] # None /\ lock'[req[r].pkg].file = lock[req[r].pkg].file
            /\ \A q \in Packs \ {req[r].pkg} : lock'[q] = lock[q]
        BY <3>3, SaveLinkFacts DEF IInv
      <4> QED
        BY <1>1, <2>2, <4>1 DEF Owns
    <3>4. CASE UNCHANGED lock
      BY <1>1, <2>2, <3>4 DEF Owns
    <3>5. CASE (\E r \in Reqs : SaveShared(r)) \/ capture_plugin_props
      BY <1>1, <3>1, <3>5, SaveSharedFacts, CaptureFacts DEF IInv
    <3> QED
      BY <3>2, <3>3, <3>4, <3>5, LockMoves DEF IInv, Writes
  <2> QED
    BY <1>1, <1>2, <2>1, <2>2
<1>3. CASE \E v \in Views' : \E c \in Designs : v[c] # None /\ [file |-> f, pkg |-> p] \in v[c].links
  <2>1. CASE \E v \in Views : \E c \in Designs : v[c] # None /\ [file |-> f, pkg |-> p] \in v[c].links
    BY <2>1 DEF Owns
  <2>2. ASSUME NEW c \in Designs, lock'[c] # None, [file |-> f, pkg |-> p] \in lock'[c].links
        PROVE  Owns(p, f)
    <3>0. c \in Packs
      OBVIOUS
    <3>1. CASE Stands(c)
      BY <1>1, <2>2, <3>1 DEF Owns, Stands
    <3>2. ASSUME NEW r \in Reqs, Save(r)
          PROVE  Owns(p, f)
      <4>1. /\ req[r].snap \in Views
            /\ lock'[req[r].pkg].links = IF req[r].snap[req[r].pkg] = None THEN {} ELSE req[r].snap[req[r].pkg].links
            /\ \A q \in Packs \ {req[r].pkg} : lock'[q] = req[r].snap[q]
        BY <3>2, SaveFacts DEF IInv
      <4> QED
        BY <2>2, <3>0, <4>1 DEF Owns
    <3>3. ASSUME NEW r \in Reqs, SaveLink(r), lock' # lock
          PROVE  Owns(p, f)
      <4> DEFINE q == req[r]
      <4>1. /\ q.pc = "saveLink" /\ lock[q.pkg] # None
            /\ lock'[q.pkg].links = {k \in lock[q.pkg].links : k.file # q.libFile}
                                      \cup {[file |-> q.libFile, pkg |-> q.lib]}
            /\ \A d \in Packs \ {q.pkg} : lock'[d] = lock[d]
        BY <3>3, SaveLinkFacts DEF IInv
      <4>2. CASE [file |-> f, pkg |-> p] = [file |-> q.libFile, pkg |-> q.lib]
        <5>1. q.libFile = f /\ q.lib = p
          BY <4>2
        <5> QED
          BY <4>1, <5>1 DEF Owns, Active
      <4>3. CASE lock[c] # None /\ [file |-> f, pkg |-> p] \in lock[c].links
        BY <1>1, <4>3 DEF Owns
      <4> QED
        BY <2>2, <3>0, <4>1, <4>2, <4>3
    <3>4. CASE UNCHANGED lock
      BY <1>1, <2>2, <3>4 DEF Owns
    <3>5. CASE (\E r \in Reqs : SaveShared(r)) \/ capture_plugin_props
      BY <3>0, <3>1, <3>5, SaveSharedFacts, CaptureFacts DEF IInv
    <3> QED
      BY <3>2, <3>3, <3>4, <3>5, LockMoves DEF IInv, Writes
  <2> QED
    BY <1>1, <1>3, <2>1, <2>2
<1>4. ASSUME NEW r \in Reqs, req'[r].pc \in Filed, req'[r].pkg = p, req'[r].file = f
      PROVE  \/ Owns(p, f)
             \/ f = next /\ next' = next + 1 /\ req[r].pc = "import" /\ req[r].pkg = p /\ req'[r].pc = "save"
  <2>1. CASE req'[r] = req[r]
    BY <1>4, <2>1 DEF Owns
  <2>2. CASE req[r].pc \in {"save", "share", "rel"} /\ Alike(req[r], req'[r]) /\ req'[r].file = req[r].file
    BY <1>4, <2>2 DEF Owns, Alike, Filed
  <2>3. CASE req[r].pc = "probe" /\ Alike(req[r], req'[r]) /\ req'[r].file = req[r].snap[req[r].pkg].file
    <3>1. req[r].snap \in Views /\ req[r].pkg = p /\ req[r].snap[p] # None
      BY <1>4, <2>3 DEF IInv, Handling, Knows, Views, HoldsPC, Alike
    <3> QED
      BY <1>4, <2>3, <3>1 DEF Owns
  <2>4. CASE req[r].pc = "import" /\ req'[r].pc = "save" /\ req'[r].file = next /\ next' = next + 1 /\ Alike(req[r], req'[r])
    BY <1>4, <2>4 DEF Alike
  <2> QED
    BY <1>1, <1>4, <2>1, <2>2, <2>3, <2>4 DEF Moved, Filed
<1>5. ASSUME NEW r \in Reqs, Active(r)', req'[r].lib = p, req'[r].libFile = f
      PROVE  Owns(p, f)
  <2>1. f # 0
    BY DEF FileIds
  <2>2. CASE req'[r] = req[r]
    BY <1>5, <2>2 DEF Owns, Active
  <2>3. CASE req[r].pc \notin {"queued", "ok", "failed"} /\ Alike(req[r], req'[r])
    BY <1>5, <2>3 DEF Owns, Active, Alike
  <2>4. CASE req[r].pc = "saveShared" /\ req'[r].libFile = req[r].file /\ req'[r].lib = req[r].pkg
    BY <1>5, <2>4 DEF Owns, Filed
  <2> QED
    BY <1>1, <1>5, <2>1, <2>2, <2>3, <2>4 DEF Moved, Active
<1> QED
  BY <1>2, <1>3, <1>4, <1>5 DEF Owns

LEMMA OneOwnerStep ==
  ASSUME IInv, [Next]_vars
  PROVE  OneOwner'
<1> USE TypeParts, PackFacts
<1>1. next \in Nat /\ next' \in Nat /\ FileIds \subseteq Nat
  BY DbStep, CountAssumption DEF IInv, DbOK, FileIds
<1>2. next <= next'
  <2>1. next' = next \/ next' = next + 1
    <3>1. ASSUME NEW r \in Reqs, Handler(r)
          PROVE  next' = next \/ next' = next + 1
      <4>1. CASE Import(r) \/ new_from_template(r)
        BY <4>1 DEF Import, new_from_template, New
      <4>2. CASE Start(r) \/ Load(r) \/ Probe(r) \/ SaveShared(r) \/ Share(r)
        BY <4>2 DEF Start, Load, Probe, SaveShared, Share, dbVars
      <4>3. CASE Rel(r) \/ SaveLink(r) \/ Save(r) \/ do_preserve_drift(r)
        BY <4>3 DEF Rel, SaveLink, Save, do_preserve_drift, dbVars
      <4> QED
        BY <3>1, <4>1, <4>2, <4>3 DEF Handler
    <3>2. CASE \/ Boot \/ Crash \/ Wipe
               \/ (\E f \in FileIds : Export(f) \/ Resurrect(f) \/ DeleteFile(f) \/ EditFile(f))
               \/ (\E p \in Packs : fetch_package(p) \/ Pull(p))
               \/ (\E p \in Plugins : NativeInstall(p) \/ NativeRemove(p))
               \/ compute_updates_model \/ UNCHANGED vars
      BY <3>2 DEF Boot, Crash, Wipe, Export, Resurrect, DeleteFile, EditFile, fetch_package, Pull, NativeInstall,
        NativeRemove, compute_updates_model, vars, dbVars
    <3>3. CASE plan_relink
      BY <3>3 DEF plan_relink, dbVars
    <3>4. CASE \E e \in relink.todo : Relink(e)
      BY <3>4 DEF Relink
    <3>5. CASE spawn_relink_reconcile
      BY <3>5 DEF spawn_relink_reconcile, dbVars
    <3>6. CASE Plan \/ get_profile_props \/ reapply_plugin_props \/ CaptureGet \/ SaveLedger
      BY <3>6 DEF Plan, get_profile_props, reapply_plugin_props, CaptureGet, SaveLedger, dbVars
    <3>7. CASE capture_plugin_props
      BY <3>7 DEF capture_plugin_props, dbVars
    <3> QED
      BY <3>1, <3>2, <3>3, <3>4, <3>5, <3>6, <3>7 DEF Next, RelinkTask, PluginTask
  <2> QED
    BY <1>1, <2>1
<1>3. \A p, q \in Designs : \A f \in FileIds : Owns(p, f) => f < next /\ (Owns(q, f) => p = q)
  BY DEF IInv, OneOwner
<1>4. ASSUME NEW r \in Reqs, NEW s \in Reqs, req[r].pc = "import", req'[r].pc = "save",
             req[s].pc = "import", req'[s].pc = "save"
      PROVE  r = s
  <2>1. CASE \E t \in Reqs : Handler(t)
    BY <1>4, <2>1, Others DEF IInv
  <2>2. CASE UNCHANGED req \/ Crash
    BY <1>4, <2>2 DEF Crash, NoReq
  <2> QED
    BY <2>1, <2>2, Elsewhere
<1>5. ASSUME NEW p \in Designs, NEW f \in FileIds, Owns(p, f)', NEW q \in Designs, Owns(q, f)'
      PROVE  f < next' /\ p = q
  <2>1. /\ Owns(p, f) \/ (f = next /\ next' = next + 1
               /\ \E r \in Reqs : req[r].pc = "import" /\ req[r].pkg = p /\ req'[r].pc = "save")
        /\ Owns(q, f) \/ (f = next /\ next' = next + 1
               /\ \E r \in Reqs : req[r].pc = "import" /\ req[r].pkg = q /\ req'[r].pc = "save")
    BY <1>5, Ties
  <2>2. Owns(p, f) /\ Owns(q, f) => f < next' /\ p = q
    BY <1>1, <1>2, <1>3
  <2>3. Owns(p, f) \/ Owns(q, f) => f # next
    BY <1>1, <1>3
  <2>4. CASE f = next /\ next' = next + 1
    BY <1>1, <1>4, <2>1, <2>3, <2>4
  <2> QED
    BY <2>1, <2>2, <2>3, <2>4
<1> QED
  BY <1>5 DEF OneOwner

LEMMA InOrderStep ==
  ASSUME IInv, [Next]_vars
  PROVE  InOrder'
<1>1. \A r \in Reqs : Moved(r)
  BY AllMove DEF IInv
<1>2. \A r \in Reqs : req[r].pc # "queued" => req'[r].pc # "queued"
  BY <1>1 DEF Moved
<1>3. ASSUME NEW r \in Reqs, req[r].pc = "queued", req'[r].pc # "queued", NEW s \in Reqs, s < r
      PROVE  req[s].pc # "queued"
  <2>1. CASE Start(r)
    BY <1>3, <2>1 DEF Start, Answered
  <2>2. CASE ~Start(r)
    <3>1. req'[r].pc \in {"ok", "failed"}
      BY <1>1, <1>3, <2>2 DEF Moved
    <3>2. CASE \E t \in Reqs : Handler(t)
      <4>1. Handler(r)
        BY <1>3, <3>2, Others, TypeParts DEF IInv
      <4> QED
        BY <1>3, <2>2, <4>1 DEF Handler, Load, Probe, Import, Save, Share, SaveShared, Rel, SaveLink,
          new_from_template, do_preserve_drift, At
    <3>3. CASE UNCHANGED req \/ Crash
      BY <1>3, <3>3 DEF Crash
    <3> QED
      BY <3>2, <3>3, Elsewhere
  <2> QED
    BY <2>1, <2>2
<1>4. ASSUME NEW r \in Reqs, NEW s \in Reqs, s < r, req'[r].pc # "queued"
      PROVE  req'[s].pc # "queued"
  <2>1. req[s].pc # "queued"
    BY <1>3, <1>4 DEF IInv, InOrder
  <2> QED
    BY <1>2, <2>1
<1> QED
  BY <1>4 DEF InOrder

LEMMA OneByOneStep ==
  ASSUME IInv, [Next]_vars
  PROVE  OneByOne'
<1> USE TypeParts, PackFacts
<1>1. left'["together"] = left["together"]
  BY RestStep DEF IInv
<1>2. SUFFICES ASSUME left["together"] = 0
               PROVE  /\ \A r, s \in Reqs : Active(r)' /\ Active(s)' => r = s
                      /\ \A v \in Views' : \A p \in Designs : lock'[p] # None =>
                           v[p] # None /\ (lock'[p].shared => v[p].shared) /\ lock'[p].links \subseteq v[p].links
  BY <1>1 DEF OneByOne
<1>3. /\ \A v \in Views' : v \in Views \/ v = lock'
      /\ \A r \in Reqs : req'[r].pc \in HoldsPC => req'[r].snap \in Views
      /\ \A r \in Reqs : Moved(r)
  BY ViewsStep, AllMove DEF IInv
<1>4. /\ \A r, s \in Reqs : Active(r) /\ Active(s) => r = s
      /\ \A v \in Views : \A p \in Designs : lock[p] # None =>
                   v[p] # None /\ (lock[p].shared => v[p].shared) /\ lock[p].links \subseteq v[p].links
  BY <1>2 DEF IInv, OneByOne
<1>5. \A r \in Reqs : Active(r)' => Active(r) \/ Start(r)
  BY <1>3 DEF Moved, Active
<1>6. ASSUME NEW r \in Reqs, NEW s \in Reqs, Start(r), Active(s)'
      PROVE  r = s
  <2>1. Start(s) => s = r
    <3>1. Handler(r)
      BY <1>6 DEF Handler
    <3>2. CASE Start(s)
      <4>1. \A t \in Reqs : t # r => req'[t] = req[t]
        BY <3>1, Others DEF IInv
      <4> QED
        BY <1>6, <3>2, <4>1 DEF Start, At, Active
    <3> QED
      BY <3>2
  <2>2. CASE Active(s)
    <3>1. ~(s < r)
      BY <1>2, <1>6, <2>2 DEF Start, Answered, Active
    <3>2. ~(r < s)
      BY <1>6, <2>2 DEF IInv, InOrder, Start, At, Active
    <3> QED
      BY <3>1, <3>2, CountAssumption
  <2> QED
    BY <1>5, <1>6, <2>1, <2>2
<1>7. ASSUME NEW r \in Reqs, Active(r), req'[r].pc \notin HoldsPC, \A s \in Reqs : s # r => req'[s] = req[s]
      PROVE  Views' = {lock'}
  <2>1. \A s \in Reqs : req'[s].pc \notin HoldsPC
    BY <1>4, <1>7 DEF Active, HoldsPC
  <2> QED
    BY <2>1 DEF Views
<1>8. ASSUME NEW r \in Reqs, Writes(r)
      PROVE  Views' = {lock'}
  <2>1. Active(r) /\ req[r].pc \in {"save", "saveShared", "saveLink"} /\ Handler(r)
    BY <1>8 DEF Writes, Save, SaveShared, SaveLink, At, Active, Handler
  <2>2. req'[r].pc \notin HoldsPC
    <3>1. CASE req'[r] = req[r] /\ req[r].pc = "save"
      <4>1. req'[r] = AfterInstall(req[r])
        BY <1>8, <3>1 DEF Writes, Save, SaveShared, SaveLink, At, Serve, IInv, ReqOK
      <4> QED
        BY <3>1, <4>1, Onwards DEF IInv, ReqOK
    <3> QED
      BY <1>3, <2>1, <3>1 DEF Moved, HoldsPC
  <2> QED
    BY <1>7, <2>1, <2>2, Others DEF IInv
<1>9. \A v \in Views' : \A p \in Designs : lock'[p] # None =>
         v[p] # None /\ (lock'[p].shared => v[p].shared) /\ lock'[p].links \subseteq v[p].links
  <2>1. CASE UNCHANGED lock
    BY <1>3, <1>4, <2>1
  <2>2. CASE \E r \in Reqs : Writes(r)
    BY <1>8, <2>2
  <2>3. CASE capture_plugin_props
    <3>1. \A p \in Designs : Stands(p) /\ (lock[p] # None => lock'[p].shared = lock[p].shared)
      BY <2>3, CaptureFacts DEF IInv
    <3> QED
      BY <1>3, <1>4, <3>1 DEF Stands
  <2> QED
    BY <2>1, <2>2, <2>3, LockMoves DEF IInv
<1> QED
  BY <1>4, <1>5, <1>6, <1>9

LEMMA StepIInv ==
  ASSUME IInv, [Next]_vars
  PROVE  IInv'
<1>1. TypeOK'
  <2>1. DiskOK' /\ DbOK' /\ TaskOK' /\ ReqOK' /\ RestOK' /\ HistOK'
    BY DiskStep, DbStep, TaskStep, ReqStep, RestStep, HistStep DEF IInv
  <2> QED
    BY <2>1 DEF TypeOK, DiskOK, DbOK, TaskOK, ReqOK, RestOK, HistOK
<1>2. Handling' /\ Tasks' /\ Entries' /\ Earned'
  BY ReqStep, TaskStep, EntriesStep, EarnedStep DEF IInv
<1> QED
  BY <1>1, <1>2, HadStep, SameFileStep, SameLinksStep, RelatedStep, PlannedStep, OneOwnerStep, InOrderStep,
    OneByOneStep DEF IInv

LEMMA Invariant == Spec => []IInv
<1>1. Init => IInv
  BY InitIInv
<1>2. IInv /\ [Next]_vars => IInv'
  BY StepIInv
<1> QED
  BY <1>1, <1>2, PTL DEF Spec

-----------------------------------------------------------------------------
(* The theorems. *)

\* What is put back, and shown as installed, was installed by the person on this
\* machine, with code that was served while it was installed (plan_plugin_reapply,
\* classify_plugin_consent, and the ledger that only capture_plugin_props writes).
THEOREM Consented == Spec => []ConsentedHere
<1>1. IInv => ConsentedHere
  <2> SUFFICES ASSUME IInv
               PROVE  ConsentedHere
    OBVIOUS
  <2> USE TypeParts, PackFacts DEF IInv
  <2>1. plug.pc = "write" => \A p \in plug.adds : p \in native /\ plug.hash[p] \in known[p]
    BY DEF Earned
  <2>2. ASSUME NEW p \in Plugins, list_plugins(p).installed
        PROVE  p \in native /\ src[p] \in known[p]
    <3>1. classify_plugin_consent(p, TRUE) = "installed"
      BY <2>2 DEF list_plugins
    <3>2. src[p] # None
      BY DEF DiskOK
    <3>3. ledger[p] = src[p]
      BY <3>1, <3>2 DEF classify_plugin_consent, plugin_content_hash
    <3> QED
      BY <3>2, <3>3 DEF Earned
  <2> QED
    BY <2>1, <2>2 DEF ConsentedHere
<1> QED
  BY <1>1, Invariant, PTL

\* A re-link task that has stopped content has every relation in the database.
LEMMA Derived ==
  ASSUME IInv
  PROVE  LinksDerived
<1> SUFFICES ASSUME relink.pc = "done", NEW p \in Packs, p \notin remade, lock[p] # None,
                    NEW k \in lock[p].links, {lock[p].file, k.file} \subseteq files
             PROVE  <<lock[p].file, k.file>> \in rels
  BY DEF LinksDerived
<1>1. p \in Designs
  BY PackFacts DEF IInv, Entries, Views
<1>2. Settled(<<lock[p].file, k.file>>)
  BY <1>1 DEF IInv, Planned, LinksOf
<1> QED
  BY <1>2 DEF Settled, Dead

\* No write of lock.json loses a link or that a package is published.
LEMMA Keeps ==
  ASSUME IInv, [Next]_vars
  PROVE  LinksKept
<1> USE TypeParts, PackFacts
<1> SUFFICES ASSUME left["together"] = 0, NEW p \in Designs, lock[p] # None
             PROVE  /\ lock'[p] # None /\ (lock[p].shared => lock'[p].shared)
                    /\ \A k \in lock[p].links : k \in lock'[p].links
  BY DEF LinksKept
<1>1. CASE UNCHANGED lock
  BY <1>1
<1>2. CASE Stands(p)
  BY <1>2 DEF Stands
<1>3. ASSUME NEW r \in Reqs, Save(r)
      PROVE  /\ lock'[p] # None /\ (lock[p].shared => lock'[p].shared)
             /\ \A k \in lock[p].links : k \in lock'[p].links
  <2> DEFINE v == req[r].snap
             c == req[r].pkg
  <2>1. /\ v \in Views /\ \A q \in Packs \ {c} : lock'[q] = v[q]
        /\ lock'[c] # None /\ lock'[c].links = IF v[c] = None THEN {} ELSE v[c].links
        /\ v[c] # None => (v[c].shared => lock'[c].shared)
    BY <1>3, SaveFacts DEF IInv
  <2>2. v[p] # None /\ (lock[p].shared => v[p].shared) /\ lock[p].links \subseteq v[p].links
    BY <2>1 DEF IInv, OneByOne
  <2> HIDE DEF v, c
  <2>3. CASE p = c
    BY <2>1, <2>2, <2>3
  <2>4. CASE p # c
    <3>1. lock'[p] = v[p]
      BY <2>1, <2>4
    <3> QED
      BY <2>2, <3>1
  <2> QED
    BY <2>3, <2>4
<1>4. ASSUME NEW r \in Reqs, SaveLink(r), lock' # lock
      PROVE  /\ lock'[p] # None /\ (lock[p].shared => lock'[p].shared)
             /\ \A k \in lock[p].links : k \in lock'[p].links
  <2> DEFINE q == req[r]
  <2>1. /\ up /\ q.pc = "saveLink" /\ q.pkg \in Designs /\ q.lib \in Designs
        /\ lock[q.pkg] # None /\ lock'[q.pkg] # None /\ lock'[q.pkg].shared = lock[q.pkg].shared
        /\ lock'[q.pkg].links = {k \in lock[q.pkg].links : k.file # q.libFile}
                                  \cup {[file |-> q.libFile, pkg |-> q.lib]}
        /\ \A c \in Packs \ {q.pkg} : lock'[c] = lock[c]
    BY <1>4, SaveLinkFacts DEF IInv
  <2>2. CASE p # q.pkg
    BY <2>1, <2>2
  <2>3. CASE p = q.pkg
    <3>1. ASSUME NEW k \in lock[p].links, k.file = q.libFile
          PROVE  k = [file |-> q.libFile, pkg |-> q.lib]
      <4>1. lock[p] \in Entry /\ lock \in Views
        BY ViewLocks DEF IInv, Views
      <4>2. k = [file |-> q.libFile, pkg |-> k.pkg] /\ k.pkg \in Designs /\ q.libFile \in FileIds
        BY <3>1, <4>1 DEF Entry, Link
      <4>3. [file |-> q.libFile, pkg |-> k.pkg] \in lock[p].links
        BY <3>1, <4>2
      <4>4. Owns(k.pkg, q.libFile)
        BY <4>1, <4>3 DEF Owns
      <4>5. Owns(q.lib, q.libFile)
        BY <2>1 DEF Owns, Active
      <4>6. k.pkg = q.lib
        BY <2>1, <4>2, <4>4, <4>5 DEF IInv, OneOwner
      <4> QED
        BY <4>2, <4>6
    <3> QED
      BY <2>1, <2>3, <3>1
  <2> QED
    BY <2>2, <2>3
<1>5. CASE (\E r \in Reqs : SaveShared(r)) \/ capture_plugin_props
  BY <1>2, <1>5, SaveSharedFacts, CaptureFacts DEF IInv
<1> QED
  BY <1>1, <1>3, <1>4, <1>5, LockMoves DEF IInv, Writes

\* What the vault knows of a link is never lost, and the database has it again
\* after a wipe (do_install keeps an entry's links; reapply_links tries until
\* nothing is blocked).
THEOREM LinksSafe == Spec => LinksHold
<1>1. IInv /\ IInv' /\ [Next]_vars => [LinksDerived' /\ LinksKept]_vars
  <2>1. IInv' => LinksDerived'
    BY Derived, PTL
  <2> QED
    BY <2>1, Keeps
<1> QED
  BY <1>1, Invariant, PTL DEF Spec, LinksHold
=============================================================================
