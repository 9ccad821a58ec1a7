----------------------------- MODULE Packages -----------------------------
(***************************************************************************)
(* Packages, libraries and plugins (crates/packages): what is fetched into *)
(* .penpot-packages/, what it became in the database, and the two files    *)
(* that let the app derive the second from the first after the database is *)
(* wiped: lock.json in the vault, plugin-consent.json beside the database. *)
(*                                                                         *)
(* Five kinds of actors share them with no lock: the request handlers      *)
(* (install, publish, link, from a template), the re-link task and the     *)
(* plugin task that every boot starts, the poller that tells of updates,   *)
(* and the person, in Penpot's own plugin manager and in the folder.       *)
(*                                                                         *)
(* A handler is split where it awaits: lock.json is read before an import  *)
(* and written after it.  A load followed by a save with no await between  *)
(* them is one step.                                                       *)
(***************************************************************************)
EXTENDS Naturals

CONSTANTS
    Designs,   \* packages that carry a .penpot tree
    Plugins,   \* packages that carry a plugin; its pluginId is the package's name
    Remote,    \* those of them whose pointer has another host than the proxy
    Reqs,      \* requests, in the order they come
    MaxFile,   \* bound: ids the backend can give
    Attempts,  \* RELINK_BOOT_ATTEMPTS, PLUGIN_REAPPLY_BOOT_ATTEMPTS
    Scenarios, \* bound: the vault at the start, and how often each thing may happen
    None

Packs    == Designs \cup Plugins
FileIds  == 1 .. MaxFile
Versions == {1, 2}
Kinds    == {"install", "publish", "link", "template", "drift", "fetch",
             "native", "remove", "pull", "edit", "delete", "poll", "crash", "wipe", "fault"}

ASSUME PackAssumption  == Designs \cap Plugins = {} /\ Remote \subseteq Plugins /\ None \notin Packs \cup Nat
ASSUME CountAssumption == Reqs \subseteq Nat /\ MaxFile \in Nat /\ Attempts \in Nat \ {0}
                          /\ Scenarios \subseteq [Kinds \cup {"together"} -> Nat]

VARIABLES
    src,     \* .penpot-packages/: the version of each package, 0 when it is not fetched
    lock,    \* lock.json: the entry of each package
    ledger,  \* plugin-consent.json: consentedContentHash of each plugin
    disk,    \* the vault's manifest: the ids it has an entry and a directory for
    files,   \* the database: file rows
    made,    \* the contract of each file, 0 once a person edited it
    shared,  \* the files that are published
    rels,    \* file_library_rel: consumer and library
    props,   \* props.plugins.data of the profile
    up,      \* the app runs
    relink,  \* the re-link task
    plug,    \* the plugin task
    shown,   \* the update model the poller published
    copies,  \* files next to which a drift copy lies
    req,     \* the requests
    next,    \* the next id the backend gives
    left,    \* what is left of the scenario
    native,  \* history: plugins the person installed with the native manager here
    known,   \* history: versions of a plugin that were served while its pointer was live
    removed, \* history: plugins the person removed since they last installed them
    had,     \* history: packages with an entry in lock.json since the app started
    remade   \* history: those of them that were imported again since

diskVars == <<src, lock, ledger, disk, copies>>
dbVars   == <<files, made, shared, rels, props, next>>
histVars == <<native, known, removed, had, remade>>
vars == <<diskVars, dbVars, up, relink, plug, shown, req, left, histVars>>

Link  == [file : FileIds, pkg : Designs]
Entry == [hash : Versions, file : FileIds \cup {0}, shared : BOOLEAN,
          links : SUBSET Link, pins : SUBSET Plugins]
Locks == [Packs -> Entry \cup {None}]
Ledgers == [Plugins -> Versions \cup {None}]

ASSUME EntryAssumption == None \notin Entry

ReqOps == {"install", "publish", "link", "template", "drift"}
ReqPC  == {"queued", "load", "probe", "import", "save", "share", "saveShared",
           "rel", "saveLink", "template", "drift", "ok", "failed"}

NoReq  == [pc |-> "queued", op |-> None, pkg |-> None, lib |-> None, libFile |-> 0,
           hash |-> 0, file |-> 0, snap |-> None]
NoTask == [pc |-> "off", tries |-> 0, todo |-> {}, blocked |-> FALSE]
NoPlug == [pc |-> "off", tries |-> 0, got |-> {}, adds |-> {}, ok |-> {}, hash |-> [p \in Plugins |-> 0], seen |-> {}]
Silent == [p \in Designs |-> [update |-> FALSE, bump |-> FALSE]]

Request == [pc : ReqPC, op : ReqOps \cup {None}, pkg : Designs \cup {None}, lib : Designs \cup {None},
            libFile : 0 .. MaxFile, hash : Versions \cup {0}, file : 0 .. MaxFile, snap : Locks \cup {None}]
Relinker == [pc : {"off", "wait", "apply", "done", "closed"}, tries : 0 .. Attempts,
             todo : SUBSET (FileIds \X FileIds), blocked : BOOLEAN]
Plugger == [pc : {"off", "plan", "get", "write", "watch", "record", "ledger"}, tries : 0 .. Attempts,
            got : SUBSET Plugins, adds : SUBSET (Plugins \ Remote), ok : SUBSET (Plugins \ Remote),
            hash : [Plugins -> Versions \cup {0}], seen : SUBSET Plugins]

TypeOK ==
    /\ src \in [Packs -> Versions \cup {0}] /\ lock \in Locks
    /\ ledger \in Ledgers
    /\ disk \subseteq FileIds /\ files \subseteq FileIds /\ copies \subseteq FileIds
    /\ made \in [FileIds -> Versions \cup {0}] /\ shared \subseteq FileIds
    /\ rels \subseteq files \X files /\ props \subseteq Plugins
    /\ up \in BOOLEAN /\ next \in 1 .. MaxFile + 1
    /\ relink \in Relinker /\ plug \in Plugger
    /\ shown \in [Designs -> [update : BOOLEAN, bump : BOOLEAN]]
    /\ req \in [Reqs -> Request]
    /\ left \in [Kinds \cup {"together"} -> Nat]
    /\ native \subseteq Plugins /\ removed \subseteq Plugins
    /\ known \in [Plugins -> SUBSET Versions]
    /\ had \subseteq Designs /\ remade \subseteq had

Spend(k) == left[k] > 0 /\ left' = [left EXCEPT ![k] = @ - 1]

\* A version stands for the tree, its semantic hash and its contract's hash.
Source(p) == src[p]
plugin_content_hash(p) == src[p]

\* Whether a pointer is ours is a matter of its host, not of the path of its code.
is_local_host(p) == p \notin Remote
local_plugin_pointers == {p \in props : is_local_host(p)}

\* The RPC fails, without effect.
Fails == Spend("fault")

Bare == [hash |-> 1, file |-> 0, shared |-> FALSE, links |-> {}, pins |-> {}]

\* A machine on which nothing was installed yet.  The vault is new, or a clone
\* that brings another machine's lock.json with a pin for every plugin.
Init ==
    /\ left \in Scenarios
    /\ src = [p \in Packs |-> IF left["fetch"] > 0 THEN 0 ELSE 1]
    /\ \E cloned \in BOOLEAN :
           lock = [p \in Packs |-> IF cloned /\ p \in Plugins THEN [Bare EXCEPT !.pins = {p}] ELSE None]
    /\ ledger = [p \in Plugins |-> None]
    /\ disk = {} /\ files = {} /\ made = [f \in FileIds |-> 0] /\ shared = {} /\ rels = {} /\ props = {}
    /\ up = FALSE /\ relink = NoTask /\ plug = NoPlug /\ shown = Silent /\ copies = {}
    /\ req = [r \in Reqs |-> NoReq] /\ next = 1
    /\ native = {} /\ known = [p \in Plugins |-> {}] /\ removed = {} /\ had = {} /\ remade = {}

---------------------------------------------------------------------------
(* The app's lives. *)

\* Boot spawns both tasks; a wipe is what a vault switch and a restored data
\* directory do to the database while the app is down.
Boot ==
    /\ ~up /\ up' = TRUE
    /\ relink' = [NoTask EXCEPT !.pc = "wait", !.tries = Attempts]
    /\ plug' = [NoPlug EXCEPT !.pc = "plan", !.tries = Attempts]
    /\ had' = {p \in Designs : lock[p] # None} /\ remade' = {}
    /\ UNCHANGED <<diskVars, dbVars, shown, req, left, native, known, removed>>

Crash ==
    /\ up /\ Spend("crash") /\ up' = FALSE
    /\ relink' = NoTask /\ plug' = NoPlug /\ shown' = Silent
    /\ req' = [r \in Reqs |-> IF req[r].pc \in {"queued", "ok"} THEN req[r] ELSE [NoReq EXCEPT !.pc = "failed"]]
    /\ UNCHANGED <<diskVars, dbVars, histVars>>

Wipe ==
    /\ ~up /\ Spend("wipe")
    /\ files' = {} /\ rels' = {} /\ props' = {} /\ shared' = shared \cap disk
    /\ UNCHANGED <<diskVars, made, next, up, relink, plug, shown, req, histVars>>

\* The sync daemon: a new row gets a directory, a directory without a row gets
\* its row back, with its id and its shared flag.
Export(f) ==
    /\ up /\ f \in files \ disk /\ disk' = disk \cup {f}
    /\ UNCHANGED <<src, lock, ledger, copies, dbVars, up, relink, plug, shown, req, left, histVars>>

Resurrect(f) ==
    /\ up /\ f \in disk \ files /\ files' = files \cup {f}
    /\ UNCHANGED <<diskVars, made, shared, rels, props, next, up, relink, plug, shown, req, left, histVars>>

DeleteFile(f) ==
    /\ up /\ f \in files /\ Spend("delete")
    /\ files' = files \ {f} /\ disk' = disk \ {f} /\ shared' = shared \ {f}
    /\ rels' = {e \in rels : f \notin {e[1], e[2]}}
    /\ UNCHANGED <<src, lock, ledger, copies, made, props, next, up, relink, plug, shown, req, histVars>>

\* A person draws in an installed package: its contract is no longer the pinned one.
EditFile(f) ==
    /\ f \in files /\ made[f] # 0 /\ Spend("edit") /\ made' = [made EXCEPT ![f] = 0]
    /\ UNCHANGED <<diskVars, files, shared, rels, props, next, up, relink, plug, shown, req, histVars>>

---------------------------------------------------------------------------
(* The folder of packages. *)

\* git clone; a directory that is there already is left alone.
fetch_package(p) ==
    /\ up /\ Spend("fetch")
    /\ src' = [src EXCEPT ![p] = IF @ = 0 THEN 1 ELSE @]
    /\ UNCHANGED <<lock, ledger, disk, copies, dbVars, up, relink, plug, shown, req, histVars>>

\* The person pulls; the proxy serves the plugin's new code at once.
Pull(p) ==
    /\ src[p] = 1 /\ Spend("pull")
    /\ src' = [src EXCEPT ![p] = 2]
    /\ known' = [q \in Plugins |-> IF q = p /\ q \in props \cup plug.got THEN known[q] \cup {2} ELSE known[q]]
    /\ UNCHANGED <<lock, ledger, disk, copies, dbVars, up, relink, plug, shown, req, native, removed, had, remade>>

---------------------------------------------------------------------------
(* The person's own plugin manager. *)

NativeInstall(p) ==
    /\ up /\ src[p] # 0 /\ p \notin props /\ Spend("native")
    /\ props' = props \cup {p} /\ native' = native \cup {p} /\ removed' = removed \ {p}
    /\ known' = [known EXCEPT ![p] = @ \cup {src[p]}]
    /\ UNCHANGED <<diskVars, files, made, shared, rels, next, up, relink, plug, shown, req, had, remade>>

NativeRemove(p) ==
    /\ up /\ p \in props /\ Spend("remove")
    /\ props' = props \ {p} /\ removed' = removed \cup {p}
    /\ UNCHANGED <<diskVars, files, made, shared, rels, next, up, relink, plug, shown, req, native, known, had, remade>>

---------------------------------------------------------------------------
(* Requests. *)

Serve(r, st) == req' = [req EXCEPT ![r] = st]
At(r, pc)    == up /\ req[r].pc = pc
Answered(r)  == req[r].pc \in {"ok", "failed"}

\* The scenario says whether a request may come before the last one is answered.
Start(r) ==
    /\ At(r, "queued")
    /\ \A s \in Reqs : s < r => IF left["together"] > 0 THEN req[s].pc # "queued" ELSE Answered(s)
    /\ \E op \in ReqOps, p \in Designs, l \in Designs :
           /\ Spend(op) /\ (op = "link") = (l # p)
           /\ Serve(r, [NoReq EXCEPT !.op = op, !.pkg = IF op = "link" THEN l ELSE p,
                                     !.lib = IF op = "link" THEN p ELSE None,
                                     !.pc = IF op \in {"template", "drift"} THEN op ELSE "load"])
    /\ UNCHANGED <<diskVars, dbVars, up, relink, plug, shown, histVars>>

\* In a link the library is installed and published first: pkg is then the
\* library and lib the consumer, and SaveShared swaps them.
AfterInstall(q) ==
    CASE q.op = "install" -> [q EXCEPT !.pc = "ok", !.snap = None]
      [] q.op = "link" /\ q.libFile # 0 -> [q EXCEPT !.pc = "rel", !.snap = None]
      [] OTHER -> [q EXCEPT !.pc = "share", !.snap = None]

\* do_install reads the package and lock.json, and keeps the latter.
Load(r) ==
    LET q == req[r]  e == lock[q.pkg]  h == Source(q.pkg)
    IN /\ At(r, "load")
       /\ \/ /\ h = 0 /\ Serve(r, [q EXCEPT !.pc = "failed"])
          \/ /\ h # 0
             /\ Serve(r, [q EXCEPT !.hash = h, !.snap = lock,
                          !.pc = IF e = None \/ e.hash # h THEN "import" ELSE "probe"])
       /\ UNCHANGED <<diskVars, dbVars, up, relink, plug, shown, left, histVars>>

\* get_file: an answer that is an error counts as "not in the database".
Probe(r) ==
    LET q == req[r]  f == q.snap[q.pkg].file
        Found(live) == Serve(r, IF live \/ f \in disk THEN AfterInstall([q EXCEPT !.file = f])
                                                      ELSE [q EXCEPT !.pc = "import"])
    IN /\ At(r, "probe")
       /\ \/ Found(f \in files) /\ UNCHANGED left
          \/ f \in files /\ Fails /\ Found(FALSE)
       /\ UNCHANGED <<diskVars, dbVars, up, relink, plug, shown, histVars>>

New(f, v) ==
    /\ next <= MaxFile /\ f = next /\ next' = next + 1
    /\ files' = files \cup {f} /\ made' = [made EXCEPT ![f] = v]

\* A settle that fails leaves the file it imported.
Import(r) ==
    LET q == req[r]
    IN /\ At(r, "import")
       /\ \/ /\ New(next, q.hash) /\ Serve(r, [q EXCEPT !.file = next, !.pc = "save"]) /\ UNCHANGED left
          \/ /\ New(next, q.hash) /\ Serve(r, [q EXCEPT !.pc = "failed", !.snap = None]) /\ Fails
       /\ UNCHANGED <<diskVars, shared, rels, props, up, relink, plug, shown, histVars>>

\* The entry of a package that is imported again starts from nothing.
DropLinks(old) == [old EXCEPT !.links = {}]
Kept(old) == old

\* What lock.json was before the import, with the new pin.
Save(r) ==
    LET q == req[r]  old == q.snap[q.pkg]
        e == [(IF old = None THEN Bare ELSE Kept(old)) EXCEPT !.hash = q.hash, !.file = q.file]
    IN /\ At(r, "save")
       /\ lock' = [q.snap EXCEPT ![q.pkg] = e]
       /\ had' = had \cup {q.pkg}
       /\ remade' = IF q.pkg \in had THEN remade \cup {q.pkg} ELSE remade
       /\ Serve(r, AfterInstall(q))
       /\ UNCHANGED <<src, ledger, disk, copies, dbVars, up, relink, plug, shown, left, native, known, removed>>

\* set-file-shared
Share(r) ==
    LET q == req[r]
    IN /\ At(r, "share")
       /\ \/ /\ q.file \in files /\ shared' = shared \cup {q.file}
             /\ Serve(r, [q EXCEPT !.pc = "saveShared"]) /\ UNCHANGED left
          \/ /\ \/ q.file \notin files /\ UNCHANGED left
                \/ Fails
             /\ Serve(r, [q EXCEPT !.pc = "failed"]) /\ UNCHANGED shared
       /\ UNCHANGED <<diskVars, files, made, rels, props, next, up, relink, plug, shown, histVars>>

SaveShared(r) ==
    LET q == req[r]
    IN /\ At(r, "saveShared")
       /\ lock' = [p \in Packs |-> IF p = q.pkg /\ lock[p] # None THEN [lock[p] EXCEPT !.shared = TRUE] ELSE lock[p]]
       /\ Serve(r, IF q.op = "publish" THEN [q EXCEPT !.pc = "ok"]
                   ELSE [q EXCEPT !.pc = "load", !.libFile = q.file, !.pkg = q.lib, !.lib = q.pkg, !.file = 0])
       /\ UNCHANGED <<src, ledger, disk, copies, dbVars, up, relink, plug, shown, left, histVars>>

\* link-file-to-library
Rel(r) ==
    LET q == req[r]  e == <<q.file, q.libFile>>
    IN /\ At(r, "rel")
       /\ \/ /\ {q.file, q.libFile} \subseteq files /\ rels' = rels \cup {e}
             /\ Serve(r, [q EXCEPT !.pc = "saveLink"]) /\ UNCHANGED left
          \/ /\ \/ ~({q.file, q.libFile} \subseteq files) /\ UNCHANGED left
                \/ Fails
             /\ Serve(r, [q EXCEPT !.pc = "failed"]) /\ UNCHANGED rels
       /\ UNCHANGED <<diskVars, files, made, shared, props, next, up, relink, plug, shown, histVars>>

SaveLink(r) ==
    LET q == req[r]
    IN /\ At(r, "saveLink")
       /\ \/ /\ lock[q.pkg] # None
             /\ lock' = [lock EXCEPT ![q.pkg].links =
                            {k \in @ : k.file # q.libFile} \cup {[file |-> q.libFile, pkg |-> q.lib]}]
             /\ Serve(r, [q EXCEPT !.pc = "ok"])
          \/ /\ lock[q.pkg] = None /\ Serve(r, [q EXCEPT !.pc = "failed"]) /\ UNCHANGED lock
       /\ UNCHANGED <<src, ledger, disk, copies, dbVars, up, relink, plug, shown, left, histVars>>

new_from_template(r) ==
    /\ At(r, "template") /\ New(next, 0)
    /\ \/ Serve(r, [req[r] EXCEPT !.pc = "ok"]) /\ UNCHANGED left
       \/ Serve(r, [req[r] EXCEPT !.pc = "failed"]) /\ Fails
    /\ UNCHANGED <<diskVars, shared, rels, props, up, relink, plug, shown, histVars>>

\* The source's new version is laid beside the installed file, which is left alone.
do_preserve_drift(r) ==
    LET q == req[r]  e == lock[q.pkg]
        drifted == e # None /\ Source(q.pkg) # 0 /\ e.file \in disk
    IN /\ At(r, "drift")
       /\ Serve(r, [q EXCEPT !.pc = IF drifted THEN "ok" ELSE "failed"])
       /\ copies' = IF drifted /\ e.hash # Source(q.pkg) THEN copies \cup {e.file} ELSE copies
       /\ UNCHANGED <<src, lock, ledger, disk, dbVars, up, relink, plug, shown, left, histVars>>

---------------------------------------------------------------------------
(* The re-link task: file_library_rel does not travel with a file. *)

Linked(lk) == UNION {{[file |-> lk[p].file, lib |-> k.file] : k \in lk[p].links} :
                        p \in {q \in Packs : lk[q] # None}}

\* A pass reads lock.json and asks for both ends of every link.
plan_relink ==
    LET all == {<<e.file, e.lib>> : e \in Linked(lock)}
        ready == {e \in all : {e[1], e[2]} \subseteq files}
    IN /\ up /\ relink.pc = "wait"
       /\ relink' = [relink EXCEPT !.pc = "apply", !.tries = @ - 1, !.todo = ready, !.blocked = ready # all]
       /\ UNCHANGED <<diskVars, dbVars, up, plug, shown, req, left, histVars>>

\* A link that fails is not counted as blocked.
RelinkOrSkip(e) ==
    /\ up /\ relink.pc = "apply" /\ e \in relink.todo
    /\ relink' = [relink EXCEPT !.todo = @ \ {e}]
    /\ \/ /\ {e[1], e[2]} \subseteq files /\ rels' = rels \cup {e} /\ shared' = shared \cup {e[2]} /\ UNCHANGED left
       \/ Fails /\ UNCHANGED <<rels, shared>>
    /\ UNCHANGED <<diskVars, files, made, props, next, up, plug, shown, req, histVars>>

\* set-file-shared, whose failure does not matter, and link-file-to-library.
Relink(e) ==
    /\ up /\ relink.pc = "apply" /\ e \in relink.todo
    /\ \/ /\ {e[1], e[2]} \subseteq files /\ rels' = rels \cup {e} /\ shared' = shared \cup {e[2]}
          /\ relink' = [relink EXCEPT !.todo = @ \ {e}] /\ UNCHANGED left
       \/ /\ \/ ~({e[1], e[2]} \subseteq files) /\ UNCHANGED left
             \/ Fails
          /\ relink' = [relink EXCEPT !.todo = @ \ {e}, !.blocked = TRUE]
          /\ UNCHANGED <<rels, shared>>
    /\ UNCHANGED <<diskVars, files, made, props, next, up, plug, shown, req, histVars>>

spawn_relink_reconcile ==
    /\ up /\ relink.pc = "apply" /\ relink.todo = {}
    /\ relink' = [relink EXCEPT !.pc = CASE ~relink.blocked -> "done"
                                         [] relink.blocked /\ relink.tries = 0 -> "closed"
                                         [] OTHER -> "wait", !.blocked = FALSE]
    /\ UNCHANGED <<diskVars, dbVars, up, plug, shown, req, left, histVars>>

---------------------------------------------------------------------------
(* The plugin task: put back what was consented to, then record consent. *)

Pins(lk) == {p \in Plugins : \E k \in Packs : lk[k] # None /\ p \in lk[k].pins}

\* The pin alone is taken for consent.
ConsentByPin(p, pinned) ==
    IF pinned THEN "installed" ELSE "available"

classify_plugin_consent(p, pinned) ==
    LET live == plugin_content_hash(p)
    IN CASE ledger[p] = live                     -> "installed"
         [] ledger[p] # None /\ ledger[p] # live -> "driftedNeedsReconsent"
         [] ledger[p] = None /\ pinned           -> "availableNeedsConsent"
         [] OTHER                                -> "available"

\* What the page of plugins says of one.
list_plugins(p) ==
    [installed |-> p \in Pins(lock) /\ is_local_host(p) /\ classify_plugin_consent(p, TRUE) = "installed",
     live      |-> p \in local_plugin_pointers]

live_plugin_content_hashes == [p \in Plugins |-> plugin_content_hash(p)]

plan_plugin_reapply == {p \in Pins(lock) : is_local_host(p) /\ classify_plugin_consent(p, TRUE) = "installed"}

\* reapply_plugin_props: lock.json, the ledger and the served code are read first,
Plan ==
    /\ up /\ plug.pc = "plan"
    /\ plug' = [plug EXCEPT !.pc = IF Pins(lock) = {} THEN "watch" ELSE "get",
                            !.ok = plan_plugin_reapply, !.hash = live_plugin_content_hashes, !.tries = @ - 1]
    /\ UNCHANGED <<diskVars, dbVars, up, relink, shown, req, left, histVars>>

\* then the profile's props: what is missing there is to be inserted.
get_profile_props ==
    /\ up /\ plug.pc = "get"
    /\ \/ /\ plug' = [plug EXCEPT !.pc = IF plug.ok \subseteq props THEN "watch" ELSE "write",
                                  !.got = IF plug.ok \subseteq props THEN {} ELSE props, !.adds = plug.ok \ props, !.ok = {}]
          /\ UNCHANGED left
       \/ Fails /\ plug' = [plug EXCEPT !.pc = IF plug.tries = 0 THEN "watch" ELSE "plan", !.ok = {}]
    /\ UNCHANGED <<diskVars, dbVars, up, relink, shown, req, histVars>>

\* The whole registry is written, as it was read.
reapply_plugin_props ==
    /\ up /\ plug.pc = "write"
    /\ \/ /\ props' = plug.got \cup plug.adds
          /\ known' = [p \in Plugins |-> IF p \in props' THEN known[p] \cup {src[p]} ELSE known[p]]
          /\ plug' = [plug EXCEPT !.pc = "watch", !.got = {}, !.adds = {}] /\ UNCHANGED left
       \/ /\ Fails
          /\ plug' = [plug EXCEPT !.pc = IF plug.tries = 0 THEN "watch" ELSE "plan", !.got = {}, !.adds = {}]
          /\ UNCHANGED <<props, known>>
    /\ UNCHANGED <<diskVars, files, made, shared, rels, next, up, relink, shown, req, native, removed, had, remade>>

\* A capture pass reads the props ...
CaptureGet ==
    /\ up /\ plug.pc = "watch"
    /\ plug.seen \cup (local_plugin_pointers) # {}
    /\ plug' = [plug EXCEPT !.pc = "record", !.got = local_plugin_pointers]
    /\ UNCHANGED <<diskVars, dbVars, up, relink, shown, req, left, histVars>>

Gone == plug.seen \ plug.got

\* A pass that only refreshes what is pinned already.
CaptureKnown ==
    /\ up /\ plug.pc = "record"
    /\ lock' = [p \in Packs |-> IF lock[p] # None /\ p \in Gone THEN None ELSE lock[p]]
    /\ plug' = [plug EXCEPT !.pc = "ledger", !.hash = live_plugin_content_hashes]
    /\ UNCHANGED <<src, ledger, disk, copies, dbVars, up, relink, shown, req, left, histVars>>

\* ... and brings lock.json in line with them: a live pointer pins its package,
\* and one that was seen and is gone unpins it.
capture_plugin_props ==
    LET Pruned(e) == [e EXCEPT !.pins = @ \ Gone]
        pinned(p) == IF p \in plug.got
                     THEN IF lock[p] = None THEN [Bare EXCEPT !.hash = src[p], !.pins = {p}]
                                            ELSE [lock[p] EXCEPT !.pins = {p}]
                     ELSE lock[p]
    IN /\ up /\ plug.pc = "record"
       /\ lock' = [p \in Packs |->
                      IF pinned(p) = None THEN None
                      ELSE IF p \in Plugins /\ pinned(p).pins \cap Gone # {} /\ pinned(p).file = 0
                           THEN None
                           ELSE Pruned(pinned(p))]
       /\ plug' = [plug EXCEPT !.pc = "ledger", !.hash = live_plugin_content_hashes]
       /\ UNCHANGED <<src, ledger, disk, copies, dbVars, up, relink, shown, req, left, histVars>>

SaveLedger ==
    /\ up /\ plug.pc = "ledger"
    /\ ledger' = [p \in Plugins |-> IF p \in plug.got THEN plug.hash[p]
                                    ELSE IF p \in Gone THEN None ELSE ledger[p]]
    /\ plug' = [plug EXCEPT !.pc = "watch", !.seen = plug.got, !.got = {}]
    /\ UNCHANGED <<src, lock, disk, copies, dbVars, up, relink, shown, req, left, histVars>>

---------------------------------------------------------------------------
(* The poller that tells of updates, and never applies one. *)

\* The severity is told only when the installed file still has the pinned contract.
classify_update(p) ==
    LET e == lock[p]
    IN IF e = None \/ src[p] = 0 THEN [update |-> FALSE, bump |-> FALSE]
       ELSE [update |-> src[p] # e.hash,
             bump |-> src[p] # e.hash /\ e.file \in disk /\ made[e.file] = e.hash]

compute_updates_model ==
    /\ up /\ Spend("poll") /\ shown' = [p \in Designs |-> classify_update(p)]
    /\ UNCHANGED <<diskVars, dbVars, up, relink, plug, req, histVars>>

---------------------------------------------------------------------------
RelinkTask == plan_relink \/ (\E e \in relink.todo : Relink(e)) \/ spawn_relink_reconcile
PluginTask == Plan \/ get_profile_props \/ reapply_plugin_props \/ CaptureGet \/ capture_plugin_props \/ SaveLedger
Handler(r) ==
    \/ Start(r) \/ Load(r) \/ Probe(r) \/ Import(r) \/ Save(r) \/ Share(r) \/ SaveShared(r)
    \/ Rel(r) \/ SaveLink(r) \/ new_from_template(r) \/ do_preserve_drift(r)

Next ==
    \/ Boot \/ Crash \/ Wipe
    \/ \E f \in FileIds : Export(f) \/ Resurrect(f) \/ DeleteFile(f) \/ EditFile(f)
    \/ \E p \in Packs : fetch_package(p) \/ Pull(p)
    \/ \E p \in Plugins : NativeInstall(p) \/ NativeRemove(p)
    \/ \E r \in Reqs : Handler(r)
    \/ RelinkTask \/ PluginTask \/ compute_updates_model

\* The two tasks are loops with timers; a handler, once started, is polled to its end.
Fairness ==
    /\ WF_vars(RelinkTask) /\ WF_vars(PluginTask)
    /\ \A f \in FileIds : WF_vars(Resurrect(f))

Spec == Init /\ [][Next]_vars /\ Fairness

---------------------------------------------------------------------------
(* Properties. *)

\* The app puts back a plugin's pointer only if the person installed it on this
\* machine, and only for code that was served while it was installed: a cloned
\* lock.json seeds nothing, nor does code that changed while the pointer was
\* gone (plan_plugin_reapply, and the ledger that only capture writes).  The page
\* calls nothing else installed (list_plugins).
ConsentedHere ==
    /\ plug.pc = "write" => \A p \in plug.adds : p \in native /\ plug.hash[p] \in known[p]
    /\ \A p \in Plugins : list_plugins(p).installed => p \in native /\ src[p] \in known[p]

\* What the module says of a removal (capture_plugin_props: "no resurrection
\* against intent"): a plugin the person removed is never put back.
NoResurrection == plug.pc = "write" => plug.adds \cap removed = {}

\* Once the re-link task has stopped content, every link lock.json holds between
\* two files of the database exists there too, unless its package was imported
\* again since (reapply_links: a link that fails keeps the task going).
LinksDerived ==
    relink.pc = "done" =>
        \A p \in Packs \ remade : lock[p] # None =>
            \A k \in lock[p].links : {lock[p].file, k.file} \subseteq files => <<lock[p].file, k.file>> \in rels

\* The libraries a package links, and that it is published, survive everything
\* that is later written to lock.json, as long as requests come one by one
\* (do_install keeps them through a new import).
LinksKept ==
    left["together"] = 0 =>
        \A p \in Designs : lock[p] # None =>
            /\ lock[p]' # None /\ (lock[p].shared => lock[p]'.shared)
            /\ \A k \in lock[p].links : k \in lock[p]'.links

\* The two together: what the vault knows of a link is never lost, and the
\* database has it again after a wipe.
LinksHold == [][LinksDerived' /\ LinksKept]_vars

\* Whatever the requests overwrite in lock.json, every plugin that stays
\* installed ends up pinned there and in the ledger, with the code it runs
\* (the capture loop; do_install saves a lock.json it read long before).
Captured ==
    <>[](up => \A p \in local_plugin_pointers :
                   lock[p] # None /\ p \in lock[p].pins /\ ledger[p] = src[p])
=============================================================================
