------------------------------ MODULE FrontDoor ------------------------------
(***************************************************************************)
(* What stands between a person and the stack: the boot that makes the     *)
(* single user and a token, the proxy that lets the webview in, serves     *)
(* assets and saves preferences, and the page and the command line that    *)
(* change them and restart the stack.                                      *)
(*                                                                         *)
(* What has to agree: the secret, the credentials and the preferences on   *)
(* disk, the user and the tokens in a database that any switch may wipe,   *)
(* and what the running stack was built from.  A boot awaits at every RPC; *)
(* any of them may fail, and the process may be killed at any moment.  A   *)
(* replaced stack is down and up again here: VaultSwitch has the details.  *)
(***************************************************************************)
EXTENDS Proxy

CONSTANTS
    None,       \* nothing there
    Torn,       \* a file whose content a kill or a fault cut short
    Lives,      \* how often the process is started at most
    Scenarios   \* the histories examined: see the assumption

Fields == {"sync", "exports", "plugins", "csp"}
CspEnvs == {"unset", "off", "set"}

(* reboot: from this page; other: a reboot or a switch that some other     *)
(* page or the command line asks of the proxy; menu: Open Vault and /open, *)
(* which tell nobody.                                                      *)
OpKinds == {"reboot", "other", "otherSwitch", "menu"}
Switches(kind) == kind \in {"otherSwitch", "menu"}
Recorded(kind) == kind # "menu"

(* Budgets: kills, faults, a lost secret, toggles on the page and from the *)
(* command line, webviews logging in, and the restarts; what may be        *)
(* toggled, whether there is an exporter, PENPOT_LOCAL_CSP, and the length *)
(* and the Range bounds of the assets fetched.                             *)
Scenario ==
    [crash : Nat, fail : Nat, lose : Nat, clicks : Nat, sets : Nat, logins : Nat,
     ops : Seq(OpKinds), fields : SUBSET Fields, exporter : BOOLEAN, csp : CspEnvs,
     len : Nat, bound : Nat \cup {Missing}]

Prefs == [Fields -> BOOLEAN]
Creds == [pw : Nat \cup {None}, tok : Nat \cup {None}]
Stack == [flags : SUBSET {"defaults", "disable-cloud", "enable-plugins"},
          csp : BOOLEAN, paused : BOOLEAN, renders : BOOLEAN,
          tok : Nat \cup {None}, key : Nat \cup {None}, used : BOOLEAN]

ASSUME FrontDoorAssumption ==
    /\ Lives \in Nat /\ Scenarios \subseteq Scenario
    /\ None \notin Nat \cup Stack
    /\ Torn \notin Nat \cup Creds \cup {None}

VARIABLES
    sc,      \* the scenario, its budgets counting down
    disk,    \* secret, credentials, preferences, last-op, runtime record, marker
    db,      \* the user's password, the valid tokens, the asset
    boot,    \* the process: where it is, for which operation, what it holds
    stack,   \* what the stack was built from
    login,   \* the webviews' calls of /__bootstrap
    save,    \* the requests to save preferences
    page,    \* the Preferences page
    cli,     \* the command line's read-modify-write
    op,      \* the restarts asked for
    get,     \* the request for an asset
    hist     \* what the properties remember

vars == <<sc, disk, db, boot, stack, login, save, page, cli, op, get, hist>>

Ops == 1 .. Len(sc.ops)
Saves == {1, 2}
Logins == {1, 2}

Provisioning == {"read", "services", "token", "login", "register", "relogin",
                 "mint", "profile", "persist", "bind"}
BootPcs == Provisioning \cup {"off", "install", "up", "drain", "failed"}

Defaults == [f \in Fields |-> TRUE]
NoCreds == [pw |-> None, tok |-> None]
NoSave == [pc |-> "idle", body |-> Defaults, needs |-> FALSE, by |-> "page"]

(* The proxy listens, as long as there is a stack; the application is in   *)
(* the runner's slot.                                                      *)
Serving == stack # None
InSlot == boot.pc = "up"

Accepted(i) == save[i].pc \in {"sync", "renders", "answer"}
Pending(i) == save[i].pc # "idle"
Changing == cli.pc # "idle" \/ \E i \in Saves : Pending(i)
InFlight == \/ \E i \in Saves : Accepted(i)
            \/ \E l \in Logins : login[l] = "asking"
            \/ get.pc \in {"forward", "open"}

Valid(tok, key) == <<tok, key>> \in db.keys

Init ==
    /\ sc \in Scenarios
    /\ disk = [secret |-> None, creds |-> NoCreds, prefs |-> Defaults,
               op |-> [seq |-> 0, kind |-> "none", ok |-> TRUE],
               record |-> 0, marker |-> FALSE]
    /\ db = [user |-> None, keys |-> {}, asset |-> sc.len]
    /\ boot = [pc |-> "off", by |-> 0, life |-> 0, runner |-> FALSE,
               prefs |-> Defaults, key |-> None, creds |-> NoCreds]
    /\ stack = None
    /\ login = [l \in Logins |-> "idle"]
    /\ save = [i \in Saves |-> NoSave]
    /\ page = [form |-> Defaults, last |-> 0, wait |-> FALSE, base |-> 0,
               banner |-> FALSE, told |-> "none"]
    /\ cli = [pc |-> "idle", got |-> Defaults]
    /\ op = [o \in 1 .. Len(sc.ops) |-> [pc |-> "idle", ok |-> FALSE]]
    /\ get = [pc |-> "idle", range |-> NoRange, head |-> FALSE, status |-> 0,
              answer |-> None]
    /\ hist = [coin |-> 0, reads |-> 0, hit |-> FALSE, locked |-> FALSE,
               failures |-> 0, sessions |-> 0, wish |-> Defaults, owed |-> FALSE,
               muddled |-> FALSE, clicked |-> 0, alone |-> FALSE]

-----------------------------------------------------------------------------
(* The pure parts: what the preferences mean.                              *)

(* resolve_html_csp: the environment wins over the preference.             *)
ResolveCsp(env, enabled) ==
    CASE env = "unset" -> enabled
      [] env = "off" -> FALSE
      [] env = "set" -> TRUE

(* compose_frontend_flags: the flags config.js hands to the page.          *)
FrontendFlags(pluginsEnabled) ==
    {"defaults", "disable-cloud"}
      \cup (IF pluginsEnabled THEN {"enable-plugins"} ELSE {})

ShouldPauseAtBoot(prefs) == ~prefs.sync

(* board-export is spawned by a boot only, and only with an exporter.      *)
RendersAtBoot(prefs) == prefs.exports /\ sc.exporter

(* Mutant: the header's preference counts as live.                         *)
NeedsRebootPlugins(old, new) ==
    old.plugins # new.plugins \/ (~old.exports /\ new.exports)

(* needs_reboot: the changes that only a boot can apply.                   *)
NeedsReboot(old, new) ==
    \/ old.plugins # new.plugins
    \/ old.csp # new.csp
    \/ ~old.exports /\ new.exports

-----------------------------------------------------------------------------
(* The process: starts, failures, kills.                                   *)

Empty == [user |-> None, keys |-> {}, asset |-> None]

(* A start.  A marker left by a killed switch means wiping first.          *)
Launch ==
    /\ boot.pc = "off" /\ boot.life < Lives
    /\ boot' = [boot EXCEPT !.pc = "read", !.by = 0, !.life = @ + 1,
                            !.runner = FALSE]
    /\ db' = IF disk.marker THEN Empty ELSE db
    /\ UNCHANGED <<sc, disk, stack, login, save, page, cli, op, get, hist>>

(* What is in memory goes with the process; what was saved is what counts, *)
(* and the next window loads that.                                         *)
Gone ==
    /\ stack' = None
    /\ login' = [l \in Logins |-> "idle"]
    /\ save' = [i \in Saves |-> NoSave]
    /\ page' = [page EXCEPT !.form = disk.prefs, !.wait = FALSE, !.told = "none",
                            !.banner = FALSE]
    /\ hist' = [hist EXCEPT !.wish = disk.prefs]
    /\ cli' = [cli EXCEPT !.pc = "idle"]
    /\ get' = [get EXCEPT !.pc = "idle", !.answer = None]
    /\ op' = [o \in Ops |-> IF op[o].pc = "idle" THEN op[o] ELSE [pc |-> "end", ok |-> FALSE]]

(* write_private_file is not atomic: a kill may leave a file without its   *)
(* content.                                                                *)
Crash ==
    /\ boot.pc # "off" /\ sc.crash > 0
    /\ sc' = [sc EXCEPT !.crash = @ - 1]
    /\ boot' = [boot EXCEPT !.pc = "off", !.runner = FALSE]
    /\ \/ UNCHANGED disk
       \/ boot.pc = "read" /\ disk.secret = None /\ disk' = [disk EXCEPT !.secret = Torn]
       \/ boot.pc = "persist" /\ disk' = [disk EXCEPT !.creds = Torn]
    /\ Gone
    /\ UNCHANGED db

(* The secret is lost or emptied while the application is closed.          *)
LoseSecret ==
    /\ boot.pc = "off" /\ sc.lose > 0 /\ disk.secret # None
    /\ sc' = [sc EXCEPT !.lose = @ - 1]
    /\ disk' = [disk EXCEPT !.secret = None]
    /\ UNCHANGED <<db, boot, stack, login, save, page, cli, op, get, hist>>

(* A boot ends in an error: the process exits, or the operation that asked *)
(* for the boot has failed and there is no stack.                          *)
Fails ==
    /\ boot' = [boot EXCEPT !.pc = IF boot.by = 0 THEN "off" ELSE "failed", !.by = 0]
    /\ op' = IF boot.by = 0 THEN op
             ELSE [op EXCEPT ![boot.by] = [pc |-> "record", ok |-> FALSE]]
    /\ stack' = None

(* A fault strikes the boot where it is; a failing write of the            *)
(* credentials may leave them torn.                                        *)
BootFault ==
    /\ boot.pc \in Provisioning \ {"token"} /\ sc.fail > 0
    /\ boot.pc # "read" \/ disk.secret \in {None, Torn}
    /\ sc' = [sc EXCEPT !.fail = @ - 1]
    /\ Fails
    /\ hist' = [hist EXCEPT !.hit = TRUE, !.failures = @ + 1]
    /\ \/ UNCHANGED disk
       \/ boot.pc = "persist" /\ disk' = [disk EXCEPT !.creds = Torn]
    /\ UNCHANGED <<db, login, save, page, cli, get>>

-----------------------------------------------------------------------------
(* boot(): from the files on disk to a stack in the slot.                  *)

BootTo(pc) == boot' = [boot EXCEPT !.pc = pc]

(* prefs::load, then load_or_generate_secret: an empty file is no secret.  *)
Read ==
    /\ boot.pc = "read"
    /\ LET known == disk.secret \notin {None, Torn}
           key == IF known THEN disk.secret ELSE hist.coin + 1
       IN  /\ disk' = [disk EXCEPT !.secret = key]
           /\ boot' = [boot EXCEPT !.pc = "services", !.prefs = disk.prefs, !.key = key]
           /\ hist' = [hist EXCEPT !.coin = IF known THEN @ ELSE key,
                                   !.reads = @ + 1, !.hit = FALSE, !.owed = FALSE,
                                   !.wish = IF hist.muddled THEN disk.prefs ELSE @,
                                   !.muddled = @ /\ Changing]
    /\ UNCHANGED <<sc, db, stack, login, save, page, cli, op, get>>

Services ==
    /\ boot.pc = "services" /\ BootTo("token")
    /\ UNCHANGED <<sc, disk, db, stack, login, save, page, cli, op, get, hist>>

(* Mutant: a stored token is taken without trying it.                      *)
StoredTokenTrusted ==
    /\ boot.pc = "token" /\ disk.creds # Torn
    /\ LET fresh == disk.creds = NoCreds
           creds == IF fresh THEN [pw |-> hist.coin + 1, tok |-> None] ELSE disk.creds
       IN  /\ boot' = [boot EXCEPT !.creds = creds,
                                   !.pc = IF creds.tok # None THEN "bind" ELSE "login"]
           /\ hist' = [hist EXCEPT !.coin = IF fresh THEN @ + 1 ELSE @,
                                   !.locked = fresh /\ db.user # None]
    /\ UNCHANGED <<sc, disk, db, stack, login, save, page, cli, op, get>>

(* provision, first part: the credentials are read, or invented, and a     *)
(* stored token is tried.  Any failure there leads to a login.             *)
StoredToken ==
    /\ boot.pc = "token" /\ disk.creds # Torn
    /\ \E fault \in BOOLEAN :
          LET fresh == disk.creds = NoCreds
              creds == IF fresh THEN [pw |-> hist.coin + 1, tok |-> None] ELSE disk.creds
              holds == creds.tok # None /\ ~fault /\ Valid(creds.tok, boot.key)
          IN  /\ fault => sc.fail > 0 /\ creds.tok # None
              /\ sc' = IF fault THEN [sc EXCEPT !.fail = @ - 1] ELSE sc
              /\ boot' = [boot EXCEPT !.creds = creds,
                                      !.pc = IF holds THEN "bind" ELSE "login"]
              /\ hist' = [hist EXCEPT !.coin = IF fresh THEN @ + 1 ELSE @,
                                      !.locked = fresh /\ db.user # None]
    /\ UNCHANGED <<disk, db, stack, login, save, page, cli, op, get>>

(* Credentials that do not parse end every boot.                           *)
CredsTorn ==
    /\ boot.pc = "token" /\ disk.creds = Torn
    /\ Fails
    /\ hist' = [hist EXCEPT !.failures = @ + 1]
    /\ UNCHANGED <<sc, disk, db, login, save, page, cli, get>>

(* Login with the stored password; when it is refused, or the call fails,  *)
(* the user is registered, which only an empty database accepts.           *)
Login ==
    /\ boot.pc = "login"
    /\ \/ BootTo(IF db.user = boot.creds.pw THEN "mint" ELSE "register") /\ UNCHANGED <<sc, hist>>
       \/ /\ sc.fail > 0 /\ sc' = [sc EXCEPT !.fail = @ - 1]
          /\ BootTo("register") /\ hist' = [hist EXCEPT !.hit = TRUE]
    /\ UNCHANGED <<disk, db, stack, login, save, page, cli, op, get>>

(* Mutant: the user of a wiped database gets a password of its own.        *)
RegisterAnew ==
    /\ boot.pc = "register" /\ db.user = None
    /\ db' = [db EXCEPT !.user = hist.coin + 1]
    /\ hist' = [hist EXCEPT !.coin = @ + 1]
    /\ BootTo("mint")
    /\ UNCHANGED <<sc, disk, stack, login, save, page, cli, op, get>>
Register ==
    /\ boot.pc = "register" /\ db.user = None
    /\ db' = [db EXCEPT !.user = boot.creds.pw]
    /\ \/ BootTo("mint")          \* with a session
       \/ BootTo("relogin")       \* or without
    /\ UNCHANGED <<sc, disk, stack, login, save, page, cli, op, get, hist>>
RegisterRefused ==
    /\ boot.pc = "register" /\ db.user # None
    /\ Fails
    /\ hist' = [hist EXCEPT !.failures = @ + 1]
    /\ UNCHANGED <<sc, disk, db, login, save, page, cli, get>>

Relogin ==
    /\ boot.pc = "relogin" /\ BootTo("mint")
    /\ UNCHANGED <<sc, disk, db, stack, login, save, page, cli, op, get, hist>>

(* create_access_token, get_profile, and the credentials written back.     *)
Mint ==
    /\ boot.pc = "mint"
    /\ LET tok == hist.coin + 1
       IN  /\ db' = [db EXCEPT !.keys = @ \cup {<<tok, boot.key>>}]
           /\ boot' = [boot EXCEPT !.pc = "profile", !.creds.tok = tok]
           /\ hist' = [hist EXCEPT !.coin = tok]
    /\ UNCHANGED <<sc, disk, stack, login, save, page, cli, op, get>>
GetProfile ==
    /\ boot.pc = "profile" /\ BootTo("persist")
    /\ UNCHANGED <<sc, disk, db, stack, login, save, page, cli, op, get, hist>>
Persist ==
    /\ boot.pc = "persist" /\ BootTo("bind")
    /\ disk' = [disk EXCEPT !.creds = boot.creds]
    /\ UNCHANGED <<sc, db, stack, login, save, page, cli, op, get, hist>>

(* The proxy is bound and serves; the daemon, paused if sync is off, and   *)
(* the renders are spawned with no await in between.                       *)
Bind ==
    /\ boot.pc = "bind" /\ BootTo("install")
    /\ stack' = [flags |-> FrontendFlags(boot.prefs.plugins),
                 csp |-> ResolveCsp(sc.csp, boot.prefs.csp),
                 paused |-> ShouldPauseAtBoot(boot.prefs),
                 renders |-> RendersAtBoot(boot.prefs),
                 tok |-> boot.creds.tok, key |-> boot.key, used |-> FALSE]
    /\ login' = [l \in Logins |-> "idle"]
    /\ hist' = [hist EXCEPT !.sessions = 0]
    /\ UNCHANGED <<sc, disk, db, save, page, cli, op, get>>

(* The caller stores the application.  A switch, and the start that makes  *)
(* up for one, clear the marker; a reboot in place leaves it as it is.     *)
Install ==
    /\ boot.pc = "install"
    /\ boot' = [boot EXCEPT !.pc = "up", !.runner = TRUE, !.by = 0]
    /\ disk' = [disk EXCEPT !.marker = @ /\ boot.by # 0 /\ ~Switches(sc.ops[boot.by])]
    /\ op' = IF boot.by = 0 THEN op
             ELSE [op EXCEPT ![boot.by] = [pc |-> "record", ok |-> TRUE]]
    /\ UNCHANGED <<sc, db, stack, login, save, page, cli, get, hist>>

(* serve_control publishes runtime.json on its own time.                   *)
Publish ==
    /\ boot.runner /\ disk.record # boot.life
    /\ disk' = [disk EXCEPT !.record = boot.life]
    /\ UNCHANGED <<sc, db, boot, stack, login, save, page, cli, op, get, hist>>

-----------------------------------------------------------------------------
(* Restarts: reboot_in_place, switch_to, and who is told.                  *)

OpTo(o, pc) == op' = [op EXCEPT ![o].pc = pc]
OthersOut(o) == \E q \in Ops \ {o} : Recorded(sc.ops[q]) /\ op[q].pc \notin {"idle", "end"}

(* post_reboot and post_vault answer 202 and detach a task; the page keeps *)
(* the last outcome it has seen as its baseline, and polls.                *)
AskReboot(o) ==
    /\ op[o].pc = "idle" /\ sc.ops[o] = "reboot"
    /\ Serving /\ boot.runner /\ ~page.wait
    /\ OpTo(o, "lock")
    /\ page' = [page EXCEPT !.wait = TRUE, !.base = page.last, !.told = "none"]
    /\ hist' = [hist EXCEPT !.clicked = hist.reads,
                            !.alone = page.last = disk.op.seq /\ ~OthersOut(o)]
    /\ UNCHANGED <<sc, disk, db, boot, stack, login, save, cli, get>>
AskElsewhere(o) ==
    /\ op[o].pc = "idle" /\ sc.ops[o] # "reboot"
    /\ boot.runner /\ (Serving \/ sc.ops[o] = "menu")
    /\ OpTo(o, "lock")
    /\ hist' = [hist EXCEPT !.alone = @ /\ ~Recorded(sc.ops[o])]
    /\ UNCHANGED <<sc, disk, db, boot, stack, login, save, page, cli, get>>

(* Under switch_lock: a switch leaves its marker, or finds its target      *)
(* unusable before it touches anything; then the application leaves the    *)
(* slot, and the proxy serves on while the daemons stop.                   *)
TakeDown(o) ==
    /\ op[o].pc = "lock" /\ boot.pc \in {"up", "failed"}
    /\ OpTo(o, "run")
    /\ boot' = [boot EXCEPT !.pc = "drain", !.by = o]
    /\ disk' = [disk EXCEPT !.marker = @ \/ Switches(sc.ops[o])]
    /\ UNCHANGED <<sc, db, stack, login, save, page, cli, get, hist>>
Unusable(o) ==
    /\ op[o].pc = "lock" /\ boot.pc \in {"up", "failed"}
    /\ Switches(sc.ops[o]) /\ sc.fail > 0
    /\ sc' = [sc EXCEPT !.fail = @ - 1]
    /\ op' = [op EXCEPT ![o] = [pc |-> "record", ok |-> FALSE]]
    /\ UNCHANGED <<disk, db, boot, stack, login, save, page, cli, get, hist>>

(* Mutant: the children stop under a request the proxy has let in.         *)
DrainedAtOnce ==
    /\ boot.pc = "drain"
    /\ stack' = None
    /\ db' = IF Switches(sc.ops[boot.by]) THEN Empty ELSE db
    /\ BootTo("read")
    /\ UNCHANGED <<sc, disk, login, save, page, cli, op, get, hist>>

(* The proxy has answered whoever it let in; the children stop; a switch   *)
(* wipes the database and the assets.                                      *)
Drained ==
    /\ boot.pc = "drain" /\ ~InFlight
    /\ stack' = None
    /\ db' = IF Switches(sc.ops[boot.by]) THEN Empty ELSE db
    /\ BootTo("read")
    /\ UNCHANGED <<sc, disk, login, save, page, cli, op, get, hist>>

(* Mutant: the outcome is recorded when the operation is accepted.         *)
RecordEarly(o) ==
    /\ op[o].pc \in {"lock", "record"}
    /\ op' = [op EXCEPT ![o].pc = IF @ = "lock" THEN "run" ELSE "end"]
    /\ disk' = [disk EXCEPT !.op = [seq |-> @.seq + 1, kind |-> sc.ops[o], ok |-> TRUE]]
    /\ UNCHANGED <<sc, db, boot, stack, login, save, page, cli, get, hist>>
(* record_last_op, after the operation and outside its lock.               *)
Record(o) ==
    /\ op[o].pc = "record"
    /\ OpTo(o, "end")
    /\ disk' = IF Recorded(sc.ops[o])
               THEN [disk EXCEPT !.op = [seq |-> @.seq + 1, kind |-> sc.ops[o],
                                         ok |-> op[o].ok]]
               ELSE disk
    /\ UNCHANGED <<sc, db, boot, stack, login, save, page, cli, get, hist>>

-----------------------------------------------------------------------------
(* Saving preferences.                                                     *)

SaveTo(i, pc) == save' = [save EXCEPT ![i].pc = pc]
Flip(prefs, f) == [prefs EXCEPT ![f] = ~@]

(* A toggle on the page sends the whole form.  What the page does not know *)
(* of, or what overlaps, is remembered as muddled.                         *)
Click(i) ==
    /\ save[i].pc = "idle" /\ sc.clicks > 0 /\ boot.pc # "off"
    /\ sc' = [sc EXCEPT !.clicks = @ - 1]
    /\ \E f \in sc.fields :
          /\ page' = [page EXCEPT !.form = Flip(@, f)]
          /\ save' = [save EXCEPT ![i] = [NoSave EXCEPT !.pc = "sent",
                                                        !.body = Flip(page.form, f)]]
          /\ hist' = [hist EXCEPT !.wish = Flip(@, f),
                                  !.muddled = @ \/ page.form # disk.prefs \/ Changing]
    /\ UNCHANGED <<disk, db, boot, stack, login, cli, op, get>>

(* The command line finds the process by its record, reads the             *)
(* preferences from the proxy, and posts them back with one replaced.      *)
Attached == disk.record = boot.life /\ boot.pc # "off"
SetReads ==
    /\ cli.pc = "idle" /\ sc.sets > 0 /\ Attached /\ Serving
    /\ sc' = [sc EXCEPT !.sets = @ - 1]
    /\ cli' = [pc |-> "got", got |-> disk.prefs]
    /\ hist' = [hist EXCEPT !.muddled = @ \/ Changing]
    /\ UNCHANGED <<disk, db, boot, stack, login, save, page, op, get>>
MergedPreferences(got, f) == Flip(got, f)
SetPosts(i) ==
    /\ cli.pc = "got" /\ save[i].pc = "idle"
    /\ cli' = [cli EXCEPT !.pc = "idle"]
    /\ \E f \in sc.fields :
          /\ save' = [save EXCEPT ![i] = [NoSave EXCEPT !.pc = "sent", !.by = "cli",
                                             !.body = MergedPreferences(cli.got, f)]]
          /\ hist' = [hist EXCEPT !.wish = Flip(@, f),
                                  !.muddled = @ \/ \E j \in Saves : Pending(j)]
    /\ UNCHANGED <<sc, disk, db, boot, stack, login, page, op, get>>

(* Nobody listens: the client says so, and what was wished is not saved.   *)
Refused(i) ==
    /\ save[i].pc = "sent" /\ ~Serving
    /\ SaveTo(i, "idle")
    /\ hist' = [hist EXCEPT !.wish = disk.prefs]
    /\ UNCHANGED <<sc, disk, db, boot, stack, login, page, cli, op, get>>

(* post_prefs: what is saved, and whether that needs a restart, is decided *)
(* against the file; a save that fails changes nothing.  A stack that is   *)
(* up but not in the slot yet will not hear of it: muddled.                *)
PostPrefs(i) ==
    /\ save[i].pc = "sent" /\ Serving
    /\ LET new == save[i].body
           needs == NeedsReboot(disk.prefs, new)
       IN  /\ disk' = [disk EXCEPT !.prefs = new]
           /\ save' = [save EXCEPT ![i].pc = "sync", ![i].needs = needs]
           /\ hist' = [hist EXCEPT !.owed = @ \/ needs,
                                   !.muddled = @ \/ boot.pc = "install"]
    /\ UNCHANGED <<sc, db, boot, stack, login, page, cli, op, get>>
SaveFails(i) ==
    /\ save[i].pc = "sent" /\ Serving /\ sc.fail > 0
    /\ sc' = [sc EXCEPT !.fail = @ - 1]
    /\ SaveTo(i, "idle")
    /\ hist' = [hist EXCEPT !.wish = disk.prefs]
    /\ UNCHANGED <<disk, db, boot, stack, login, page, cli, op, get>>

(* Then the daemon in the slot is paused or resumed ...                    *)
ApplySync(i) ==
    /\ save[i].pc = "sync"
    /\ SaveTo(i, "renders")
    /\ stack' = IF InSlot THEN [stack EXCEPT !.paused = ~save[i].body.sync] ELSE stack
    /\ UNCHANGED <<sc, disk, db, boot, login, page, cli, op, get, hist>>

(* ... and set_renders_enabled stops renders, but starts none.             *)
ApplyRenders(i) ==
    /\ save[i].pc = "renders"
    /\ SaveTo(i, "answer")
    /\ stack' = IF InSlot THEN [stack EXCEPT !.renders = @ /\ save[i].body.exports]
                ELSE stack
    /\ UNCHANGED <<sc, disk, db, boot, login, page, cli, op, get, hist>>

(* The answer decides the page's restart banner; the page polls.           *)
Answer(i) ==
    /\ save[i].pc = "answer"
    /\ SaveTo(i, "idle")
    /\ page' = IF save[i].by = "page"
               THEN [page EXCEPT !.banner = save[i].needs, !.last = disk.op.seq]
               ELSE page
    /\ UNCHANGED <<sc, disk, db, boot, stack, login, cli, op, get, hist>>

-----------------------------------------------------------------------------
(* The page's polls.                                                       *)

(* pollLive learns the last outcome, and never touches the form; a fresh   *)
(* load of the page fills that too.                                        *)
PollLive ==
    /\ Serving /\ page.last # disk.op.seq
    /\ page' = [page EXCEPT !.last = disk.op.seq]
    /\ UNCHANGED <<sc, disk, db, boot, stack, login, save, cli, op, get, hist>>
Load ==
    /\ Serving /\ ~page.wait
    /\ page' = [page EXCEPT !.form = disk.prefs, !.last = disk.op.seq,
                            !.banner = FALSE, !.told = "none"]
    /\ UNCHANGED <<sc, disk, db, boot, stack, login, save, cli, op, get, hist>>

(* waitForOpOutcome: until an outcome other than the baseline shows up, or *)
(* the attempts are used up.                                               *)
Await ==
    /\ page.wait /\ Serving
    /\ page' = [page EXCEPT
                  !.form = disk.prefs, !.last = disk.op.seq,
                  !.wait = disk.op.seq = page.base,
                  !.banner = @ /\ ~(disk.op.seq # page.base /\ disk.op.ok
                                      /\ ~Switches(disk.op.kind)),
                  !.told = CASE disk.op.seq = page.base -> "none"
                             [] disk.op.seq # page.base /\ Switches(disk.op.kind) -> "other"
                             [] OTHER -> IF disk.op.ok THEN "applied" ELSE "failed"]
    /\ UNCHANGED <<sc, disk, db, boot, stack, login, save, cli, op, get, hist>>
GiveUp ==
    /\ page.wait
    /\ page' = [page EXCEPT !.wait = FALSE, !.told = "waiting"]
    /\ UNCHANGED <<sc, disk, db, boot, stack, login, save, cli, op, get, hist>>

-----------------------------------------------------------------------------
(* Through the proxy: the webview's login, and assets.                     *)

(* bootstrap_login: the one-shot flag is taken before the call ...         *)
Bootstrap(l) ==
    /\ login[l] = "idle" /\ Serving /\ sc.logins > 0
    /\ sc' = [sc EXCEPT !.logins = @ - 1]
    /\ login' = [login EXCEPT ![l] = IF stack.used THEN "refused" ELSE "asking"]
    /\ stack' = [stack EXCEPT !.used = TRUE]
    /\ UNCHANGED <<disk, db, boot, save, page, cli, op, get, hist>>
(* ... and given back when the call fails.                                 *)
LoggedIn(l) ==
    /\ login[l] = "asking"
    /\ \/ /\ db.user = boot.creds.pw
          /\ login' = [login EXCEPT ![l] = "home"]
          /\ hist' = [hist EXCEPT !.sessions = @ + 1]
          /\ UNCHANGED <<sc, stack>>
       \/ /\ sc.fail > 0 /\ sc' = [sc EXCEPT !.fail = @ - 1]
          /\ login' = [login EXCEPT ![l] = "idle"]
          /\ stack' = [stack EXCEPT !.used = FALSE]
          /\ UNCHANGED hist
    /\ UNCHANGED <<disk, db, boot, save, page, cli, op, get>>

(* The place of an object in the storage, as the backend names it.         *)
ObjectPath == <<"9b", "6d", "object">>

(* asset_proxy: the request goes to the backend first, ...                 *)
AskAsset ==
    /\ get.pc = "idle" /\ Serving /\ db.asset # None /\ sc.bound # Missing
    /\ \E h \in Headers(sc.bound), head \in BOOLEAN :
          get' = [pc |-> "forward", range |-> h, head |-> head, status |-> 0,
                  answer |-> None]
    /\ UNCHANGED <<sc, disk, db, boot, stack, login, save, page, cli, op, hist>>
(* ... which cannot be reached, or has no such object, or redirects ...    *)
Forward ==
    /\ get.pc = "forward"
    /\ \/ /\ stack # None /\ db.asset # None
          /\ get' = [get EXCEPT !.pc = IF SafeJoin(ObjectPath).ok THEN "open" ELSE "done"]
       \/ /\ stack = None \/ db.asset = None
          /\ get' = [get EXCEPT !.pc = "done", !.status = IF stack = None THEN 502 ELSE 404]
    /\ UNCHANGED <<sc, disk, db, boot, stack, login, save, page, cli, op, hist>>
(* ... to the file, which is opened, measured and served.                  *)
ServeAsset ==
    /\ get.pc = "open"
    /\ get' = IF db.asset = None
              THEN [get EXCEPT !.pc = "done", !.status = 404]
              ELSE LET r == ServeStorageFile(db.asset, get.range, get.head)
                   IN  [get EXCEPT !.pc = "done", !.status = r.status, !.answer = r]
    /\ UNCHANGED <<sc, disk, db, boot, stack, login, save, page, cli, op, hist>>

-----------------------------------------------------------------------------
Booting ==
    \/ Launch \/ Read \/ Services \/ StoredToken \/ CredsTorn \/ Login
    \/ Register \/ RegisterRefused \/ Relogin \/ Mint \/ GetProfile \/ Persist
    \/ Bind \/ Install \/ Publish \/ Drained

Next ==
    \/ Booting \/ Crash \/ LoseSecret \/ BootFault
    \/ \E o \in Ops : \/ AskReboot(o) \/ AskElsewhere(o) \/ TakeDown(o)
                      \/ Unusable(o) \/ Record(o)
    \/ \E i \in Saves : \/ Click(i) \/ SetPosts(i) \/ Refused(i) \/ PostPrefs(i)
                        \/ SaveFails(i) \/ ApplySync(i) \/ ApplyRenders(i) \/ Answer(i)
    \/ SetReads \/ PollLive \/ Load \/ Await \/ GiveUp
    \/ \E l \in Logins : Bootstrap(l) \/ LoggedIn(l)
    \/ AskAsset \/ Forward \/ ServeAsset

Spec == Init /\ [][Next]_vars

-----------------------------------------------------------------------------
(* The types of the variables.                                             *)
TypeOK ==
    /\ sc \in Scenario
    /\ disk \in [secret : Nat \cup {None, Torn}, creds : Creds \cup {Torn}, prefs : Prefs,
                 op : [seq : Nat, kind : OpKinds \cup {"none"}, ok : BOOLEAN],
                 record : 0 .. Lives, marker : BOOLEAN]
    /\ db \in [user : Nat \cup {None}, keys : SUBSET (Nat \X Nat), asset : Nat \cup {None}]
    /\ boot \in [pc : BootPcs, by : {0} \cup Ops, life : 0 .. Lives, runner : BOOLEAN,
                 prefs : Prefs, key : Nat \cup {None}, creds : Creds]
    /\ stack \in Stack \cup {None}
    /\ login \in [Logins -> {"idle", "asking", "home", "refused"}]
    /\ save \in [Saves -> [pc : {"idle", "sent", "sync", "renders", "answer"},
                           body : Prefs, needs : BOOLEAN, by : {"page", "cli"}]]
    /\ page \in [form : Prefs, last : Nat, wait : BOOLEAN, base : Nat, banner : BOOLEAN,
                 told : {"none", "applied", "failed", "other", "waiting"}]
    /\ cli \in [pc : {"idle", "got"}, got : Prefs]
    /\ op \in [Ops -> [pc : {"idle", "lock", "run", "record", "end"}, ok : BOOLEAN]]
    /\ get \in [pc : {"idle", "forward", "open", "done"},
                range : [form : {"none", "odd", "interval"}, from : Nat \cup {Missing}, to : Nat \cup {Missing}],
                head : BOOLEAN, status : {0, 200, 206, 404, 416, 502},
                answer : [status : {200, 206, 416}, length : Nat, bytes : SUBSET Nat] \cup {None}]
    /\ hist \in [coin : Nat, reads : Nat, hit : BOOLEAN, locked : BOOLEAN, failures : Nat,
                 sessions : Nat, wish : Prefs, owed : BOOLEAN, muddled : BOOLEAN,
                 clicked : Nat, alone : BOOLEAN]

(* Whatever was wiped, killed, lost or refused on the way: a stack that is *)
(* up holds a token its database accepts under the key it runs with, the   *)
(* password on disk is the user's, and a boot lets in one webview.         *)
HoldsKey ==
    /\ InSlot => Valid(stack.tok, stack.key)
    /\ disk.creds \notin {NoCreds, Torn} /\ db.user # None => disk.creds.pw = db.user
    /\ hist.sessions <= 1

(* "Handles all three states" (provision): fresh, normal and wiped.  A     *)
(* boot fails only when a fault strikes it, other than in the check of the *)
(* stored token, when its credentials are torn, or when a user exists      *)
(* whose password was never written.                                       *)
Opens ==
    [][hist'.failures # hist.failures =>
          hist'.hit \/ disk.creds = Torn \/ hist.locked]_vars

(* Without those exceptions, which is what provision says.                 *)
AlwaysOpens == [][hist'.failures # hist.failures => hist'.hit]_vars

(* Saves, restarts and kills in any order: once no save is under way, what *)
(* was wished is on disk, and the stack in the slot is paused, renders,    *)
(* shows plugins and fences as the file says, except for what a save has   *)
(* said needs a restart.  Not claimed where two front ends or two toggles  *)
(* overlapped, or a save met a stack that was not in the slot yet.         *)
AsWished ==
    InSlot /\ ~Changing /\ ~hist.muddled =>
        /\ disk.prefs = hist.wish
        /\ stack.paused = ~disk.prefs.sync
        /\ stack.renders => disk.prefs.exports
        /\ hist.owed \/ /\ stack.renders = RendersAtBoot(disk.prefs)
                        /\ stack.flags = FrontendFlags(disk.prefs.plugins)
                        /\ stack.csp = ResolveCsp(sc.csp, disk.prefs.csp)

(* Two saves of one page may be applied in the other order.                *)
AlwaysAsWished ==
    InSlot /\ ~Changing =>
        disk.prefs = hist.wish /\ stack.paused = ~disk.prefs.sync

(* The page says "settings applied" only after a boot that read the        *)
(* preferences after the click, and "failed" only when its own restart     *)
(* did, unless somebody else's outcome got in between.                     *)
OutcomeTold ==
    hist.alone =>
        /\ page.told = "applied" => hist.reads > hist.clicked
        /\ page.told = "failed" => \E o \in Ops : sc.ops[o] = "reboot" /\ op[o].pc = "end" /\ ~op[o].ok

(* Another front end's restart may be told as this page's.                 *)
AlwaysTold == page.told = "applied" => hist.reads > hist.clicked

(* While a restart is owed, the page that was told so shows its banner.    *)
BannerStays == hist.owed /\ ~Changing /\ ~page.wait => page.banner

(* An asset that was asked for is answered as RFC 9110 says, also when the *)
(* stack is being taken down and its storage wiped meanwhile.              *)
AssetRight ==
    get.pc = "done" =>
        get.answer = Asked(sc.len, get.range, get.head)
=============================================================================
