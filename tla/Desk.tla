-------------------------------- MODULE Desk --------------------------------
(***************************************************************************)
(* The desktop shell around the vault runner: what the menus, the tray and *)
(* the "open a document" funnel know of the running stack, and what they   *)
(* do with it while the stack is being replaced.                           *)
(*                                                                         *)
(* The shell keeps two late-bound copies of facts about the stack: the     *)
(* LiveVault slot (vault root, team, token) every menu command and every   *)
(* opened document reads, and the DaemonStatusBridge (a control handle and *)
(* a remembered pause) behind the tray.  Both are filled by the boot task  *)
(* and by the callback of Open Vault, step by step, after the stack is up. *)
(* The stack itself is replaced by four kinds of flow: the boot, the menu  *)
(* (or tray), the Preferences page, and the command line's /open; the page *)
(* also reboots in place.                                                  *)
(*                                                                         *)
(* What the runner does inside a replacement is VaultSwitch's subject; here *)
(* it is two steps, down and up.  A folder copied into a vault is imported *)
(* by the sync daemon of that vault, when it runs (Sync).                  *)
(***************************************************************************)
EXTENDS Integers, FiniteSets, Sequences

CONSTANTS
    Vaults,     \* the vault folders
    Outside,    \* where an export may also be written: in no vault
    None,       \* nothing
    Scenarios   \* the histories examined: see Scenario

(* A scenario: the kinds of the flows and asks a person may start, and how *)
(* often the tray's pause entry is clicked and the preferences are saved,  *)
(* and whether sync is enabled in the preferences at boot.                 *)
FlowKinds == {"menu", "page", "cli", "reboot"}
AskKinds == {"dir", "pending", "zip", "new", "export"}

ASSUME DeskAssumption ==
    /\ Vaults # {}
    /\ Outside \notin Vaults /\ None \notin Vaults
    /\ \A s \in Scenarios : /\ {"flows", "asks", "press", "save", "sync"} \subseteq DOMAIN s
                            /\ s.flows \in Seq(FlowKinds)
                            /\ s.asks \in Seq(AskKinds)
                            /\ s.press \in Nat /\ s.save \in Nat
                            /\ s.sync \in BOOLEAN

VARIABLES
    sc,      \* the scenario, its press and save budgets counting down
    stack,   \* the running stack: generation, vault, wipes before it, pause
    flow,    \* what replaces the stack: the boot is flow 0
    live,    \* the LiveVault slot: vault and era, None before boot fills it
    bridge,  \* the tray's bridge: remembered pause, control, forwarders
    shown,   \* whether the tray shows syncing as paused
    prefs,   \* preferences.sync_enabled
    open,    \* [running, record]: the runner slot of the shell, runtime.json
    ask,     \* documents and menu commands under way
    tree,    \* per vault and name in its Imported folder: the copy there
    known,   \* per vault: the names that have an id in its manifest
    landed,  \* per ask: where its bytes were put
    raced,   \* a flow took the stack during the tail of another
    late     \* a pause the replay cannot honour (see Press, Save)

vars == <<sc, stack, flow, live, bridge, shown, prefs, open, ask, tree, known,
          landed, raced, late>>

Flows == 0 .. Len(sc.flows)
Asks == 1 .. Len(sc.asks)
Names == Asks          \* as many names as there are copies to make
FlowKind(f) == IF f = 0 THEN "boot" ELSE sc.flows[f]

(* The steps a boot or an Open Vault callback makes after the stack is up. *)
Telling == {"bind", "bound", "facts", "live"}
FlowPcs == {"idle", "ask", "wait", "down", "serve", "end"} \cup Telling
AskPcs == {"idle", "ask", "copy", "swap", "poll", "call", "fetch", "pick", "end"}

Busy == \E f \in Flows : flow[f].pc \in Telling \cup {"down"}

(* The shell's copies are meant to agree with the stack: it was raised by  *)
(* the boot or by Open Vault, alone, and that flow has finished.           *)
Settled == stack.up /\ stack.by \in {"boot", "menu"} /\ ~raced /\ ~Busy

(* The vault the registry names; the vaults are interchangeable.           *)
First == CHOOSE v \in Vaults : TRUE

Init ==
    /\ sc \in Scenarios
    /\ stack = [up |-> FALSE, gen |-> 0, vault |-> First, era |-> 1,
                paused |-> FALSE, by |-> "boot"]
    /\ flow = [f \in 0 .. Len(sc.flows) |->
                  [pc |-> IF f = 0 THEN "down" ELSE "idle", to |-> First, got |-> 0]]
    /\ live = None
    /\ bridge = [want |-> FALSE, ctl |-> 0, fwd |-> {}]
    /\ shown = FALSE
    /\ prefs = sc.sync
    /\ open = [running |-> FALSE, record |-> FALSE]
    /\ ask = [a \in 1 .. Len(sc.asks) |->
                 [pc |-> "idle", vault |-> None, era |-> 0, name |-> 0,
                  gen |-> 0, calm |-> FALSE, safe |-> FALSE]]
    /\ tree = [v \in Vaults |-> [n \in 1 .. Len(sc.asks) |-> 0]]
    /\ known = [v \in Vaults |-> {}]
    /\ landed = [a \in 1 .. Len(sc.asks) |-> None]
    /\ raced = FALSE
    /\ late = FALSE

-----------------------------------------------------------------------------
(* Flows: what replaces the stack, and what the shell does afterwards.     *)

To(f, pc) == flow' = [flow EXCEPT ![f].pc = pc]

(* The command line finds the application by its record.                   *)
Attached == open.record

(* A person starts a flow.  The menu asks for a folder first; the page     *)
(* answers 202 and detaches, once the runner exists; the command line      *)
(* needs the control port, published in runtime.json.                      *)
Begin(f) ==
    /\ flow[f].pc = "idle"
    /\ \/ FlowKind(f) = "menu" /\ To(f, "ask") /\ UNCHANGED raced
       \/ /\ FlowKind(f) \in {"page", "cli"}
          /\ IF FlowKind(f) = "cli" THEN Attached ELSE stack.gen > 0
          /\ \E v \in Vaults :
                flow' = [flow EXCEPT ![f].pc = "wait", ![f].to = v]
          /\ UNCHANGED raced
       \/ FlowKind(f) = "reboot" /\ stack.gen > 0 /\ To(f, "wait") /\ UNCHANGED raced
    /\ UNCHANGED <<sc, stack, live, bridge, shown, prefs, open, ask, tree, known,
                   landed, raced, late>>

(* The folder picker closes.  Before the boot task has stored the runner   *)
(* the request is dropped.                                                 *)
Picked(f) ==
    /\ flow[f].pc = "ask"
    /\ \/ To(f, "end")
       \/ /\ open.running
          /\ \E v \in Vaults :
                flow' = [flow EXCEPT ![f].pc = "wait", ![f].to = v]
    /\ UNCHANGED <<sc, stack, live, bridge, shown, prefs, open, ask, tree, known,
                   landed, raced, late>>

(* switch_to and reboot_in_place, first half: under switch_lock the stack  *)
(* is stopped and, for a switch, the database is wiped, which ends the era *)
(* of its team and token.  A reboot keeps the vault that is active now.    *)
TakeDown(f) ==
    /\ flow[f].pc = "wait"
    /\ \A g \in Flows : flow[g].pc # "down"
    /\ stack' = [stack EXCEPT !.up = FALSE,
                              !.era = IF FlowKind(f) = "reboot" THEN @ ELSE @ + 1]
    /\ flow' = [flow EXCEPT ![f].pc = "down",
                            ![f].to = IF FlowKind(f) = "reboot" THEN stack.vault
                                                                 ELSE @]
    /\ raced' = (\E g \in Flows \ {f} : flow[g].pc \in Telling)
    /\ UNCHANGED <<sc, live, bridge, shown, prefs, open, ask, tree, known, landed,
                   late>>

(* The new stack is up, its daemon paused as the preferences say.  Only    *)
(* the boot task and the Open Vault callback go on to tell the shell.      *)
BringUp(f) ==
    /\ flow[f].pc = "down"
    /\ stack' = [stack EXCEPT !.up = TRUE, !.gen = @ + 1, !.vault = flow[f].to,
                              !.paused = ~prefs, !.by = FlowKind(f)]
    /\ To(f, CASE FlowKind(f) = "boot" -> "facts"
               [] FlowKind(f) = "menu" -> "bind"
               [] OTHER -> "end")
    /\ UNCHANGED <<sc, live, bridge, shown, prefs, open, ask, tree, known, landed,
                   raced, late>>

(* sync_control and the first line of attach: the remembered pause is      *)
(* replayed onto the daemon.  Without a stack there is nothing to bind.    *)
ReplayDropped(f) ==
    /\ flow[f].pc = "bind"
    /\ flow' = [flow EXCEPT ![f].pc = IF stack.up THEN "bound"
                                      ELSE IF f = 0 THEN "serve" ELSE "facts",
                            ![f].got = IF stack.up THEN stack.gen ELSE 0]
    /\ late' = (late /\ ~stack.up)
    /\ UNCHANGED <<sc, stack, live, bridge, shown, prefs, open, ask, tree, known,
                   landed, raced>>
Bind(f) ==
    /\ flow[f].pc = "bind"
    /\ flow' = [flow EXCEPT ![f].pc = IF stack.up THEN "bound"
                                      ELSE IF f = 0 THEN "serve" ELSE "facts",
                            ![f].got = IF stack.up THEN stack.gen ELSE 0]
    /\ stack' = [stack EXCEPT !.paused = @ \/ (stack.up /\ bridge.want)]
    /\ late' = (late /\ ~stack.up)
    /\ UNCHANGED <<sc, live, bridge, shown, prefs, open, ask, tree, known,
                   landed, raced>>

(* The rest of attach: the control is stored and a forwarder spawned.      *)
Bound(f) ==
    /\ flow[f].pc = "bound"
    /\ bridge' = [bridge EXCEPT !.ctl = flow[f].got, !.fwd = @ \cup {flow[f].got}]
    /\ To(f, IF f = 0 THEN "serve" ELSE "facts")
    /\ UNCHANGED <<sc, stack, live, shown, prefs, open, ask, tree, known, landed,
                   raced, late>>

(* team_id and access_token: empty while there is no stack to ask.         *)
Facts(f) ==
    /\ flow[f].pc = "facts"
    /\ flow' = [flow EXCEPT ![f].pc = "live",
                            ![f].got = IF stack.up THEN stack.era ELSE 0]
    /\ UNCHANGED <<sc, stack, live, bridge, shown, prefs, open, ask, tree, known,
                   landed, raced, late>>

(* The slot is filled: by the boot with the vault active now, by the       *)
(* callback with the one it switched to.                                   *)
LiveKeepsToken(f) ==
    /\ flow[f].pc = "live"
    /\ live' = [vault |-> IF f = 0 THEN stack.vault ELSE flow[f].to,
                era |-> IF live = None THEN flow[f].got ELSE live.era]
    /\ To(f, IF f = 0 THEN "bind" ELSE "end")
    /\ UNCHANGED <<sc, stack, bridge, shown, prefs, open, ask, tree, known, landed,
                   raced, late>>
SetLive(f) ==
    /\ flow[f].pc = "live"
    /\ live' = [vault |-> IF f = 0 THEN stack.vault ELSE flow[f].to,
                era |-> flow[f].got]
    /\ To(f, IF f = 0 THEN "bind" ELSE "end")
    /\ UNCHANGED <<sc, stack, bridge, shown, prefs, open, ask, tree, known, landed,
                   raced, late>>

(* The boot task's end: the control server is spawned, the runner stored.  *)
Running ==
    /\ flow[0].pc = "serve"
    /\ To(0, "end")
    /\ open' = [open EXCEPT !.running = TRUE]
    /\ UNCHANGED <<sc, stack, live, bridge, shown, prefs, ask, tree, known, landed,
                   raced, late>>

(* serve_control publishes the bound port on its own time.                 *)
Publish ==
    /\ flow[0].pc = "end" /\ ~open.record
    /\ open' = [open EXCEPT !.record = TRUE]
    /\ UNCHANGED <<sc, stack, flow, live, bridge, shown, prefs, ask, tree, known,
                   landed, raced, late>>

-----------------------------------------------------------------------------
(* The tray's pause entry, the preferences, and the daemon.                *)

(* The click does the opposite of what the tray shows.  Without a daemon   *)
(* the tray shows the wish at once; on a daemon that is gone the click is  *)
(* lost, and only the wish remains.  A click between the two halves of an  *)
(* attach reaches neither the replay nor the daemon: late.                 *)
Press ==
    /\ sc.press > 0
    /\ sc' = [sc EXCEPT !.press = @ - 1]
    /\ bridge' = [bridge EXCEPT !.want = ~shown]
    /\ shown' = IF bridge.ctl = 0 THEN ~shown ELSE shown
    /\ stack' = IF stack.up /\ bridge.ctl = stack.gen
                THEN [stack EXCEPT !.paused = ~shown] ELSE stack
    /\ late' = (\E f \in Flows : flow[f].pc = "bound")
    /\ UNCHANGED <<flow, live, prefs, open, ask, tree, known, landed, raced>>

(* post_prefs saves, then pauses or resumes the daemon that runs now: the  *)
(* newer wish, of which the bridge learns nothing.                         *)
Save ==
    /\ sc.save > 0 /\ stack.gen > 0
    /\ sc' = [sc EXCEPT !.save = @ - 1]
    /\ prefs' \in BOOLEAN
    /\ stack' = IF stack.up THEN [stack EXCEPT !.paused = ~prefs'] ELSE stack
    /\ late' = (late \/ prefs')
    /\ UNCHANGED <<flow, live, bridge, shown, open, ask, tree, known, landed, raced>>

(* A forwarder of the running daemon mirrors its snapshot into the tray.   *)
Forward ==
    /\ stack.up /\ stack.gen \in bridge.fwd
    /\ shown # stack.paused
    /\ shown' = stack.paused
    /\ UNCHANGED <<sc, stack, flow, live, bridge, prefs, open, ask, tree, known,
                   landed, raced, late>>

(* The daemon imports a copy it finds and gives it an id.                  *)
Sync ==
    /\ stack.up /\ ~stack.paused
    /\ \E n \in Names :
          /\ tree[stack.vault][n] # 0 /\ n \notin known[stack.vault]
          /\ known' = [known EXCEPT ![stack.vault] = @ \cup {n}]
    /\ UNCHANGED <<sc, stack, flow, live, bridge, shown, prefs, open, ask, tree,
                   landed, raced, late>>

-----------------------------------------------------------------------------
(* Documents and menu commands.                                            *)

AskTo(a, pc) == ask' = [ask EXCEPT ![a].pc = pc]

(* The names taken in a vault's Imported folder; the first free one.       *)
FreeName(v) == CHOOSE n \in Names : /\ tree[v][n] = 0
                                    /\ \A m \in Names : tree[v][m] = 0 => n <= m

(* An ask takes its snapshot of the slot: what it will act on.             *)
Snapshot(a, pc) ==
    ask' = [ask EXCEPT ![a] = [pc |-> pc, vault |-> live.vault, era |-> live.era,
                               name |-> 0, gen |-> stack.gen,
                               calm |-> ~Busy /\ ~raced,
                               safe |-> Settled]]

(* open_document and the File menu.  Before boot has filled the slot the   *)
(* gesture is dropped.  A folder outside the vault and a zip are offered   *)
(* for import; a folder inside, put there by hand, is waited for; New File *)
(* and Export snapshot at once, and need a token.                          *)
Arrive(a) ==
    /\ ask[a].pc = "idle"
    /\ IF live = None THEN AskTo(a, "end") /\ UNCHANGED tree
       ELSE \/ sc.asks[a] \in {"dir", "zip"} /\ Snapshot(a, "ask") /\ UNCHANGED tree
            \/ /\ sc.asks[a] = "pending"
               /\ tree' = [tree EXCEPT ![live.vault][FreeName(live.vault)] = a]
               /\ ask' = [ask EXCEPT ![a].pc = "poll", ![a].vault = live.vault,
                                     ![a].name = FreeName(live.vault)]
            \/ /\ sc.asks[a] \in {"new", "export"}
               /\ IF live.era = 0 THEN AskTo(a, "end")
                  ELSE Snapshot(a, IF sc.asks[a] = "new" THEN "call" ELSE "fetch")
               /\ UNCHANGED tree
    /\ UNCHANGED <<sc, stack, flow, live, bridge, shown, prefs, open, known, landed,
                   raced, late>>

(* The confirm dialog closes: on a no the ask ends, on a yes the slot is   *)
(* read again, so that a switch made under the dialog counts.              *)
AnswerFromBefore(a) ==
    /\ ask[a].pc = "ask"
    /\ \/ AskTo(a, "end")
       \/ ask' = [ask EXCEPT ![a].pc = IF sc.asks[a] = "dir" THEN "copy" ELSE "call",
                             ![a].gen = stack.gen, ![a].calm = ~Busy /\ ~raced,
                             ![a].safe = Settled]
    /\ UNCHANGED <<sc, stack, flow, live, bridge, shown, prefs, open, tree, known,
                   landed, raced, late>>
Answer(a) ==
    /\ ask[a].pc = "ask"
    /\ \/ AskTo(a, "end")
       \/ sc.asks[a] = "dir" /\ Snapshot(a, "copy")
       \/ /\ sc.asks[a] = "zip"
          /\ IF live.era = 0 THEN AskTo(a, "end") ELSE Snapshot(a, "call")
    /\ UNCHANGED <<sc, stack, flow, live, bridge, shown, prefs, open, tree, known,
                   landed, raced, late>>

(* copy_into_vault: the folder is listed for a free name and the copy      *)
(* staged beside it, or the copying fails and the staging goes ...         *)
Stage(a) ==
    /\ ask[a].pc = "copy"
    /\ \/ ask' = [ask EXCEPT ![a].pc = "swap", ![a].name = FreeName(ask[a].vault)]
       \/ AskTo(a, "end")
    /\ UNCHANGED <<sc, stack, flow, live, bridge, shown, prefs, open, tree, known,
                   landed, raced, late>>

(* ... then swapped into place, over whatever took the name meanwhile.     *)
Swap(a) ==
    /\ ask[a].pc = "swap"
    /\ tree' = [tree EXCEPT ![ask[a].vault][ask[a].name] = a]
    /\ landed' = [landed EXCEPT ![a] = ask[a].vault]
    /\ AskTo(a, "poll")
    /\ UNCHANGED <<sc, stack, flow, live, bridge, shown, prefs, open, known, raced,
                   late>>

(* poll_until_imported_and_open: until the manifest of the vault the copy  *)
(* went to knows it, or until the time is up.                              *)
PollForever(a) ==
    /\ ask[a].pc = "poll"
    /\ ask[a].name \in known[ask[a].vault]
    /\ AskTo(a, "end")
    /\ UNCHANGED <<sc, stack, flow, live, bridge, shown, prefs, open, tree, known,
                   landed, raced, late>>
Poll(a) ==
    /\ ask[a].pc = "poll"
    /\ AskTo(a, "end")
    /\ UNCHANGED <<sc, stack, flow, live, bridge, shown, prefs, open, tree, known,
                   landed, raced, late>>

(* An RPC with the snapshot's token: it can succeed while the stack of the *)
(* token's era is up, and may fail.                                        *)
Reached(a) == stack.up /\ ask[a].era = stack.era

(* New File and the import of a zip write into the database.               *)
Call(a) ==
    /\ ask[a].pc = "call"
    /\ AskTo(a, "end")
    /\ \/ Reached(a) /\ landed' = [landed EXCEPT ![a] = stack.vault]
       \/ UNCHANGED landed
    /\ UNCHANGED <<sc, stack, flow, live, bridge, shown, prefs, open, tree, known,
                   raced, late>>

(* Export reads the file's bytes, asks where to put them, refuses the      *)
(* vault of its snapshot, and writes.                                      *)
Fetch(a) ==
    /\ ask[a].pc = "fetch"
    /\ \/ Reached(a) /\ AskTo(a, "pick")
       \/ AskTo(a, "end")
    /\ UNCHANGED <<sc, stack, flow, live, bridge, shown, prefs, open, tree, known,
                   landed, raced, late>>
SaveAs(a) ==
    /\ ask[a].pc = "pick"
    /\ AskTo(a, "end")
    /\ \/ UNCHANGED landed
       \/ \E d \in (Vaults \cup {Outside}) \ {ask[a].vault} :
             landed' = [landed EXCEPT ![a] = d]
    /\ UNCHANGED <<sc, stack, flow, live, bridge, shown, prefs, open, tree, known,
                   raced, late>>

-----------------------------------------------------------------------------
FlowStep(f) ==
    \/ Picked(f) \/ TakeDown(f) \/ BringUp(f)
    \/ Bind(f) \/ Bound(f) \/ Facts(f) \/ SetLive(f)

AskStep(a) ==
    \/ Answer(a) \/ Stage(a) \/ Swap(a) \/ Poll(a)
    \/ Call(a) \/ Fetch(a) \/ SaveAs(a)

Next ==
    \/ \E f \in Flows : Begin(f) \/ FlowStep(f)
    \/ Running \/ Publish
    \/ Press \/ Save \/ Forward \/ Sync
    \/ \E a \in Asks : Arrive(a) \/ AskStep(a)

(* Dialogs are answered, locks are fair, and tasks go on; nobody has to    *)
(* start anything.                                                         *)
Fairness ==
    /\ \A f \in 0 .. 4 : WF_vars(f \in Flows /\ FlowStep(f))
    /\ \A a \in 1 .. 4 : WF_vars(a \in Asks /\ AskStep(a))
    /\ WF_vars(Running)

Spec == Init /\ [][Next]_vars /\ Fairness

-----------------------------------------------------------------------------
(* The types of the variables.                                             *)
TypeOK ==
    /\ stack \in [up : BOOLEAN, gen : Nat, vault : Vaults, era : Nat,
                  paused : BOOLEAN, by : FlowKinds \cup {"boot"}]
    /\ flow \in [Flows -> [pc : FlowPcs, to : Vaults, got : Nat]]
    /\ live \in [vault : Vaults, era : Nat] \cup {None}
    /\ bridge \in [want : BOOLEAN, ctl : Nat, fwd : SUBSET (0 .. stack.gen)]
    /\ shown \in BOOLEAN /\ prefs \in BOOLEAN /\ raced \in BOOLEAN /\ late \in BOOLEAN
    /\ open \in [running : BOOLEAN, record : BOOLEAN]
    /\ ask \in [Asks -> [pc : AskPcs, vault : Vaults \cup {None}, era : Nat,
                         name : Nat, gen : Nat, calm : BOOLEAN, safe : BOOLEAN]]
    /\ tree \in [Vaults -> [Names -> {0} \cup Asks]]
    /\ known \in [Vaults -> SUBSET Names]
    /\ landed \in [Asks -> Vaults \cup {Outside, None}]

(* Whenever the boot or an Open Vault has replaced the stack, alone, and   *)
(* finished, the LiveVault slot names the vault that is open and the       *)
(* database that serves it, and the tray drives the daemon that runs.      *)
FactsFollow ==
    Settled => /\ live = [vault |-> stack.vault, era |-> stack.era]
               /\ bridge.ctl = stack.gen

(* A pause asked for in the tray, before boot, between two vaults or on a  *)
(* running daemon, holds on whatever daemon runs in the end, unless the    *)
(* preferences page has resumed it since.                                  *)
PauseSticks == Settled /\ bridge.want /\ ~late => stack.paused

(* A folder confirmed for import, whatever was switched under the dialog,  *)
(* lands in the open vault as long as the stack is not replaced once more  *)
(* after the answer; what goes over RPC lands in the open vault always;    *)
(* and an export never lands in the vault it was started in.               *)
Unmoved(a) == ask[a].gen = stack.gen
WritesPlaced ==
    [][\A a \in Asks : landed'[a] # landed[a] =>
          CASE sc.asks[a] = "dir" -> ask[a].safe /\ Unmoved(a) => landed'[a] = stack.vault
            [] sc.asks[a] = "export" ->
                  ask[a].safe /\ Unmoved(a) => landed'[a] # stack.vault
            [] OTHER -> landed'[a] = stack.vault]_vars

(* "An N5 switch mid-flow must never make this land in the vault that was  *)
(* active when the user clicked, only the one active when the copy         *)
(* actually happens" (offer_import): no switch is under way when the       *)
(* answer is given, and none comes between it and the copy.                *)
LandsInActive ==
    [][\A a \in Asks : landed'[a] # landed[a] /\ sc.asks[a] = "dir" =>
          (ask[a].calm /\ Unmoved(a) => landed'[a] = stack.vault)]_vars

(* Whatever was started ends: a flow waiting for the lock, an ask polling  *)
(* a vault whose daemon is paused, gone, or another vault's.               *)
AsksEnd ==
    []<>( /\ \A f \in Flows : flow[f].pc \in {"idle", "end"}
          /\ \A a \in Asks : ask[a].pc \in {"idle", "end"} )
=============================================================================
