------------------------------- MODULE Windows -------------------------------
(***************************************************************************)
(* One window per file: what the shell believes of its windows, against    *)
(* what is on the screen.                                                  *)
(*                                                                         *)
(* The WindowRegistry behind the Window menu, Export, Reveal and the reuse *)
(* of a window is filled and emptied from several threads: the tasks that  *)
(* open a file, the window events on the main thread, and the task that    *)
(* follows the daemon's status and retitles windows after a rename.  The   *)
(* menu bar is drawn from it by all of them.  A vault switch leaves every  *)
(* window where it is, and loads the home window anew.                     *)
(*                                                                         *)
(* Beside the shell of Desk, whose steps are steps of this module too.  A  *)
(* window's title and a file's name are numbers; a window remembers the    *)
(* era of the database its link was made for.                              *)
(***************************************************************************)
EXTENDS Desk

CONSTANT RecentLimit    \* how many recently opened files are kept

(* How a file comes to be opened: as a document, which is not recorded, by *)
(* the folder picker, from Open Recent, or as a file just created.         *)
OpenKinds == {"document", "folder", "recent", "new"}

(* A scenario also has the opens, and how often a window is closed or      *)
(* navigated, a file renamed, and a window clicked or another menu command *)
(* given.  Windows are looked at in the scenarios with opens only.         *)
Window == [title : Nat, era : Nat, page : {"home", "file", "view"}]
ASSUME WindowsAssumption ==
    /\ RecentLimit \in Nat \ {0}
    /\ None \notin Nat \cup Window
    /\ \A s \in Scenarios : /\ {"opens", "closes", "strays", "renames", "clicks"} \subseteq DOMAIN s
                            /\ s.opens \in Seq(OpenKinds)
                            /\ {s.closes, s.strays, s.renames, s.clicks} \subseteq Nat

VARIABLES
    screen,  \* the windows by label, each a Window or None
    reg,     \* the registry: titles by label
    key,     \* the key window's label
    bar,     \* what the menu bar on display was drawn from
    recent,  \* recent-files.json
    task,    \* the tasks that open, retitle, draw the menu and reload
    name,    \* the files' names in the manifests, 0 where there is none
    news,    \* changes of a daemon's status, and of the bridge's copy
    pop,     \* the palette and the Preferences window
    strays,  \* redirects under way: the label, and the era of its link
    left,    \* the budgets that are left
    odd      \* what the properties remember

wvars == <<screen, reg, key, bar, recent, task, name, news, pop, strays, left, odd>>
allvars == <<vars, wvars>>

(* Labels: a file's window is named after the file.                        *)
Home == <<None, 0>>
Files == Vaults \X {1, 2}
Labels == Files \cup {Home}

Jobs == {<<"job", j>> : j \in 1 .. Len(sc.opens)}
Tails == {<<"flow", f>> : f \in Flows}
Watch == <<"watch", 0>>
Tasks == Jobs \cup Tails \cup {Watch}
Kind(t) == sc.opens[t[2]]

Windowed == sc.opens # <<>>
Open(l) == screen[l] # None
Linked == live # None /\ live.era # 0
Listed == {l \in Labels : reg[l] # None}
Drawing(t) == task[t].pc \in {"draw", "set"}

-----------------------------------------------------------------------------
(* The menu bar: the commands that can be given.                           *)

Plain(c) == <<c, Home>>
AppSection == {Plain(c) : c \in {"AboutPanel", "Preferences", "Services", "Hide",
                                 "HideOthers", "ShowAll", "Quit"}}
FileSection(rec, keyHasFile) ==
    {Plain(c) : c \in {"NewFile", "NewProject", "OpenFile", "OpenVault", "Import"}}
      \cup {<<"OpenRecent", rec[i].file>> : i \in DOMAIN rec}
      \cup (IF keyHasFile THEN {Plain("Export"), Plain("RevealInFinder")} ELSE {})
EditSection == {Plain(c) : c \in {"Undo", "Redo", "Cut", "Copy", "Paste", "SelectAll"}}
ViewSection == {Plain(c) : c \in {"ShowHome", "ShowSearch", "ShowPalette",
                                  "ShowPackages", "ShowTemplates"}}
(* A row per window, with its title, and a mark on the key window's.       *)
WindowSection(titles, k) ==
    {<<"FocusWindow", l, titles[l], l = k>> : l \in {m \in Labels : titles[m] # None}}
      \cup {Plain(c) : c \in {"Minimize", "Zoom", "CloseWindow"}}
HelpSection == {Plain("About"), Plain("KnownLimits")}

(* The key window's record, if it is still registered.                     *)
KeyOf(titles, k) == IF k # None /\ titles[k] # None THEN k ELSE None
BuildMenuModel(titles, k, rec) ==
    AppSection \cup FileSection(rec, KeyOf(titles, k) \notin {None, Home})
      \cup EditSection \cup ViewSection \cup WindowSection(titles, KeyOf(titles, k))
      \cup HelpSection

(* What a menu is drawn from, and the menu.                                *)
Now == [reg |-> reg, key |-> key, recent |-> recent]
Menu(d) == BuildMenuModel(d.reg, d.key, d.recent)

(* dispatch: an id is looked up in a model made anew.                      *)
Clicked(c) == c \in Menu(bar) /\ c \in Menu(Now)

(* A draw on another thread that has read the registry is overtaken by     *)
(* what changes it.                                                        *)
Overtake(tasks) ==
    [t \in DOMAIN tasks |-> IF tasks[t].pc = "set" THEN [tasks[t] EXCEPT !.clean = FALSE]
                            ELSE tasks[t]]

-----------------------------------------------------------------------------
NoTask == [pc |-> "idle", file |-> Home, title |-> 0, era |-> 0, due |-> FALSE,
           gone |-> FALSE, clean |-> TRUE, snap |-> None, ups |-> {}]

WindowsInit ==
    /\ Init
    /\ screen = [l \in Labels |-> IF l = Home THEN [title |-> 0, era |-> 0, page |-> "home"]
                                  ELSE None]
    /\ reg = [l \in Labels |-> IF l = Home THEN 0 ELSE None]
    /\ key = Home /\ recent = <<>>
    /\ bar = Now
    /\ task = [t \in Tasks |-> NoTask]
    /\ name = [f \in Files |-> IF f[2] = 1 THEN 1 ELSE 0]
    /\ news = [daemon |-> {}, greeted |-> {}, tick |-> FALSE]
    /\ pop = [palette |-> "none", prefs |-> "none"]
    /\ strays = {}
    /\ left = [closes |-> sc.closes, strays |-> sc.strays, renames |-> sc.renames,
               clicks |-> sc.clicks]
    /\ odd = [ghosts |-> {}, behind |-> {}, mixed |-> {}, crossed |-> FALSE]

Step(t, pc) == task' = [task EXCEPT ![t].pc = pc]

-----------------------------------------------------------------------------
(* Opening a file.                                                         *)

(* A request for a file has a title, and is due when the shell is settled  *)
(* on the vault of the file: then a window has to come of it.              *)
Request(t, file, title) ==
    /\ task[t].pc = "idle"
    /\ task' = [task EXCEPT ![t].pc = "decide", ![t].file = file, ![t].title = title,
                            ![t].due = Settled /\ Linked]
Beforehand == <<vars, screen, reg, key, bar, recent, name, news, pop, strays, left, odd>>

(* By its path, on the command line, from a second launch, or dropped on a *)
(* window; before the boot has filled the slot the request is dropped.     *)
TooEarly(t) == live = None /\ task[t].pc = "idle" /\ Step(t, "end")
Known == {f \in Files : live # None /\ f[1] = live.vault /\ name[f] # 0}
ByDocument(t) ==
    /\ t \in Jobs /\ Kind(t) = "document"
    /\ \/ TooEarly(t)
       \/ \E f \in Known : Request(t, f, name[f])
    /\ UNCHANGED Beforehand
(* By File > Open.                                                         *)
ByFolder(t) ==
    /\ t \in Jobs /\ Kind(t) = "folder" /\ Clicked(Plain("OpenFile"))
    /\ \E f \in Known : Request(t, f, name[f])
    /\ UNCHANGED Beforehand
(* From the store of recent files, with the title that is there.           *)
ByRecent(t) ==
    /\ t \in Jobs /\ Kind(t) = "recent"
    /\ \E i \in DOMAIN recent : /\ Clicked(<<"OpenRecent", recent[i].file>>)
                                /\ Request(t, recent[i].file, recent[i].title)
    /\ UNCHANGED Beforehand
(* As a new file, which first has to be created.                           *)
ByNew(t) ==
    /\ t \in Jobs /\ Kind(t) = "new" /\ task[t].pc = "idle" /\ Clicked(Plain("NewFile"))
    /\ IF Linked THEN task' = [task EXCEPT ![t].pc = "call", ![t].era = live.era]
       ELSE Step(t, "end")
    /\ UNCHANGED Beforehand

(* create_file: the file has an id at once, and a place in the manifest    *)
(* when the daemon has exported it.                                        *)
Create(t) ==
    /\ task[t].pc = "call"
    /\ \/ Step(t, "end")
       \/ /\ stack.up /\ task[t].era = stack.era
          /\ task' = [task EXCEPT ![t].pc = "decide", ![t].file = <<stack.vault, 2>>,
                                  ![t].title = 1, ![t].due = Settled]
    /\ UNCHANGED <<vars, screen, reg, key, bar, recent, name, news, pop, strays, left, odd>>

(* reuse_or_create, and what it takes to build a window: a link to the     *)
(* team that the slot names now.                                           *)
Decide(t) ==
    /\ task[t].pc = "decide"
    /\ LET f == task[t].file
       IN  IF reg[f] # None
           THEN /\ task' = [Overtake(task) EXCEPT ![t].pc = "record"]
                /\ key' = IF Open(f) THEN f ELSE key
                /\ bar' = IF Open(f) THEN [Now EXCEPT !.key = f] ELSE bar
           ELSE /\ task' = [task EXCEPT ![t].pc = IF Linked THEN "build" ELSE "record",
                                        ![t].era = IF Linked THEN live.era ELSE 0,
                                        ![t].due = @ /\ Linked]
                /\ UNCHANGED <<key, bar>>
    /\ UNCHANGED <<vars, screen, reg, recent, name, news, pop, strays, left, odd>>

(* A second window of the same label cannot be built: an error, logged.    *)
Build(t) ==
    /\ task[t].pc = "build"
    /\ IF Open(task[t].file)
       THEN Step(t, IF Kind(t) = "new" THEN "record" ELSE "end") /\ UNCHANGED screen
       ELSE /\ Step(t, "insert")
            /\ screen' = [screen EXCEPT ![task[t].file] =
                             [title |-> task[t].title, era |-> task[t].era, page |-> "file"]]
    /\ UNCHANGED <<vars, reg, key, bar, recent, name, news, pop, strays, left, odd>>

(* The window is registered, as the key window, and its events are heard;  *)
(* a name that was read earlier, or came from the store, may be behind.    *)
Insert(t) ==
    /\ task[t].pc = "insert"
    /\ LET f == task[t].file
       IN  /\ task' = [Overtake(task) EXCEPT ![t].pc = "draw"]
           /\ reg' = [reg EXCEPT ![f] = task[t].title]
           /\ key' = f
           /\ odd' = [odd EXCEPT !.behind = IF name[f] \in {0, task[t].title} THEN @ \ {f}
                                           ELSE @ \cup {f}]
    /\ UNCHANGED <<vars, screen, bar, recent, name, news, pop, strays, left>>

(* rebuild on a thread of its own: the registry is read, then the menu is  *)
(* set, over whatever was set meanwhile.                                   *)
Draw(t) ==
    /\ task[t].pc = "draw"
    /\ task' = [task EXCEPT ![t].pc = "set", ![t].snap = Now, ![t].clean = TRUE]
    /\ UNCHANGED <<vars, screen, reg, key, bar, recent, name, news, pop, strays, left, odd>>
SetMenu(t) ==
    /\ task[t].pc = "set"
    /\ bar' = task[t].snap
    /\ odd' = [odd EXCEPT !.crossed = ~task[t].clean]
    /\ task' = [task EXCEPT ![t].snap = None,
                            ![t].pc = IF t \in Jobs THEN "record"
                                      ELSE IF t = Watch THEN "idle" ELSE "load"]
    /\ UNCHANGED <<vars, screen, reg, key, recent, name, news, pop, strays, left>>

(* record_open: to the front, and no more than the limit.  A file is there *)
(* once, so taking it out leaves what was before and what was behind it.   *)
Without(rec, f) ==
    IF \E i \in DOMAIN rec : rec[i].file = f
    THEN LET i == CHOOSE i \in DOMAIN rec : rec[i].file = f
         IN  SubSeq(rec, 1, i - 1) \o SubSeq(rec, i + 1, Len(rec))
    ELSE rec
RecordOpen(rec, f, title) ==
    LET all == <<[file |-> f, title |-> title]>> \o Without(rec, f)
    IN  IF Len(all) > RecentLimit THEN SubSeq(all, 1, RecentLimit) ELSE all
Record(t) ==
    /\ task[t].pc = "record"
    /\ Step(t, "end")
    /\ recent' = IF Kind(t) = "document" THEN recent
                 ELSE RecordOpen(recent, task[t].file, task[t].title)
    /\ UNCHANGED <<vars, screen, reg, key, bar, name, news, pop, strays, left, odd>>

-----------------------------------------------------------------------------
(* Window events, on the main thread.                                      *)

(* The handler is there once the window is registered.                     *)
Heard(l) == \A t \in Jobs : task[t].pc = "insert" => task[t].file # l

Click == left.clicks > 0 /\ left' = [left EXCEPT !.clicks = @ - 1]
Focus(l) ==
    /\ Click /\ Open(l) /\ Heard(l) /\ key # l
    /\ key' = l
    /\ bar' = [Now EXCEPT !.key = l]
    /\ task' = Overtake(task)
    /\ odd' = [odd EXCEPT !.crossed = FALSE]
    /\ UNCHANGED <<vars, screen, reg, recent, name, news, pop, strays>>

(* A window is closed; with the last one, hidden ones included, the        *)
(* application ends, which is not modelled.  One that is closed before it  *)
(* is registered leaves a ghost behind.                                    *)
(* Mutant: the handler forgets the key window only.                        *)
ForgetsKey(l) == IF key = l THEN [reg EXCEPT ![l] = None] ELSE reg
Forgets(l) == [reg EXCEPT ![l] = None]
Close(l) ==
    /\ Open(l) /\ left.closes > 0
    /\ pop # [palette |-> "none", prefs |-> "none"] \/ \E m \in Labels \ {l} : Open(m)
    /\ left' = [left EXCEPT !.closes = @ - 1]
    /\ screen' = [screen EXCEPT ![l] = None]
    /\ reg' = IF Heard(l) THEN Forgets(l) ELSE reg
    /\ key' = IF Heard(l) /\ key = l THEN None ELSE key
    /\ bar' = IF Heard(l) THEN [Now EXCEPT !.reg = reg', !.key = key'] ELSE bar
    /\ task' = [t \in Tasks |-> [Overtake(task)[t] EXCEPT !.gone = @ \/ task[t].file = l]]
    /\ odd' = [odd EXCEPT !.crossed = @ /\ ~Heard(l),
                          !.ghosts = IF Heard(l) THEN @ ELSE @ \cup {l},
                          !.mixed = IF Heard(l) THEN @ \ {l} ELSE @]
    /\ UNCHANGED <<vars, recent, name, news, pop, strays>>

(* decide: routes that are closed are cancelled; the window is sent back   *)
(* by a task, to its own page, or for the home window to Home.             *)
Closed == {"auth", "dashboard", "settings", "debug"}
Routes == Closed \cup {"file", "view"}
(* Mutant: every window recovers to Home.                                  *)
RecoveryHome(l) == "home"
RecoveryPage(l) == IF l = Home THEN "home" ELSE "file"
Navigate(l, route) ==
    /\ Open(l) /\ left.strays > 0
    /\ left' = [left EXCEPT !.strays = @ - 1]
    /\ IF route \in Closed
       THEN strays' = strays \cup {<<l, screen[l].era>>} /\ UNCHANGED screen
       ELSE screen' = [screen EXCEPT ![l].page = route] /\ UNCHANGED strays
    /\ UNCHANGED <<vars, reg, key, bar, recent, task, name, news, pop, odd>>
Recover(l) ==
    \E s \in strays :
       /\ s[1] = l
       /\ strays' = strays \ {s}
       /\ screen' = IF Open(l) THEN [screen EXCEPT ![l].page = RecoveryPage(l),
                                                   ![l].era = IF l = Home THEN @ ELSE s[2]]
                    ELSE screen
       /\ UNCHANGED <<vars, reg, key, bar, recent, task, name, news, pop, left, odd>>

-----------------------------------------------------------------------------
(* The daemon's status, and the task that retitles windows.                *)

(* A file of the open vault is renamed or moved, in Penpot or on disk; the *)
(* manifest is saved before the status changes.                            *)
Named(f, n) ==
    /\ name' = [name EXCEPT ![f] = n]
    /\ news' = [news EXCEPT !.daemon = @ \cup {stack.gen}]
Rename(f) ==
    /\ stack.up /\ ~stack.paused /\ f[1] = stack.vault /\ name[f] # 0 /\ left.renames > 0
    /\ left' = [left EXCEPT !.renames = @ - 1]
    /\ Named(f, name[f] + 1)
    /\ UNCHANGED <<vars, screen, reg, key, bar, recent, task, pop, strays, odd>>

(* A new file is exported, under its own name or the next free one.        *)
Export(t) ==
    /\ stack.up /\ ~stack.paused
    /\ task[t].file # Home /\ task[t].file[1] = stack.vault /\ name[task[t].file] = 0
    /\ \E n \in {1, 2} : Named(task[t].file, n)
    /\ UNCHANGED <<vars, screen, reg, key, bar, recent, task, pop, strays, left, odd>>

(* Windows whose title is not the file's name any more.                    *)
Stale(f) == reg[f] # None /\ name[f] \notin {0, reg[f]}

(* The watcher listens to the bridge from the end of the boot on.          *)
Watching == flow[0].pc = "end" /\ flow[0].got # 0
Told(g) == Windowed /\ (g \in news.daemon \/ g \notin news.greeted)

(* Mutant: a change that comes while the watcher works is not noted.       *)
MirrorBusy ==
    \E g \in bridge.fwd :
       /\ Told(g)
       /\ news' = [daemon |-> news.daemon \ {g}, greeted |-> news.greeted \cup {g},
                   tick |-> news.tick \/ (Watching /\ task[Watch].pc = "idle")]
       /\ odd' = [odd EXCEPT !.behind = IF Watching THEN @ ELSE @ \cup {f \in Files : Stale(f)}]
       /\ UNCHANGED <<vars, screen, reg, key, bar, recent, task, name, pop, strays, left>>

(* A forwarder hands the status of its daemon on, the first time at once;  *)
(* a change handed on before the watcher listens is not heard.             *)
Mirror ==
    \E g \in bridge.fwd :
       /\ Told(g)
       /\ news' = [daemon |-> news.daemon \ {g}, greeted |-> news.greeted \cup {g},
                   tick |-> Watching]
       /\ odd' = [odd EXCEPT !.behind = IF Watching THEN @ ELSE @ \cup {f \in Files : Stale(f)}]
       /\ UNCHANGED <<vars, screen, reg, key, bar, recent, task, name, pop, strays, left>>

(* The watcher wakes: it reads the manifest of the vault that the slot     *)
(* names, and the registry.  What is stale elsewhere stays so.             *)
Wake ==
    /\ task[Watch].pc = "idle" /\ news.tick
    /\ news' = [news EXCEPT !.tick = FALSE]
    /\ LET mine == {f \in Files : live # None /\ f[1] = live.vault}
           ups  == {<<f, name[f]>> : f \in {g \in mine : Stale(g)}}
       IN  /\ task' = [task EXCEPT ![Watch].pc = IF ups = {} THEN "idle" ELSE "retitle",
                                   ![Watch].ups = ups]
           /\ odd' = [odd EXCEPT !.behind = {f \in (Files \ mine) : f \in @ \/ Stale(f)}]
    /\ UNCHANGED <<vars, screen, reg, key, bar, recent, name, pop, strays, left>>

(* apply_title_updates: the windows that are there are retitled, and the   *)
(* entries of the registry, as it was just listed, put back with the new   *)
(* titles: a window closed after the list leaves a ghost behind, and one   *)
(* built anew but not yet registered mixes the new title with its own.     *)
NewTitle(ups, f) == (CHOOSE e \in ups : e[1] = f)[2]
Retitle ==
    /\ task[Watch].pc = "retitle"
    /\ LET ups == task[Watch].ups
           due == {e[1] : e \in ups}
       IN  /\ screen' = [l \in Labels |-> IF l \in due /\ Open(l)
                                          THEN [screen[l] EXCEPT !.title = NewTitle(ups, l)]
                                          ELSE screen[l]]
           /\ \E gone \in SUBSET (due \ Listed) :
                 LET put == (due \cap Listed) \cup gone
                 IN  /\ reg' = [l \in Labels |-> IF l \in put THEN NewTitle(ups, l)
                                                 ELSE reg[l]]
                     /\ odd' = [odd EXCEPT !.ghosts = @ \cup gone,
                                           !.mixed = @ \cup {f \in due \ Listed : Open(f)}]
    /\ task' = [Overtake(task) EXCEPT ![Watch].pc = "draw", ![Watch].ups = {}]
    /\ UNCHANGED <<vars, key, bar, recent, name, news, pop, strays, left>>

-----------------------------------------------------------------------------
(* The other menu commands, and the home window after a switch.            *)

HomeAt(era) ==
    IF Open(Home) THEN [screen EXCEPT ![Home].era = era, ![Home].page = "home"] ELSE screen
ServedEra == IF stack.up THEN stack.era ELSE 0

(* navigate_home: Home is brought forward and navigated, by the View menu, *)
(* or when a new project has been created.                                 *)
ProjectMade == Clicked(Plain("NewProject")) /\ stack.up /\ live.era = stack.era
NavigateHome ==
    /\ Click /\ live # None /\ Open(Home)
    /\ \/ \E c \in {"ShowHome", "ShowSearch", "ShowPackages", "ShowTemplates"} : Clicked(Plain(c))
       \/ ProjectMade
    /\ screen' = HomeAt(ServedEra)
    /\ key' = Home
    /\ bar' = [Now EXCEPT !.key = Home]
    /\ task' = Overtake(task)
    /\ odd' = [odd EXCEPT !.crossed = FALSE]
    /\ UNCHANGED <<vars, reg, recent, name, news, pop, strays>>

(* toggle_palette, open_preferences: neither window is registered.         *)
TogglePalette ==
    /\ Click /\ live # None /\ Clicked(Plain("ShowPalette"))
    /\ pop' = [pop EXCEPT !.palette = IF @ = "shown" THEN "hidden" ELSE "shown"]
    /\ UNCHANGED <<vars, screen, reg, key, bar, recent, task, name, news, strays, odd>>
OpenPreferences ==
    /\ Click /\ live # None /\ Clicked(Plain("Preferences"))
    /\ pop' = [pop EXCEPT !.prefs = "shown"]
    /\ UNCHANGED <<vars, screen, reg, key, bar, recent, task, name, news, strays, odd>>

(* Mutant: the key window is loaded anew.                                  *)
LoadKey(t) ==
    /\ task[t].pc = "load" /\ flow[t[2]].pc = "end"
    /\ Step(t, "end")
    /\ screen' = IF key # None /\ Open(key)
                 THEN [screen EXCEPT ![key].era = ServedEra, ![key].page = "home"] ELSE screen
    /\ UNCHANGED <<vars, reg, key, bar, recent, name, news, pop, strays, left, odd>>

(* After the facts, the boot and the callback draw the menu; at the very   *)
(* end they load the home window anew.                                     *)
Load(t) ==
    /\ task[t].pc = "load" /\ flow[t[2]].pc = "end"
    /\ Step(t, "end")
    /\ screen' = HomeAt(ServedEra)
    /\ UNCHANGED <<vars, reg, key, bar, recent, name, news, pop, strays, left, odd>>

-----------------------------------------------------------------------------
(* The shell's steps; the one that stores the facts goes on to the menu.   *)
Beside ==
    /\ task' = [t \in Tasks |->
                  IF Windowed /\ t \in Tails /\ flow[t[2]].pc = "live" /\ flow'[t[2]].pc # "live"
                  THEN [task[t] EXCEPT !.pc = "draw"] ELSE task[t]]
    /\ UNCHANGED <<screen, reg, key, bar, recent, name, news, pop, strays, left, odd>>

FlowSteps(f) ==
    \/ (Begin(f) /\ Beside)   \/ (Picked(f) /\ Beside)   \/ (TakeDown(f) /\ Beside)
    \/ (BringUp(f) /\ Beside) \/ (Bind(f) /\ Beside)     \/ (Bound(f) /\ Beside)
    \/ (Facts(f) /\ Beside)   \/ (SetLive(f) /\ Beside)
AskSteps(a) ==
    \/ (Arrive(a) /\ Beside) \/ (Answer(a) /\ Beside) \/ (Stage(a) /\ Beside)
    \/ (Swap(a) /\ Beside)   \/ (Poll(a) /\ Beside)   \/ (Call(a) /\ Beside)
    \/ (Fetch(a) /\ Beside)  \/ (SaveAs(a) /\ Beside)

WindowsNext ==
    \/ \E f \in Flows : FlowSteps(f)
    \/ \E a \in Asks : AskSteps(a)
    \/ (Running /\ Beside) \/ (Publish /\ Beside) \/ (Press /\ Beside)
    \/ (Save /\ Beside)    \/ (Forward /\ Beside) \/ (Sync /\ Beside)
    \/ \E t \in Jobs : \/ ByDocument(t) \/ ByFolder(t) \/ ByRecent(t) \/ ByNew(t)
                       \/ Create(t) \/ Decide(t) \/ Build(t) \/ Insert(t)
                       \/ Record(t) \/ Export(t)
    \/ \E t \in Tasks : Draw(t) \/ SetMenu(t)
    \/ \E t \in Tails : Load(t)
    \/ \E l \in Labels : \/ Focus(l) \/ Close(l) \/ Recover(l)
                         \/ \E r \in Routes : Navigate(l, r)
    \/ \E f \in Files : Rename(f)
    \/ Mirror \/ Wake \/ Retitle \/ NavigateHome \/ TogglePalette \/ OpenPreferences

(* The fairness is the shell's.                                            *)
WindowsSpec ==
    /\ WindowsInit /\ [][WindowsNext]_allvars
    /\ \A f \in 0 .. 4 : WF_allvars(f \in Flows /\ FlowStep(f) /\ Beside)
    /\ \A a \in 1 .. 4 : WF_allvars(a \in Asks /\ AskStep(a) /\ Beside)
    /\ WF_allvars(Running /\ Beside)

-----------------------------------------------------------------------------
(* The registry holds the windows that are on the screen, unless one was   *)
(* closed in the middle of being registered or retitled; the key window is *)
(* one of them; no file's window has ended up on Home.                     *)
RegistryTells ==
    /\ \A l \in Labels \ odd.ghosts : Open(l) /\ Heard(l) <=> reg[l] # None
    /\ key \in {None} \cup Listed
    /\ \A f \in Files : Open(f) => screen[f].page # "home"

(* A request for a file of the open vault has put its window on screen.    *)
RequestsOpen ==
    \A t \in Jobs : task[t].pc = "end" /\ task[t].due /\ ~task[t].gone =>
        Open(task[t].file) \/ task[t].file \in odd.ghosts

(* When no draw is under way the menu shows the registry, unless the last  *)
(* draw had been overtaken.                                                *)
MenuTells ==
    (\A t \in Tasks : ~Drawing(t)) /\ ~odd.crossed => bar.reg = reg /\ bar.key = key

(* A rename, wherever it was made and whatever was switched before it,     *)
(* reaches the title of the window and of its row, unless the window was   *)
(* opened with a name that was old already, or closed in the middle of     *)
(* that, or opened anew in the middle of it, or the news of it came while  *)
(* the slot still named another vault.                                     *)
TitlesFollow ==
    Settled /\ ~news.tick /\ task[Watch].pc = "idle" /\ Watching
      /\ bridge.fwd \subseteq news.greeted \ news.daemon =>
        \A f \in Files \ (odd.behind \cup odd.ghosts \cup odd.mixed) :
            f[1] = stack.vault /\ reg[f] # None /\ name[f] # 0 =>
                /\ reg[f] = name[f]
                /\ Open(f) => screen[f].title = name[f]

(* After a boot or an Open Vault, the home window shows the new database.  *)
HomeFollows ==
    Settled /\ (\A t \in Tails : task[t].pc \in {"idle", "end"}) /\ Open(Home) =>
        screen[Home].era \in {stack.era} \cup (IF live = None THEN {0} ELSE {})

(* What the shell believes of its windows is what is on the screen.        *)
WindowsTold ==
    Windowed => RegistryTells /\ RequestsOpen /\ MenuTells /\ TitlesFollow /\ HomeFollows

(* A file that was asked for and is not closed since has a window.         *)
AlwaysOpened ==
    \A t \in Jobs : task[t].pc = "end" /\ task[t].due /\ ~task[t].gone => Open(task[t].file)

(* A window that was opened shows a file of the database that runs.        *)
LinksLive ==
    \A t \in Jobs :
        task[t].pc = "end" /\ task[t].due /\ ~task[t].gone /\ Settled /\ Open(task[t].file) =>
            screen[task[t].file].era = stack.era
=============================================================================
