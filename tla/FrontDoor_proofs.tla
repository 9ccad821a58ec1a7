-------------------------- MODULE FrontDoor_proofs --------------------------
(***************************************************************************)
(* The front door, for any number of starts, restarts and saves and any    *)
(* budget of kills and faults:                                             *)
(*                                                                         *)
(*   Served       what the proxy serves of a file is what RFC 9110 asks    *)
(*   AssetsRight  ... also when the stack is taken down meanwhile          *)
(*   KeyHeld      a stack that is up holds a valid token; one login        *)
(*   BootsOpen    what a boot may fail of                                  *)
(*   Told         what the page says of a restart                          *)
(*   Wishes       what was wished is on disk and in the stack              *)
(*                                                                         *)
(* The argument is one invariant.  Where nobody listens nothing is in      *)
(* flight (Listening), since the proxy drains what it let in before the    *)
(* children stop; so a wiped database or storage meets no request.  The    *)
(* rest says, place by place of the boot, what it holds: whose password,   *)
(* which token, which preferences, and for which operation it runs.        *)
(***************************************************************************)
EXTENDS FrontDoor, FiniteSetTheorems, TLAPS

Bound == Nat \cup {Missing}
AnyHeader == [form : {"none", "odd", "interval"}, from : Bound, to : Bound]

-----------------------------------------------------------------------------
(* The parts of the inductive invariant. *)

\* Where the process has a stack, and that nobody is in flight without one.
Listening ==
  /\ Serving => boot.pc \in {"install", "up", "drain"}
  /\ boot.pc \in {"install", "up"} => Serving
  /\ ~Serving => ~InFlight

\* The storage holds the asset or nothing, and a request finds it; a request
\* that is done was answered right.
Stored ==
  /\ db.asset \in {None, sc.len}
  /\ get.pc \in {"forward", "open"} => stack # None /\ db.asset = sc.len
  /\ AssetRight

\* The boot's password is the one on disk and, once there, the user's.
Passwords ==
  /\ disk.creds \notin {NoCreds, Torn} /\ db.user # None => disk.creds.pw = db.user
  /\ boot.pc \in {"login", "register", "relogin", "mint", "profile", "persist"}
       => disk.creds # Torn /\ (disk.creds # NoCreds => disk.creds.pw = boot.creds.pw)
  /\ boot.pc \in {"relogin", "mint", "profile", "persist"} => db.user = boot.creds.pw

\* The tokens of the boot and of the stack, where they have one.
Tokens ==
  /\ boot.pc \in {"profile", "persist", "bind"} => Valid(boot.creds.tok, boot.key)
  /\ boot.pc \in Provisioning \ {"read"} => boot.key \in Nat
  /\ Serving => Valid(stack.tok, stack.key)

\* One webview is let in, and nobody while one is asking.
OneLogin ==
  /\ hist.sessions \in {0, 1}
  /\ hist.sessions = 1 /\ Serving => stack.used
  /\ \A l \in Logins : login[l] = "asking" =>
       /\ hist.sessions = 0 /\ stack.used
       /\ \A m \in Logins \ {l} : login[m] # "asking"

\* Who will be refused: a fault hit the login, or the password is unknown.
Refusals ==
  /\ boot.pc = "login" /\ db.user \notin {None, boot.creds.pw} => hist.locked
  /\ boot.pc = "register" /\ db.user # None => hist.hit \/ hist.locked

\* The operation the boot runs for.
Running ==
  /\ boot.pc # "off" /\ boot.by # 0 => op[boot.by].pc = "run"
  /\ boot.pc \in {"up", "failed"} => boot.by = 0
  /\ boot.pc = "drain" => boot.by # 0
  /\ hist.clicked <= hist.reads

\* The page's restart while nobody else's outcome can get in between.
Mine(o) ==
  /\ sc.ops[o] = "reboot"
  /\ \A q \in Ops \ {o} : Recorded(sc.ops[q]) => op[q].pc \in {"idle", "end"}
  /\ op[o].pc \in {"record", "end"} /\ op[o].ok => hist.clicked < hist.reads
  /\ boot.by = o /\ boot.pc \notin {"off", "drain", "read"} => hist.clicked < hist.reads
  /\ page.wait => \/ disk.op.seq = page.base
                  \/ op[o].pc = "end" /\ disk.op.kind = "reboot" /\ disk.op.ok = op[o].ok
Outcomes ==
  hist.alone => OutcomeTold /\ \E o \in Ops : Mine(o)

\* One change at a time, and what it leads to is what was wished.
Wished ==
  ~hist.muddled =>
    /\ ~Changing => disk.prefs = hist.wish
    /\ cli.pc = "got" => cli.got = disk.prefs /\ disk.prefs = hist.wish
    /\ \A i \in Saves :
         /\ Pending(i) => /\ cli.pc = "idle" /\ \A j \in Saves \ {i} : ~Pending(j)
                          /\ save[i].body = hist.wish
         /\ Accepted(i) => disk.prefs = hist.wish

\* The boot's preferences are the saved ones, and the stack's as far as the
\* saves under way have not got to it yet.
Unheard(pcs) == \E i \in Saves : save[i].pc \in pcs
Matched ==
  /\ boot.pc \in Provisioning \ {"read"} => boot.prefs = disk.prefs
  /\ boot.pc = "install" /\ ~hist.muddled => \A i \in Saves : ~Accepted(i)
  /\ boot.pc \in {"install", "up"} /\ ~hist.muddled =>
       /\ stack.paused = ~disk.prefs.sync \/ Unheard({"sync"})
       /\ (stack.renders => disk.prefs.exports) \/ Unheard({"sync", "renders"})
       /\ hist.owed \/ /\ \/ stack.renders = RendersAtBoot(disk.prefs)
                          \/ Unheard({"sync", "renders"}) /\ ~disk.prefs.exports
                       /\ stack.flags = FrontendFlags(disk.prefs.plugins)
                       /\ stack.csp = ResolveCsp(sc.csp, disk.prefs.csp)

IInv ==
  /\ TypeOK /\ Listening /\ Stored /\ Passwords /\ Tokens /\ OneLogin
  /\ Refusals /\ Running /\ Outcomes /\ Wished /\ Matched

-----------------------------------------------------------------------------
(* The proxy's answers, for a file of any length and any Range header. *)

(* What parse_range says, by the cases of the header.                      *)
LEMMA WholeFile ==
    ASSUME NEW len \in Nat, NEW h \in AnyHeader, Ignored(h)
    PROVE  ParseRange(h, len) = Full
BY SMTT(30) DEF Ignored, ParseRange, Closed, Full, AnyHeader, Bound, Missing

(* A usable header selects an interval of the file, and parse_range gives  *)
(* its ends, or says that it is empty.                                     *)
LEMMA Interval ==
    ASSUME NEW len \in Nat, NEW h \in AnyHeader, ~Ignored(h)
    PROVE  \/ ParseRange(h, len) = Unsatisfiable /\ Selected(h, len) = {}
           \/ \E a, b \in 0 .. (len - 1) :
                /\ a <= b
                /\ ParseRange(h, len) = Partial(a, b)
                /\ Selected(h, len) = a .. b
<1> USE DEF AnyHeader, Bound, Missing
<1>1. h.form = "interval" /\ h.from \in Bound /\ h.to \in Bound
  BY DEF Ignored
<1>2. CASE h.from = Missing /\ h.to # Missing
  <2>1. ParseRange(h, len) = Suffix(h.to, len)
    BY <1>1, <1>2 DEF ParseRange
  <2>2. Selected(h, len) = {b \in 0 .. (len - 1) : b + h.to >= len}
    BY <1>1, <1>2 DEF Selected
  <2>3. CASE h.to = 0 \/ len = 0
    BY <1>1, <1>2, <2>1, <2>2, <2>3 DEF Suffix
  <2>4. CASE h.to # 0 /\ len # 0
    <3> DEFINE a == IF h.to >= len THEN 0 ELSE len - h.to
    <3>1. ParseRange(h, len) = Partial(a, len - 1)
      BY <2>1, <2>4 DEF Suffix
    <3>2. a \in 0 .. (len - 1) /\ len - 1 \in 0 .. (len - 1)
      BY <1>1, <1>2, <2>4
    <3>3. Selected(h, len) = a .. (len - 1)
      BY <1>1, <1>2, <2>2, <2>4
    <3> QED
      BY <3>1, <3>2, <3>3
  <2> QED
    BY <2>3, <2>4
<1>3. CASE h.from # Missing /\ h.to = Missing
  <2>1. ParseRange(h, len) = OpenEnded(h.from, len)
    BY <1>1, <1>3 DEF ParseRange
  <2>2. Selected(h, len) = {b \in 0 .. (len - 1) : b >= h.from}
    BY <1>1, <1>3 DEF Selected
  <2>3. CASE h.from >= len
    BY <1>1, <1>3, <2>1, <2>2, <2>3 DEF OpenEnded
  <2>4. CASE h.from < len
    <3>1. ParseRange(h, len) = Partial(h.from, len - 1)
      BY <1>1, <1>3, <2>1, <2>4 DEF OpenEnded
    <3>2. Selected(h, len) = h.from .. (len - 1)
      BY <1>1, <1>3, <2>2, <2>4
    <3> QED
      BY <1>1, <1>3, <2>4, <3>1, <3>2
  <2> QED
    BY <1>1, <1>3, <2>3, <2>4
<1>4. CASE h.from # Missing /\ h.to # Missing
  <2>1. h.from \in Nat /\ h.to \in Nat /\ h.from <= h.to
    BY <1>1, <1>4 DEF Ignored
  <2>2. ParseRange(h, len) = Closed(h.from, h.to, len)
    BY <1>1, <1>4 DEF ParseRange
  <2>3. Selected(h, len) = {b \in 0 .. (len - 1) : b >= h.from /\ b <= h.to}
    BY <1>1, <1>4, <2>1 DEF Selected
  <2>4. CASE h.from >= len
    BY <2>1, <2>2, <2>3, <2>4 DEF Closed
  <2>5. CASE h.from < len
    <3> DEFINE b == LeastOf(h.to, len - 1)
    <3>1. ParseRange(h, len) = Partial(h.from, b)
      BY <2>1, <2>2, <2>5 DEF Closed
    <3>2. h.from <= b /\ b \in 0 .. (len - 1) /\ h.from \in 0 .. (len - 1)
      BY <2>1, <2>5 DEF LeastOf
    <3>3. Selected(h, len) = h.from .. b
      BY <2>1, <2>3, <2>5 DEF LeastOf
    <3> QED
      BY <3>1, <3>2, <3>3
  <2> QED
    BY <2>1, <2>4, <2>5
<1> QED
  BY <1>1, <1>2, <1>3, <1>4 DEF Ignored

(* The status, the declared length and the bytes, for GET and for HEAD.    *)
THEOREM Served ==
    ASSUME NEW len \in Nat, NEW h \in AnyHeader, NEW head \in BOOLEAN
    PROVE  ServeStorageFile(len, h, head) = Asked(len, h, head)
<1>1. CASE Ignored(h)
  <2>1. ParseRange(h, len) = Full
    BY <1>1, WholeFile
  <2>2. Selected(h, len) = 0 .. (len - 1)
    BY <1>1 DEF Selected
  <2>3. Cardinality(0 .. (len - 1)) = len
    BY FS_Interval
  <2>4. Full.kind # "partial" /\ Full # Unsatisfiable
    BY DEF Full, Unsatisfiable
  <2>5. 0 .. (0 + len - 1) = 0 .. (len - 1)
    OBVIOUS
  <2>6. ServeStorageFile(len, h, head) =
          [status |-> 200, length |-> len, bytes |-> IF head THEN {} ELSE 0 .. (len - 1)]
    BY <2>1, <2>4, <2>5 DEF ServeStorageFile
  <2>7. Asked(len, h, head) =
          [status |-> 200, length |-> len, bytes |-> IF head THEN {} ELSE 0 .. (len - 1)]
    BY <1>1, <2>2, <2>3 DEF Asked
  <2> QED
    BY <2>6, <2>7
<1>2. CASE ~Ignored(h) /\ ParseRange(h, len) = Unsatisfiable
  <2>1. Selected(h, len) = {}
    <3>1. ASSUME NEW a, NEW b, ParseRange(h, len) = Partial(a, b)
          PROVE  FALSE
      <4>1. Partial(a, b).kind = "partial" /\ Unsatisfiable.kind = "unsatisfiable"
        BY DEF Partial, Unsatisfiable
      <4> QED
        BY <1>2, <3>1, <4>1
    <3> QED
      BY <1>2, <3>1, Interval
  <2> QED
    BY <1>2, <2>1 DEF ServeStorageFile, Asked
<1>3. CASE ~Ignored(h) /\ ParseRange(h, len) # Unsatisfiable
  <2>1. PICK a, b \in 0 .. (len - 1) :
            /\ a <= b
            /\ ParseRange(h, len) = Partial(a, b)
            /\ Selected(h, len) = a .. b
    BY <1>3, Interval
  <2>2. Cardinality(a .. b) = b - a + 1
    BY <2>1, FS_Interval
  <2>3. a .. b # {}
    BY <2>1
  <2>4. /\ Partial(a, b).kind = "partial"
        /\ Partial(a, b).from = a
        /\ Partial(a, b).to = b
        /\ Full.kind = "full"
    BY DEF Partial, Full
  <2>5. Partial(a, b) # Full
    BY <2>4
  <2>6. a .. (a + (b - a + 1) - 1) = a .. b
    BY <2>1
  <2>7. ServeStorageFile(len, h, head) =
          [status |-> 206, length |-> b - a + 1, bytes |-> IF head THEN {} ELSE a .. b]
    BY <1>3, <2>1, <2>4, <2>5, <2>6 DEF ServeStorageFile
  <2>8. Asked(len, h, head) =
          [status |-> 206, length |-> b - a + 1, bytes |-> IF head THEN {} ELSE a .. b]
    BY <1>3, <2>1, <2>2, <2>3 DEF Asked
  <2> QED
    BY <2>7, <2>8
<1> QED
  BY <1>1, <1>2, <1>3

\* An answer has a status, a length and some bytes of the file.
LEMMA AnswerType ==
  ASSUME NEW len \in Nat, NEW h \in AnyHeader, NEW head \in BOOLEAN
  PROVE  ServeStorageFile(len, h, head) \in [status : {200, 206, 416}, length : Nat, bytes : SUBSET Nat]
<1> DEFINE s == Selected(h, len)
<1>1. s \subseteq 0 .. (len - 1)
  BY DEF Selected
<1>2. s \subseteq Nat /\ Cardinality(s) \in Nat
  <2>1. IsFiniteSet(0 .. (len - 1))
    BY FS_Interval
  <2>2. IsFiniteSet(s)
    BY <1>1, <2>1, FS_Subset
  <2>3. Cardinality(s) \in Nat
    BY <2>2, FS_CardinalityType
  <2> QED
    BY <1>1, <2>3
<1> HIDE DEF s
<1>3. Asked(len, h, head) \in [status : {200, 206, 416}, length : Nat, bytes : SUBSET Nat]
  BY <1>2 DEF Asked, s
<1> QED
  BY <1>3, Served

-----------------------------------------------------------------------------
(* Groups of actions, and what each leaves alone. *)

Climb == \/ Services \/ StoredToken \/ Login \/ Register \/ Relogin \/ Mint
         \/ GetProfile \/ Persist
Failing == BootFault \/ CredsTorn \/ RegisterRefused
Restarting(o) == AskReboot(o) \/ AskElsewhere(o) \/ TakeDown(o) \/ Unusable(o) \/ Record(o)
Saving(i) == \/ Click(i) \/ SetPosts(i) \/ Refused(i) \/ PostPrefs(i)
             \/ SaveFails(i) \/ ApplySync(i) \/ ApplyRenders(i) \/ Answer(i)
Polling == PollLive \/ Load \/ Await \/ GiveUp
Fetching == AskAsset \/ Forward \/ ServeAsset

LEMMA Steps ==
  Next <=> \/ Launch \/ Read \/ Climb \/ Failing \/ Bind \/ Install \/ Publish \/ Drained
           \/ Crash \/ LoseSecret
           \/ \E o \in Ops : Restarting(o)
           \/ \E i \in Saves : Saving(i)
           \/ SetReads \/ Polling
           \/ \E l \in Logins : Bootstrap(l) \/ LoggedIn(l)
           \/ Fetching
BY DEF Next, Booting, Climb, Failing, Restarting, Saving, Polling, Fetching

\* A step of provisioning: the files but the credentials, what was read of
\* them, and everything that runs stay.
LEMMA ClimbFrame ==
  ASSUME TypeOK, Climb
  PROVE  /\ UNCHANGED <<stack, login, save, page, cli, op, get>>
         /\ {boot.pc, boot'.pc} \subseteq Provisioning \ {"read"}
         /\ boot'.by = boot.by /\ boot'.life = boot.life /\ boot'.runner = boot.runner
         /\ boot'.prefs = boot.prefs /\ boot'.key = boot.key
         /\ disk'.secret = disk.secret /\ disk'.prefs = disk.prefs /\ disk'.op = disk.op
         /\ disk'.record = disk.record /\ disk'.marker = disk.marker
         /\ db'.asset = db.asset /\ db.keys \subseteq db'.keys
         /\ hist'.sessions = hist.sessions /\ hist'.muddled = hist.muddled
         /\ hist'.wish = hist.wish /\ hist'.reads = hist.reads /\ hist'.clicked = hist.clicked
         /\ hist'.alone = hist.alone /\ hist'.owed = hist.owed /\ hist'.failures = hist.failures
<1> USE DEF TypeOK, BootTo, Provisioning
<1>1. CASE Services \/ Relogin \/ GetProfile
  BY <1>1 DEF Services, Relogin, GetProfile
<1>2. CASE StoredToken
  BY <1>2 DEF StoredToken
<1>3. CASE Login
  BY <1>3 DEF Login
<1>4. CASE Register
  BY <1>4 DEF Register
<1>5. CASE Mint
  BY <1>5 DEF Mint
<1>6. CASE Persist
  BY <1>6 DEF Persist
<1> QED
  BY <1>1, <1>2, <1>3, <1>4, <1>5, <1>6 DEF Climb

\* A boot that ends in an error.
LEMMA FailingFrame ==
  ASSUME TypeOK, Failing
  PROVE  /\ UNCHANGED <<db, login, save, page, cli, get>> /\ stack' = None
         /\ boot.pc \in Provisioning /\ boot'.life = boot.life /\ boot'.runner = boot.runner
         /\ boot'.by = 0 /\ boot'.prefs = boot.prefs /\ boot'.key = boot.key /\ boot'.creds = boot.creds
         /\ boot'.pc = IF boot.by = 0 THEN "off" ELSE "failed"
         /\ op' = IF boot.by = 0 THEN op
                  ELSE [op EXCEPT ![boot.by] = [pc |-> "record", ok |-> FALSE]]
         /\ disk' = disk \/ disk' = [disk EXCEPT !.creds = Torn]
         /\ hist' \in {[hist EXCEPT !.failures = @ + 1], [hist EXCEPT !.hit = TRUE, !.failures = @ + 1]}
<1> USE DEF TypeOK, Fails, Provisioning
<1>1. CASE BootFault
  BY <1>1 DEF BootFault
<1>2. CASE CredsTorn
  BY <1>2 DEF CredsTorn
<1>3. CASE RegisterRefused
  BY <1>3 DEF RegisterRefused
<1> QED
  BY <1>1, <1>2, <1>3 DEF Failing

\* Everything but the boot's own steps and a kill leaves the process alone.
Outside == \/ LoseSecret \/ (\E o \in Ops : Restarting(o) /\ ~TakeDown(o)) \/ (\E i \in Saves : Saving(i))
           \/ SetReads \/ Polling \/ (\E l \in Logins : Bootstrap(l) \/ LoggedIn(l)) \/ Fetching \/ Publish
LEMMA OutsideFrame ==
  ASSUME Outside
  PROVE  UNCHANGED <<db, boot>>
<1>1. CASE \E o \in Ops : Restarting(o) /\ ~TakeDown(o)
  BY <1>1 DEF Restarting, AskReboot, AskElsewhere, Unusable, Record
<1>2. CASE \E i \in Saves : Saving(i)
  BY <1>2 DEF Saving, Click, SetPosts, Refused, PostPrefs, SaveFails, ApplySync, ApplyRenders, Answer
<1>3. CASE LoseSecret \/ SetReads \/ Polling \/ (\E l \in Logins : Bootstrap(l) \/ LoggedIn(l)) \/ Fetching \/ Publish
  BY <1>3 DEF LoseSecret, SetReads, Polling, PollLive, Load, Await, GiveUp, Bootstrap, LoggedIn, Fetching,
    AskAsset, Forward, ServeAsset, Publish
<1> QED
  BY <1>1, <1>2, <1>3 DEF Outside

LEMMA Sides ==
  Next <=> \/ Launch \/ Read \/ Climb \/ Failing \/ Bind \/ Install \/ Drained \/ Crash
           \/ (\E o \in Ops : TakeDown(o)) \/ Outside
BY Steps DEF Restarting, Outside

-----------------------------------------------------------------------------
(* The types. *)

ScOK == sc \in Scenario
DiskOK ==
  disk \in [secret : Nat \cup {None, Torn}, creds : Creds \cup {Torn}, prefs : Prefs,
            op : [seq : Nat, kind : OpKinds \cup {"none"}, ok : BOOLEAN],
            record : 0 .. Lives, marker : BOOLEAN]
DbOK == db \in [user : Nat \cup {None}, keys : SUBSET (Nat \X Nat), asset : Nat \cup {None}]
BootOK ==
  boot \in [pc : BootPcs, by : {0} \cup Ops, life : 0 .. Lives, runner : BOOLEAN,
            prefs : Prefs, key : Nat \cup {None}, creds : Creds]
StackOK == stack \in Stack \cup {None}
LoginOK == login \in [Logins -> {"idle", "asking", "home", "refused"}]
SaveOK ==
  save \in [Saves -> [pc : {"idle", "sent", "sync", "renders", "answer"},
                      body : Prefs, needs : BOOLEAN, by : {"page", "cli"}]]
PageOK ==
  page \in [form : Prefs, last : Nat, wait : BOOLEAN, base : Nat, banner : BOOLEAN,
            told : {"none", "applied", "failed", "other", "waiting"}]
CliOK == cli \in [pc : {"idle", "got"}, got : Prefs]
OpOK == op \in [Ops -> [pc : {"idle", "lock", "run", "record", "end"}, ok : BOOLEAN]]
GetOK ==
  get \in [pc : {"idle", "forward", "open", "done"},
           range : [form : {"none", "odd", "interval"}, from : Nat \cup {Missing}, to : Nat \cup {Missing}],
           head : BOOLEAN, status : {0, 200, 206, 404, 416, 502},
           answer : [status : {200, 206, 416}, length : Nat, bytes : SUBSET Nat] \cup {None}]
HistOK ==
  hist \in [coin : Nat, reads : Nat, hit : BOOLEAN, locked : BOOLEAN, failures : Nat,
            sessions : Nat, wish : Prefs, owed : BOOLEAN, muddled : BOOLEAN,
            clicked : Nat, alone : BOOLEAN]

LEMMA TypeParts ==
  TypeOK <=> /\ ScOK /\ DiskOK /\ DbOK /\ BootOK /\ StackOK /\ LoginOK
             /\ SaveOK /\ PageOK /\ CliOK /\ OpOK /\ GetOK /\ HistOK
BY DEF TypeOK, ScOK, DiskOK, DbOK, BootOK, StackOK, LoginOK, SaveOK, PageOK, CliOK, OpOK, GetOK, HistOK
\* The budgets count down, and the rest of a scenario stays.
Budgets == {"crash", "fail", "lose", "clicks", "sets", "logins"}
Spends(b) == sc[b] > 0 /\ sc' = [sc EXCEPT ![b] = @ - 1]

LEMMA ScMoves ==
  ASSUME Next
  PROVE  sc' = sc \/ \E b \in Budgets : Spends(b)
<1> USE DEF Spends, Budgets
<1>1. CASE Climb
  BY <1>1 DEF Climb, Services, StoredToken, Login, Register, Relogin, Mint, GetProfile, Persist
<1>2. CASE Failing
  BY <1>2 DEF Failing, BootFault, CredsTorn, RegisterRefused
<1>3. CASE Launch \/ Read \/ Bind \/ Install \/ Publish \/ Drained
  BY <1>3 DEF Launch, Read, Bind, Install, Publish, Drained
<1>4. CASE Crash \/ LoseSecret
  BY <1>4 DEF Crash, LoseSecret
<1>5. CASE \E o \in Ops : Restarting(o)
  BY <1>5 DEF Restarting, AskReboot, AskElsewhere, TakeDown, Unusable, Record
<1>6. CASE \E i \in Saves : Saving(i)
  BY <1>6 DEF Saving, Click, SetPosts, Refused, PostPrefs, SaveFails, ApplySync, ApplyRenders, Answer
<1>7. CASE SetReads \/ Polling \/ Fetching
  BY <1>7 DEF SetReads, Polling, PollLive, Load, Await, GiveUp, Fetching, AskAsset, Forward, ServeAsset
<1>8. CASE \E l \in Logins : Bootstrap(l) \/ LoggedIn(l)
  BY <1>8 DEF Bootstrap, LoggedIn
<1> QED
  BY <1>1, <1>2, <1>3, <1>4, <1>5, <1>6, <1>7, <1>8, Steps

LEMMA Static ==
  ASSUME ScOK, [Next]_vars
  PROVE  /\ ScOK'
         /\ sc'.ops = sc.ops /\ sc'.fields = sc.fields /\ sc'.exporter = sc.exporter
         /\ sc'.csp = sc.csp /\ sc'.len = sc.len /\ sc'.bound = sc.bound
         /\ Ops' = Ops
<1>1. sc' = sc \/ \E b \in Budgets : Spends(b)
  BY ScMoves DEF vars
<1>2. ASSUME NEW b \in Budgets, Spends(b)
      PROVE  /\ ScOK' /\ sc'.ops = sc.ops /\ sc'.fields = sc.fields /\ sc'.exporter = sc.exporter
             /\ sc'.csp = sc.csp /\ sc'.len = sc.len /\ sc'.bound = sc.bound
  BY <1>2 DEF Spends, Budgets, ScOK, Scenario
<1> QED
  BY <1>1, <1>2 DEF Ops, ScOK

LEMMA Constants ==
  /\ Missing \notin Nat /\ None \notin Nat /\ None \notin Stack /\ None # Torn
  /\ Torn \notin Nat /\ Torn \notin Creds /\ NoCreds \in Creds /\ Defaults \in Prefs /\ Empty.asset = None
BY FrontDoorAssumption DEF Missing, NoCreds, Creds, Defaults, Prefs, Empty

LEMMA InitIInv ==
  ASSUME Init
  PROVE  IInv
<1> USE Constants
<1>1. ScOK
  BY FrontDoorAssumption DEF Init, ScOK
<1>2. DiskOK
  BY FrontDoorAssumption DEF Init, DiskOK
<1>3. DbOK
  BY <1>1 DEF Init, DbOK, ScOK, Scenario
<1>4. BootOK
  BY FrontDoorAssumption DEF Init, BootOK, BootPcs
<1>5. StackOK /\ LoginOK
  BY DEF Init, StackOK, LoginOK
<1>6. SaveOK /\ CliOK
  BY DEF Init, SaveOK, CliOK, NoSave
<1>7. PageOK
  BY DEF Init, PageOK
<1>8. OpOK
  BY DEF Init, OpOK, Ops
<1>9. GetOK
  BY DEF Init, GetOK, NoRange
<1>10. HistOK
  BY DEF Init, HistOK
<1>11. TypeOK
  BY <1>1, <1>2, <1>3, <1>4, <1>5, <1>6, <1>7, <1>8, <1>9, <1>10, TypeParts
<1>12. /\ boot.pc = "off" /\ boot.by = 0 /\ stack = None /\ get.pc = "idle" /\ cli.pc = "idle"
       /\ disk.creds = NoCreds /\ disk.prefs = Defaults
       /\ db.asset = sc.len /\ hist.sessions = 0 /\ hist.wish = Defaults /\ ~hist.alone /\ hist.clicked = hist.reads
  BY DEF Init
<1>13. \A i \in Saves : save[i].pc = "idle"
  BY DEF Init, NoSave
<1>14. \A l \in Logins : login[l] = "idle"
  BY DEF Init
<1>15. Listening /\ Stored
  BY <1>12, <1>13, <1>14 DEF Listening, Serving, InFlight, Accepted, Stored, AssetRight
<1>16. Passwords /\ Tokens /\ OneLogin /\ Refusals /\ Running /\ Outcomes
  <2>1. hist.clicked = 0 /\ hist.reads = 0
    BY DEF Init
  <2> QED
    BY <1>12, <1>14, <2>1 DEF Passwords, Tokens, Provisioning, Serving, OneLogin, Refusals, Running, Outcomes
<1>17. Wished /\ Matched
  BY <1>12, <1>13 DEF Wished, Changing, Pending, Accepted, Matched, Provisioning
<1> QED
  BY <1>11, <1>15, <1>16, <1>17 DEF IInv

\* Toggling a preference makes a set of preferences of it.
LEMMA FlipType ==
  ASSUME NEW p \in Prefs, NEW f \in Fields
  PROVE  Flip(p, f) \in Prefs
BY DEF Flip, Prefs

LEMMA DiskStep ==
  ASSUME TypeOK, [Next]_vars
  PROVE  DiskOK'
<1> USE TypeParts, Constants
<1>1. CASE UNCHANGED disk
  BY <1>1 DEF DiskOK
<1>2. CASE Launch \/ Bind \/ Drained \/ SetReads \/ Polling \/ Fetching \/ \E l \in Logins : Bootstrap(l) \/ LoggedIn(l)
  BY <1>1, <1>2 DEF Launch, Bind, Drained, SetReads, Polling, PollLive, Load, Await, GiveUp, Fetching,
    AskAsset, Forward, ServeAsset, Bootstrap, LoggedIn
<1>3. CASE Read
  <2>1. PICK key \in Nat : disk' = [disk EXCEPT !.secret = key]
    BY <1>3 DEF Read, DiskOK, HistOK
  <2> QED
    BY <2>1 DEF DiskOK
<1>4. CASE Climb
  <2>1. CASE Persist
    BY <2>1 DEF Persist, DiskOK, BootOK
  <2>2. CASE ~Persist
    BY <1>1, <1>4, <2>2 DEF Climb, Services, StoredToken, Login, Register, Relogin, Mint, GetProfile
  <2> QED
    BY <2>1, <2>2
<1>5. CASE Failing
  BY <1>5, FailingFrame DEF DiskOK
<1>6. CASE Install \/ Publish
  BY <1>6 DEF Install, Publish, DiskOK, BootOK
<1>7. CASE Crash \/ LoseSecret
  BY <1>7 DEF Crash, LoseSecret, DiskOK
<1>8. ASSUME NEW o \in Ops, Restarting(o)
      PROVE  DiskOK'
  <2>1. CASE TakeDown(o)
    BY <2>1 DEF TakeDown, DiskOK, Switches
  <2>2. CASE Record(o)
    <3>1. sc.ops[o] \in OpKinds /\ op[o].ok \in BOOLEAN
      BY DEF Ops, ScOK, Scenario, OpOK
    <3>2. disk' = disk \/ disk' = [disk EXCEPT !.op = [seq |-> disk.op.seq + 1, kind |-> sc.ops[o], ok |-> op[o].ok]]
      BY <2>2 DEF Record
    <3> QED
      BY <1>1, <3>1, <3>2 DEF DiskOK
  <2> QED
    BY <1>1, <1>8, <2>1, <2>2 DEF Restarting, AskReboot, AskElsewhere, Unusable
<1>9. ASSUME NEW i \in Saves, Saving(i)
      PROVE  DiskOK'
  <2>1. CASE PostPrefs(i)
    BY <2>1 DEF PostPrefs, DiskOK, SaveOK
  <2> QED
    BY <1>1, <1>9, <2>1 DEF Saving, Click, SetPosts, Refused, SaveFails, ApplySync, ApplyRenders, Answer
<1> QED
  BY <1>1, <1>2, <1>3, <1>4, <1>5, <1>6, <1>7, <1>8, <1>9, Steps DEF vars
LEMMA DbStep ==
  ASSUME TypeOK, Tokens, [Next]_vars
  PROVE  DbOK'
<1> USE TypeParts, Constants
<1>1. CASE UNCHANGED db
  BY <1>1 DEF DbOK
<1>2. CASE Launch \/ Drained
  BY <1>2 DEF Launch, Drained, Empty, DbOK
<1>3. CASE Climb
  <2>1. CASE Register
    BY <2>1 DEF Register, DbOK, BootOK, Creds
  <2>2. CASE Mint
    <3>1. boot.key \in Nat
      BY <2>2 DEF Mint, Tokens, Provisioning
    <3>2. <<hist.coin + 1, boot.key>> \in Nat \X Nat
      BY <2>2, <3>1 DEF HistOK, Mint
    <3>3. db' = [db EXCEPT !.keys = @ \cup {<<hist.coin + 1, boot.key>>}]
      BY <2>2 DEF Mint
    <3> QED
      BY <3>2, <3>3 DEF DbOK
  <2> QED
    BY <1>1, <1>3, <2>1, <2>2 DEF Climb, Services, StoredToken, Login, Relogin, GetProfile, Persist
<1>4. CASE Failing \/ Read \/ Bind \/ Install \/ Crash \/ Outside \/ \E o \in Ops : TakeDown(o)
  BY <1>1, <1>4, FailingFrame, OutsideFrame DEF Read, Bind, Install, Crash, TakeDown
<1> QED
  BY <1>1, <1>2, <1>3, <1>4, Sides DEF vars

LEMMA BootStep ==
  ASSUME TypeOK, [Next]_vars
  PROVE  BootOK'
<1> USE TypeParts, Constants, Static DEF BootPcs, Provisioning
<1>1. CASE UNCHANGED boot
  BY <1>1 DEF BootOK
<1>2. CASE Launch
  <2>1. boot.life + 1 \in 0 .. Lives
    BY <1>2, FrontDoorAssumption DEF Launch, BootOK
  <2> QED
    BY <1>2, <2>1 DEF Launch, BootOK
<1>7. CASE Bind \/ Drained
  BY <1>7 DEF Bind, Drained, BootTo, BootOK
<1>8. CASE Install \/ Crash
  BY <1>8 DEF Install, Crash, BootOK
<1>3. CASE Read
  <2> DEFINE key == IF disk.secret \notin {None, Torn} THEN disk.secret ELSE hist.coin + 1
  <2>1. key \in Nat
    BY DEF DiskOK, HistOK
  <2>2. boot' = [boot EXCEPT !.pc = "services", !.prefs = disk.prefs, !.key = key]
    BY <1>3 DEF Read
  <2>3. disk.prefs \in Prefs
    BY DEF DiskOK
  <2> HIDE DEF key
  <2> QED
    BY <2>1, <2>2, <2>3 DEF BootOK
<1>4. CASE Climb
  <2>1. CASE StoredToken
    <3> DEFINE creds == IF disk.creds = NoCreds THEN [pw |-> hist.coin + 1, tok |-> None] ELSE disk.creds
    <3>1. creds \in Creds
      BY <2>1 DEF StoredToken, DiskOK, HistOK, Creds
    <3>2. \E pc \in {"bind", "login"} : boot' = [boot EXCEPT !.creds = creds, !.pc = pc]
      BY <2>1 DEF StoredToken
    <3> HIDE DEF creds
    <3> QED
      BY <3>1, <3>2 DEF BootOK
  <2>2. CASE Mint
    <3>1. [boot.creds EXCEPT !.tok = hist.coin + 1] \in Creds
      BY DEF BootOK, HistOK, Creds
    <3>2. boot' = [boot EXCEPT !.pc = "profile", !.creds = [boot.creds EXCEPT !.tok = hist.coin + 1]]
      BY <2>2 DEF Mint, BootOK
    <3> QED
      BY <3>1, <3>2 DEF BootOK
  <2> QED
    BY <1>4, <2>1, <2>2 DEF Climb, Services, Login, Register, Relogin, GetProfile, Persist, BootTo, BootOK
<1>5. CASE Failing
  BY <1>5 DEF Failing, BootFault, CredsTorn, RegisterRefused, Fails, BootOK
<1>6. CASE Outside \/ \E o \in Ops : TakeDown(o)
  BY <1>1, <1>6, OutsideFrame DEF TakeDown, BootOK
<1> QED
  BY <1>1, <1>2, <1>3, <1>4, <1>5, <1>6, <1>7, <1>8, Sides DEF vars

\* Which steps touch what runs: the stack, and the webviews' logins.
LEMMA StackMoves ==
  ASSUME TypeOK, Next
  PROVE  \/ UNCHANGED <<stack, login>> \/ Bind \/ Crash
         \/ (Failing \/ Drained) /\ UNCHANGED login
         \/ \E i \in Saves : (ApplySync(i) \/ ApplyRenders(i)) /\ UNCHANGED login
         \/ \E l \in Logins : Bootstrap(l) \/ LoggedIn(l)
<1>5. CASE Climb
  BY <1>5, ClimbFrame
<1>6. CASE Failing
  BY <1>6, FailingFrame
<1>1. CASE Launch \/ Read \/ Install \/ Publish \/ LoseSecret \/ SetReads \/ Polling \/ Fetching
  BY <1>1 DEF Launch, Read, Install, Publish, LoseSecret, SetReads, Polling,
    PollLive, Load, Await, GiveUp, Fetching, AskAsset, Forward, ServeAsset
<1>2. CASE \E o \in Ops : Restarting(o)
  BY <1>2 DEF Restarting, AskReboot, AskElsewhere, TakeDown, Unusable, Record
<1>3. CASE \E i \in Saves : Saving(i)
  BY <1>3 DEF Saving, Click, SetPosts, Refused, PostPrefs, SaveFails, ApplySync, ApplyRenders, Answer
<1>4. CASE Drained
  BY <1>4 DEF Drained
<1> QED
  BY <1>1, <1>2, <1>3, <1>4, <1>5, <1>6, Steps

\* While somebody's login is asked, the stack is there (Listening).
LEMMA StackStep ==
  ASSUME TypeOK, Listening, [Next]_vars
  PROVE  StackOK' /\ LoginOK'
<1> USE TypeParts, Constants
<1>1. CASE UNCHANGED <<stack, login>>
  BY <1>1 DEF StackOK, LoginOK
<1>2. CASE Bind
  <2>1. FrontendFlags(boot.prefs.plugins) \in SUBSET {"defaults", "disable-cloud", "enable-plugins"}
    BY DEF FrontendFlags
  <2>2. ResolveCsp(sc.csp, boot.prefs.csp) \in BOOLEAN
    BY DEF ResolveCsp, ScOK, Scenario, CspEnvs, BootOK, Prefs, Fields
  <2>3. RendersAtBoot(boot.prefs) \in BOOLEAN /\ ShouldPauseAtBoot(boot.prefs) \in BOOLEAN
    BY DEF RendersAtBoot, ShouldPauseAtBoot, ScOK, Scenario, BootOK, Prefs, Fields
  <2>4. boot.creds.tok \in Nat \cup {None} /\ boot.key \in Nat \cup {None}
    BY DEF BootOK, Creds
  <2>5. stack' \in Stack
    BY <1>2, <2>1, <2>2, <2>3, <2>4 DEF Bind, Stack
  <2> QED
    BY <1>2, <2>5 DEF Bind, StackOK, LoginOK
<1>3. CASE (Failing \/ Drained) /\ UNCHANGED login
  BY <1>3, FailingFrame DEF Drained, StackOK, LoginOK
<1>4. CASE Crash
  BY <1>4 DEF Crash, Gone, StackOK, LoginOK
<1>5. ASSUME NEW i \in Saves, ApplySync(i) \/ ApplyRenders(i), UNCHANGED login
      PROVE  StackOK' /\ LoginOK'
  <2>1. save[i].body.sync \in BOOLEAN /\ save[i].body.exports \in BOOLEAN
    BY DEF SaveOK, Prefs, Fields
  <2>2. InSlot => stack \in Stack
    BY DEF InSlot, Listening, Serving, StackOK
  <2> QED
    <3>1. CASE UNCHANGED stack
      BY <1>5, <3>1 DEF StackOK, LoginOK
    <3>2. ASSUME NEW b \in BOOLEAN, InSlot, \/ stack' = [stack EXCEPT !.paused = b]
                                            \/ stack' = [stack EXCEPT !.renders = b]
          PROVE  StackOK' /\ LoginOK'
      <4>1. stack' \in Stack
        BY <2>2, <3>2 DEF Stack
      <4> QED
        BY <1>5, <4>1 DEF StackOK, LoginOK
    <3>3. InSlot => (stack.renders /\ save[i].body.exports) \in BOOLEAN
      BY <2>1, <2>2 DEF Stack
    <3> QED
      BY <1>5, <2>1, <3>1, <3>2, <3>3 DEF ApplySync, ApplyRenders
<1>6. ASSUME NEW l \in Logins, Bootstrap(l) \/ LoggedIn(l)
      PROVE  StackOK' /\ LoginOK'
  <2>1. stack \in Stack
    BY <1>6 DEF Bootstrap, LoggedIn, Listening, InFlight, Serving, StackOK
  <2> QED
    <3>1. stack' = stack \/ \E b \in BOOLEAN : stack' = [stack EXCEPT !.used = b]
      BY <1>6 DEF Bootstrap, LoggedIn
    <3>2. stack' \in Stack
      BY <2>1, <3>1 DEF Stack
    <3>3. \E s \in {"idle", "asking", "home", "refused"} : login' = [login EXCEPT ![l] = s]
      BY <1>6 DEF Bootstrap, LoggedIn
    <3> QED
      BY <3>2, <3>3 DEF StackOK, LoginOK
<1> QED
  BY <1>1, <1>2, <1>3, <1>4, <1>5, <1>6, StackMoves DEF vars
\* What is sent is a request to save.
LEMMA Sends ==
  ASSUME NEW b \in Prefs
  PROVE  LET R == [pc : {"idle", "sent", "sync", "renders", "answer"},
                   body : Prefs, needs : BOOLEAN, by : {"page", "cli"}]
         IN  /\ [NoSave EXCEPT !.pc = "sent", !.body = b] \in R
             /\ [NoSave EXCEPT !.pc = "sent", !.by = "cli", !.body = b] \in R
<1> DEFINE R == [pc : {"idle", "sent", "sync", "renders", "answer"},
                 body : Prefs, needs : BOOLEAN, by : {"page", "cli"}]
<1>1. NoSave \in R
  BY Constants DEF NoSave
<1> QED
  BY <1>1

LEMMA SaveStep ==
  ASSUME TypeOK, [Next]_vars
  PROVE  SaveOK' /\ CliOK'
<1> USE TypeParts, Constants
<1>1. CASE UNCHANGED <<save, cli>>
  BY <1>1 DEF SaveOK, CliOK
<1>2. CASE Crash
  BY <1>2 DEF Crash, Gone, SaveOK, CliOK, NoSave
<1>3. ASSUME NEW i \in Saves, Saving(i)
      PROVE  SaveOK' /\ CliOK'
  <2>2. CASE Click(i)
    <3>1. PICK f \in sc.fields : save' = [save EXCEPT ![i] = [NoSave EXCEPT !.pc = "sent", !.body = Flip(page.form, f)]]
      BY <2>2 DEF Click
    <3>2. Flip(page.form, f) \in Prefs
      BY FlipType DEF PageOK, ScOK, Scenario
    <3>3. SaveOK'
      BY <3>1, <3>2, Sends DEF SaveOK
    <3> QED
      BY <2>2, <3>3 DEF Click, CliOK
  <2>3. CASE SetPosts(i)
    <3>1. PICK f \in sc.fields : save' = [save EXCEPT ![i] = [NoSave EXCEPT !.pc = "sent", !.by = "cli",
                                             !.body = Flip(cli.got, f)]]
      BY <2>3 DEF SetPosts, MergedPreferences
    <3>2. Flip(cli.got, f) \in Prefs
      BY FlipType DEF CliOK, ScOK, Scenario
    <3>3. CliOK'
      BY <2>3 DEF SetPosts, CliOK
    <3>4. SaveOK'
      BY <3>1, <3>2, Sends DEF SaveOK
    <3> QED
      BY <3>3, <3>4
  <2>4. CASE PostPrefs(i)
    <3> DEFINE needs == NeedsReboot(disk.prefs, save[i].body)
    <3>1. needs \in BOOLEAN
      BY DEF NeedsReboot
    <3>2. save' = [save EXCEPT ![i].pc = "sync", ![i].needs = needs]
      BY <2>4 DEF PostPrefs
    <3> HIDE DEF needs
    <3>3. SaveOK'
      <4> DEFINE s == [save EXCEPT ![i].pc = "sync"]
      <4>1. s \in [Saves -> [pc : {"idle", "sent", "sync", "renders", "answer"},
                             body : Prefs, needs : BOOLEAN, by : {"page", "cli"}]]
        BY DEF SaveOK
      <4>2. save' = [s EXCEPT ![i].needs = needs]
        BY <3>2
      <4> HIDE DEF s
      <4> QED
        BY <3>1, <4>1, <4>2 DEF SaveOK
    <3> QED
      BY <2>4, <3>3 DEF PostPrefs, CliOK
  <2>5. CASE Refused(i) \/ SaveFails(i) \/ ApplySync(i) \/ ApplyRenders(i) \/ Answer(i)
    <3>1. UNCHANGED cli /\ \E pc \in {"idle", "renders", "answer"} : SaveTo(i, pc)
      BY <2>5 DEF Refused, SaveFails, ApplySync, ApplyRenders, Answer
    <3> QED
      BY <3>1 DEF SaveTo, SaveOK, CliOK
  <2> QED
    BY <1>3, <2>2, <2>3, <2>4, <2>5 DEF Saving
<1>4. CASE SetReads
  BY <1>4 DEF SetReads, SaveOK, CliOK, DiskOK
<1>5. CASE Launch \/ Read \/ Climb \/ Failing \/ Bind \/ Install \/ Publish \/ Drained
  BY <1>1, <1>5, ClimbFrame, FailingFrame DEF Launch, Read, Bind, Install, Publish, Drained
<1>6. CASE LoseSecret \/ Polling \/ Fetching
  BY <1>1, <1>6 DEF LoseSecret, Polling, PollLive, Load, Await, GiveUp, Fetching, AskAsset, Forward, ServeAsset
<1>7. CASE \E o \in Ops : Restarting(o)
  BY <1>1, <1>7 DEF Restarting, AskReboot, AskElsewhere, TakeDown, Unusable, Record
<1>8. CASE \E l \in Logins : Bootstrap(l) \/ LoggedIn(l)
  BY <1>1, <1>8 DEF Bootstrap, LoggedIn
<1> QED
  BY <1>1, <1>2, <1>3, <1>4, <1>5, <1>6, <1>7, <1>8, Steps DEF vars

\* Which steps touch the page.
LEMMA PageMoves ==
  ASSUME TypeOK, Next
  PROVE  \/ UNCHANGED page \/ Crash \/ Polling
         \/ \E o \in Ops : AskReboot(o)
         \/ \E i \in Saves : Click(i) \/ Answer(i)
<1>1. CASE Launch \/ Read \/ Climb \/ Failing \/ Bind \/ Install \/ Publish \/ Drained \/ LoseSecret \/ SetReads
  BY <1>1, ClimbFrame, FailingFrame DEF Launch, Read, Bind, Install, Publish, Drained, LoseSecret, SetReads
<1>2. CASE \E o \in Ops : Restarting(o)
  BY <1>2 DEF Restarting, AskElsewhere, TakeDown, Unusable, Record
<1>3. CASE \E i \in Saves : Saving(i)
  BY <1>3 DEF Saving, SetPosts, Refused, PostPrefs, SaveFails, ApplySync, ApplyRenders
<1>4. CASE Fetching \/ \E l \in Logins : Bootstrap(l) \/ LoggedIn(l)
  BY <1>4 DEF Fetching, AskAsset, Forward, ServeAsset, Bootstrap, LoggedIn
<1> QED
  BY <1>1, <1>2, <1>3, <1>4, Steps

LEMMA PageStep ==
  ASSUME TypeOK, [Next]_vars
  PROVE  PageOK'
<1> USE TypeParts, Constants
<1>1. CASE UNCHANGED page
  BY <1>1 DEF PageOK
<1>2. CASE Crash
  BY <1>2 DEF Crash, Gone, PageOK, DiskOK
<1>3. CASE PollLive \/ GiveUp
  BY <1>3 DEF PollLive, GiveUp, PageOK, DiskOK
<1>7. CASE Load
  <2>1. disk.prefs \in Prefs /\ disk.op.seq \in Nat
    BY DEF DiskOK
  <2> QED
    BY <1>7, <2>1 DEF Load, PageOK
<1>4. CASE Await
  <2>1. PICK wait \in BOOLEAN, banner \in BOOLEAN, told \in {"none", "applied", "failed", "other"} :
          page' = [page EXCEPT !.form = disk.prefs, !.last = disk.op.seq, !.wait = wait,
                               !.banner = banner, !.told = told]
    <3> DEFINE wait == disk.op.seq = page.base
               banner == page.banner /\ ~(disk.op.seq # page.base /\ disk.op.ok /\ ~Switches(disk.op.kind))
               told == CASE disk.op.seq = page.base -> "none"
                         [] disk.op.seq # page.base /\ Switches(disk.op.kind) -> "other"
                         [] OTHER -> IF disk.op.ok THEN "applied" ELSE "failed"
    <3>1. page' = [page EXCEPT !.form = disk.prefs, !.last = disk.op.seq, !.wait = wait,
                               !.banner = banner, !.told = told]
      BY <1>4 DEF Await
    <3>2. told \in {"none", "applied", "failed", "other"}
      OBVIOUS
    <3>3. wait \in BOOLEAN
      OBVIOUS
    <3>4. banner \in BOOLEAN
      BY DEF PageOK
    <3> HIDE DEF wait, banner, told
    <3> QED
      BY <3>1, <3>2, <3>3, <3>4
  <2> QED
    BY <2>1 DEF PageOK, DiskOK
<1>5. ASSUME NEW o \in Ops, AskReboot(o)
      PROVE  PageOK'
  BY <1>5 DEF AskReboot, PageOK
<1>6. ASSUME NEW i \in Saves, Click(i) \/ Answer(i)
      PROVE  PageOK'
  <2>1. CASE Click(i)
    <3>1. PICK f \in sc.fields : page' = [page EXCEPT !.form = Flip(@, f)]
      BY <2>1 DEF Click
    <3>2. Flip(page.form, f) \in Prefs
      BY FlipType DEF PageOK, ScOK, Scenario
    <3> QED
      BY <3>1, <3>2 DEF PageOK
  <2>2. CASE Answer(i)
    BY <2>2 DEF Answer, PageOK, SaveOK, DiskOK
  <2> QED
    BY <1>6, <2>1, <2>2
<1> QED
  BY <1>1, <1>2, <1>3, <1>4, <1>5, <1>6, <1>7, PageMoves DEF vars, Polling
\* Which steps touch the restarts.
LEMMA OpMoves ==
  ASSUME TypeOK, Next
  PROVE  \/ UNCHANGED op \/ Crash \/ Failing \/ Install
         \/ \E o \in Ops : Restarting(o)
<1>1. CASE Launch \/ Read \/ Bind \/ Publish \/ Drained \/ LoseSecret \/ SetReads \/ Polling
  BY <1>1 DEF Launch, Read, Bind, Publish, Drained, LoseSecret, SetReads, Polling, PollLive, Load, Await, GiveUp
<1>2. CASE \E i \in Saves : Saving(i)
  BY <1>2 DEF Saving, Click, SetPosts, Refused, PostPrefs, SaveFails, ApplySync, ApplyRenders, Answer
<1>3. CASE Fetching \/ \E l \in Logins : Bootstrap(l) \/ LoggedIn(l)
  BY <1>3 DEF Fetching, AskAsset, Forward, ServeAsset, Bootstrap, LoggedIn
<1>4. CASE Climb
  BY <1>4, ClimbFrame
<1> QED
  BY <1>1, <1>2, <1>3, <1>4, Steps

LEMMA OpStep ==
  ASSUME TypeOK, [Next]_vars
  PROVE  OpOK'
<1> USE TypeParts, Constants, Static
<1>1. CASE UNCHANGED op
  BY <1>1 DEF OpOK
<1>2. CASE Crash
  BY <1>2 DEF Crash, Gone, OpOK
<1> DEFINE R == [pc : {"idle", "lock", "run", "record", "end"}, ok : BOOLEAN]
<1>6. ASSUME NEW o, NEW r \in R, op' = [op EXCEPT ![o] = r]
      PROVE  OpOK'
  BY <1>6 DEF OpOK
<1>3. CASE Failing
  <2>1. op' = op \/ op' = [op EXCEPT ![boot.by] = [pc |-> "record", ok |-> FALSE]]
    BY <1>3, FailingFrame
  <2> QED
    BY <1>1, <1>6, <2>1
<1>4. CASE Install
  <2>1. op' = op \/ op' = [op EXCEPT ![boot.by] = [pc |-> "record", ok |-> TRUE]]
    BY <1>4 DEF Install
  <2> QED
    BY <1>1, <1>6, <2>1
<1>5. ASSUME NEW o \in Ops, Restarting(o)
      PROVE  OpOK'
  <2>1. ASSUME NEW pc \in {"lock", "run", "end"}, OpTo(o, pc)
        PROVE  OpOK'
    <3>1. [op[o] EXCEPT !.pc = pc] \in R
      BY DEF OpOK
    <3> QED
      BY <1>6, <2>1, <3>1 DEF OpTo
  <2>2. CASE Unusable(o)
    BY <1>6, <2>2 DEF Unusable
  <2> QED
    BY <1>5, <2>1, <2>2 DEF Restarting, AskReboot, AskElsewhere, TakeDown, Record
<1> QED
  BY <1>1, <1>2, <1>3, <1>4, <1>5, OpMoves DEF vars

\* Which steps touch the request for an asset.
LEMMA GetMoves ==
  ASSUME TypeOK, Next
  PROVE  UNCHANGED get \/ Crash \/ AskAsset \/ Forward \/ ServeAsset
<1>1. CASE Launch \/ Read \/ Bind \/ Install \/ Publish \/ Drained \/ LoseSecret \/ SetReads \/ Polling
  BY <1>1 DEF Launch, Read, Bind, Install, Publish, Drained, LoseSecret, SetReads, Polling, PollLive, Load,
    Await, GiveUp
<1>2. CASE \E i \in Saves : Saving(i)
  BY <1>2 DEF Saving, Click, SetPosts, Refused, PostPrefs, SaveFails, ApplySync, ApplyRenders, Answer
<1>3. CASE \E l \in Logins : Bootstrap(l) \/ LoggedIn(l)
  BY <1>3 DEF Bootstrap, LoggedIn
<1>4. CASE Climb \/ Failing
  BY <1>4, ClimbFrame, FailingFrame
<1>5. CASE \E o \in Ops : Restarting(o)
  BY <1>5 DEF Restarting, AskReboot, AskElsewhere, TakeDown, Unusable, Record
<1> QED
  BY <1>1, <1>2, <1>3, <1>4, <1>5, Steps DEF Fetching

\* The headers a request is made with.
LEMMA HeaderType ==
  ASSUME NEW n \in Nat, NEW h \in Headers(n)
  PROVE  h \in AnyHeader
BY DEF Headers, NoRange, OddRange, AnyHeader, Bound, Missing

\* The requests for an asset.
Answers == [status : {200, 206, 416}, length : Nat, bytes : SUBSET Nat]
Requests == [pc : {"idle", "forward", "open", "done"}, range : AnyHeader, head : BOOLEAN,
             status : {0, 200, 206, 404, 416, 502}, answer : Answers \cup {None}]

LEMMA GetStep ==
  ASSUME TypeOK, Stored, [Next]_vars
  PROVE  GetOK'
<1> USE TypeParts, Constants
<1>6. get \in Requests /\ (get' \in Requests => GetOK')
  BY DEF GetOK, Requests, Answers, AnyHeader, Bound
<1>7. get.range \in AnyHeader /\ get.head \in BOOLEAN
  BY <1>6 DEF Requests
<1>1. CASE UNCHANGED get
  BY <1>1 DEF GetOK
<1>8. ASSUME NEW pc \in {"idle", "forward", "open", "done"}, NEW g, g = [get EXCEPT !.pc = pc]
      PROVE  g \in Requests
  BY <1>6, <1>8 DEF Requests
<1>9. ASSUME NEW pc \in {"idle", "forward", "open", "done"}, NEW s \in {0, 200, 206, 404, 416, 502},
             get' = [get EXCEPT !.pc = pc, !.status = s]
      PROVE  GetOK'
  <2> DEFINE g == [get EXCEPT !.pc = pc]
  <2>1. g \in Requests
    BY <1>8
  <2>2. get' = [g EXCEPT !.status = s]
    BY <1>9
  <2> HIDE DEF g
  <2> QED
    BY <1>6, <2>1, <2>2 DEF Requests
<1>10. ASSUME NEW a \in Answers \cup {None}, NEW g \in Requests, get' = [g EXCEPT !.answer = a]
      PROVE  GetOK'
  BY <1>6, <1>10 DEF Requests
<1>2. CASE Crash
  <2> DEFINE g == [get EXCEPT !.pc = "idle"]
  <2>1. g \in Requests
    BY <1>8
  <2>2. get' = [g EXCEPT !.answer = None]
    BY <1>2 DEF Crash, Gone
  <2> HIDE DEF g
  <2> QED
    BY <1>10, <2>1, <2>2
<1>3. CASE AskAsset
  <2>1. sc.bound \in Nat
    BY <1>3 DEF AskAsset, ScOK, Scenario
  <2>2. PICK h \in Headers(sc.bound), head \in BOOLEAN :
          get' = [pc |-> "forward", range |-> h, head |-> head, status |-> 0, answer |-> None]
    BY <1>3 DEF AskAsset
  <2>3. h \in AnyHeader
    BY <2>1, HeaderType
  <2> QED
    BY <1>6, <2>2, <2>3 DEF Requests
<1>4. CASE Forward
  <2>1. \/ \E pc \in {"open", "done"} : get' = [get EXCEPT !.pc = pc]
        \/ \E s \in {404, 502} : get' = [get EXCEPT !.pc = "done", !.status = s]
    BY <1>4 DEF Forward
  <2> QED
    BY <1>6, <1>8, <1>9, <2>1
<1>5. CASE ServeAsset
  <2>1. CASE db.asset = None
    BY <1>5, <1>9, <2>1 DEF ServeAsset
  <2>2. CASE db.asset # None
    <3> DEFINE r == ServeStorageFile(db.asset, get.range, get.head)
    <3>1. db.asset \in Nat /\ get.range \in AnyHeader /\ get.head \in BOOLEAN
      BY <1>7, <2>2 DEF DbOK
    <3>2. r \in [status : {200, 206, 416}, length : Nat, bytes : SUBSET Nat]
      BY <3>1, AnswerType
    <3>3. get' = [get EXCEPT !.pc = "done", !.status = r.status, !.answer = r]
      BY <1>5, <2>2 DEF ServeAsset
    <3> HIDE DEF r
    <3>4. r.status \in {200, 206, 416}
      BY <3>2
    <3>5. r \in Answers \cup {None}
      BY <3>2 DEF Answers
    <3> QED
      <4> DEFINE g == [get EXCEPT !.pc = "done"]
                 h == [g EXCEPT !.status = r.status]
      <4>1. g \in Requests
        BY <1>8
      <4>2. get' = [h EXCEPT !.answer = r]
        BY <3>3
      <4> HIDE DEF g
      <4>3. h \in Requests
        BY <3>4, <4>1 DEF Requests
      <4> HIDE DEF h
      <4> QED
        BY <1>10, <3>5, <4>2, <4>3
  <2> QED
    BY <2>1, <2>2
<1> QED
  BY <1>1, <1>2, <1>3, <1>4, <1>5, GetMoves DEF vars
\* Which steps are remembered.
LEMMA HistMoves ==
  ASSUME TypeOK, Next
  PROVE  \/ UNCHANGED hist \/ Read \/ Climb \/ Failing \/ Bind \/ Crash \/ SetReads
         \/ \E o \in Ops : AskReboot(o) \/ AskElsewhere(o)
         \/ \E i \in Saves : Click(i) \/ SetPosts(i) \/ Refused(i) \/ SaveFails(i) \/ PostPrefs(i)
         \/ \E l \in Logins : LoggedIn(l)
<1>1. CASE Launch \/ Install \/ Publish \/ Drained \/ LoseSecret \/ Polling \/ Fetching
  BY <1>1 DEF Launch, Install, Publish, Drained, LoseSecret, Polling, PollLive, Load, Await, GiveUp, Fetching,
    AskAsset, Forward, ServeAsset
<1>2. CASE \E o \in Ops : Restarting(o)
  BY <1>2 DEF Restarting, TakeDown, Unusable, Record
<1>3. CASE \E i \in Saves : Saving(i)
  BY <1>3 DEF Saving, ApplySync, ApplyRenders, Answer
<1>4. CASE \E l \in Logins : Bootstrap(l) \/ LoggedIn(l)
  BY <1>4 DEF Bootstrap
<1> QED
  BY <1>1, <1>2, <1>3, <1>4, Steps

LEMMA HistStep ==
  ASSUME TypeOK, Running, [Next]_vars
  PROVE  HistOK'
<1> USE TypeParts, Constants
<1>1. CASE UNCHANGED hist
  BY <1>1 DEF HistOK
<1> DEFINE R == [coin : Nat, reads : Nat, hit : BOOLEAN, locked : BOOLEAN, failures : Nat,
                 sessions : Nat, wish : Prefs, owed : BOOLEAN, muddled : BOOLEAN,
                 clicked : Nat, alone : BOOLEAN]
<1>4. CASE Read
  <2> DEFINE key == IF disk.secret \notin {None, Torn} THEN disk.secret ELSE hist.coin + 1
             coin == IF disk.secret \notin {None, Torn} THEN hist.coin ELSE key
             wish == IF hist.muddled THEN disk.prefs ELSE hist.wish
             muddled == hist.muddled /\ Changing
             reads == hist.reads + 1
  <2>6. reads \in Nat /\ hist \in R
    BY DEF HistOK
  <2>1. coin \in Nat /\ wish \in Prefs /\ muddled \in BOOLEAN
    BY DEF DiskOK, HistOK, Changing
  <2>2. hist' = [hist EXCEPT !.coin = coin, !.reads = reads, !.hit = FALSE, !.owed = FALSE,
                             !.wish = wish, !.muddled = muddled]
    BY <1>4 DEF Read
  <2> HIDE DEF coin, wish, muddled, reads
  <2> DEFINE h == [hist EXCEPT !.coin = coin, !.reads = reads]
             g == [h EXCEPT !.hit = FALSE, !.owed = FALSE]
  <2>3. h \in R
    BY <2>1, <2>6
  <2> HIDE DEF h
  <2>4. g \in R
    BY <2>3
  <2>5. hist' = [g EXCEPT !.wish = wish, !.muddled = muddled]
    BY <2>2 DEF h
  <2> HIDE DEF g
  <2> QED
    BY <2>1, <2>4, <2>5 DEF HistOK
<1>5. CASE Climb
  <2>1. CASE StoredToken
    <3> DEFINE coin == IF disk.creds = NoCreds THEN hist.coin + 1 ELSE hist.coin
               locked == disk.creds = NoCreds /\ db.user # None
    <3>1. coin \in Nat /\ locked \in BOOLEAN
      BY DEF HistOK
    <3>2. hist' = [hist EXCEPT !.coin = coin, !.locked = locked]
      BY <2>1 DEF StoredToken
    <3> HIDE DEF coin, locked
    <3> QED
      BY <3>1, <3>2 DEF HistOK
  <2>2. CASE Mint
    BY <2>2 DEF Mint, HistOK
  <2>3. CASE Login
    BY <1>1, <2>3 DEF Login, HistOK
  <2> QED
    BY <1>1, <1>5, <2>1, <2>2, <2>3 DEF Climb, Services, Register, Relogin, GetProfile, Persist
<1>6. CASE Failing
  <2>1. hist.failures + 1 \in Nat
    BY DEF HistOK
  <2>2. CASE hist' = [hist EXCEPT !.failures = @ + 1]
    BY <2>1, <2>2 DEF HistOK
  <2>3. CASE hist' = [hist EXCEPT !.hit = TRUE, !.failures = @ + 1]
    BY <2>1, <2>3 DEF HistOK
  <2> QED
    BY <1>6, <2>2, <2>3, FailingFrame
<1>7. CASE Bind \/ Crash
  BY <1>7 DEF Bind, Crash, Gone, HistOK, DiskOK
<1>8. CASE SetReads
  <2> DEFINE muddled == hist.muddled \/ Changing
  <2>1. muddled \in BOOLEAN /\ hist' = [hist EXCEPT !.muddled = muddled]
    BY <1>8 DEF SetReads, HistOK, Changing
  <2> HIDE DEF muddled
  <2> QED
    BY <2>1 DEF HistOK
<1>9. ASSUME NEW o \in Ops, AskReboot(o) \/ AskElsewhere(o)
      PROVE  HistOK'
  <2>1. CASE AskReboot(o)
    <3> DEFINE alone == page.last = disk.op.seq /\ ~OthersOut(o)
    <3>1. alone \in BOOLEAN /\ hist' = [hist EXCEPT !.clicked = hist.reads, !.alone = alone]
      BY <2>1 DEF AskReboot
    <3> HIDE DEF alone
    <3> QED
      BY <3>1 DEF HistOK
  <2>2. CASE AskElsewhere(o)
    <3> DEFINE alone == hist.alone /\ ~Recorded(sc.ops[o])
    <3>1. alone \in BOOLEAN /\ hist' = [hist EXCEPT !.alone = alone]
      BY <2>2 DEF AskElsewhere, Recorded, HistOK
    <3> HIDE DEF alone
    <3> QED
      BY <3>1 DEF HistOK
  <2> QED
    BY <1>9, <2>1, <2>2
<1>10. ASSUME NEW i \in Saves, Click(i) \/ SetPosts(i)
       PROVE  HistOK'
  <2> DEFINE m == IF Click(i) THEN hist.muddled \/ page.form # disk.prefs \/ Changing
                  ELSE hist.muddled \/ \E j \in Saves : Pending(j)
  <2>1. PICK f \in sc.fields : hist' = [hist EXCEPT !.wish = Flip(@, f), !.muddled = m]
    BY <1>10 DEF Click, SetPosts
  <2>2. Flip(hist.wish, f) \in Prefs
    BY FlipType DEF HistOK, ScOK, Scenario
  <2>3. m \in BOOLEAN
    BY DEF HistOK, Changing
  <2> HIDE DEF m
  <2> QED
    BY <2>1, <2>2, <2>3 DEF HistOK
<1>11. ASSUME NEW i \in Saves, Refused(i) \/ SaveFails(i)
       PROVE  HistOK'
  BY <1>11 DEF Refused, SaveFails, HistOK, DiskOK
<1>12. ASSUME NEW i \in Saves, PostPrefs(i)
       PROVE  HistOK'
  <2> DEFINE owed == hist.owed \/ NeedsReboot(disk.prefs, save[i].body)
             muddled == hist.muddled \/ boot.pc = "install"
  <2>1. owed \in BOOLEAN /\ muddled \in BOOLEAN
    BY DEF HistOK, NeedsReboot
  <2>2. hist' = [hist EXCEPT !.owed = owed, !.muddled = muddled]
    BY <1>12 DEF PostPrefs
  <2> HIDE DEF owed, muddled
  <2> QED
    BY <2>1, <2>2 DEF HistOK
<1>13. ASSUME NEW l \in Logins, LoggedIn(l)
       PROVE  HistOK'
  BY <1>1, <1>13 DEF LoggedIn, HistOK
<1> QED
  BY <1>1, <1>4, <1>5, <1>6, <1>7, <1>8, <1>9, <1>10, <1>11, <1>12, <1>13, HistMoves DEF vars

LEMMA TypeOKStep ==
  ASSUME IInv, [Next]_vars
  PROVE  TypeOK'
<1>1. ScOK' /\ DiskOK' /\ DbOK' /\ BootOK' /\ StackOK' /\ LoginOK' /\ SaveOK' /\ CliOK' /\ PageOK'
      /\ OpOK' /\ GetOK' /\ HistOK'
  BY Static, DiskStep, DbStep, BootStep, StackStep, SaveStep, PageStep, OpStep, GetStep, HistStep, TypeParts
  DEF IInv
<1> QED
  BY <1>1 DEF TypeOK, ScOK, DiskOK, DbOK, BootOK, StackOK, LoginOK, SaveOK, PageOK, CliOK, OpOK, GetOK, HistOK
-----------------------------------------------------------------------------
(* What the steps of a save and of a login do. *)

LEMMA SaveTurns ==
  ASSUME TypeOK, NEW i \in Saves, Saving(i)
  PROVE  /\ \A j \in Saves \ {i} : save'[j] = save[j]
         /\ \/ (Click(i) \/ SetPosts(i)) /\ save[i].pc = "idle" /\ save'[i].pc = "sent"
            \/ /\ save'[i].body = save[i].body
               /\ \/ (Refused(i) \/ SaveFails(i)) /\ save[i].pc = "sent" /\ save'[i].pc = "idle"
                  \/ PostPrefs(i) /\ save[i].pc = "sent" /\ save'[i].pc = "sync"
                  \/ ApplySync(i) /\ save[i].pc = "sync" /\ save'[i].pc = "renders"
                  \/ ApplyRenders(i) /\ save[i].pc = "renders" /\ save'[i].pc = "answer"
                  \/ Answer(i) /\ save[i].pc = "answer" /\ save'[i].pc = "idle"
<1>1. SaveOK
  BY TypeParts
<1>2. CASE Click(i) \/ SetPosts(i)
  <2>1. ASSUME NEW r, r.pc = "sent", save' = [save EXCEPT ![i] = r]
        PROVE  (\A j \in Saves \ {i} : save'[j] = save[j]) /\ save'[i].pc = "sent"
    BY <1>1, <2>1 DEF SaveOK
  <2>2. CASE Click(i)
    <3>1. PICK b : save' = [save EXCEPT ![i] = [NoSave EXCEPT !.pc = "sent", !.body = b]]
      BY <2>2 DEF Click
    <3>2. [NoSave EXCEPT !.pc = "sent", !.body = b].pc = "sent"
      BY DEF NoSave
    <3> QED
      BY <2>1, <2>2, <3>1, <3>2 DEF Click
  <2>3. CASE SetPosts(i)
    <3>1. PICK b : save' = [save EXCEPT ![i] = [NoSave EXCEPT !.pc = "sent", !.by = "cli", !.body = b]]
      BY <2>3 DEF SetPosts
    <3>2. [NoSave EXCEPT !.pc = "sent", !.by = "cli", !.body = b].pc = "sent"
      BY DEF NoSave
    <3> QED
      BY <2>1, <2>3, <3>1, <3>2 DEF SetPosts
  <2> QED
    BY <1>2, <2>2, <2>3
<1>4. CASE Refused(i) \/ SaveFails(i)
  <2>1. save[i].pc = "sent" /\ SaveTo(i, "idle")
    BY <1>4 DEF Refused, SaveFails
  <2> QED
    BY <1>1, <1>4, <2>1 DEF SaveTo, SaveOK
<1>5. CASE PostPrefs(i)
  <2>1. save[i].pc = "sent" /\ \E b : save' = [save EXCEPT ![i].pc = "sync", ![i].needs = b]
    BY <1>5 DEF PostPrefs
  <2> QED
    BY <1>1, <1>5, <2>1 DEF SaveOK
<1>6. CASE ApplySync(i)
  BY <1>1, <1>6 DEF ApplySync, SaveTo, SaveOK
<1>7. CASE ApplyRenders(i)
  BY <1>1, <1>7 DEF ApplyRenders, SaveTo, SaveOK
<1>8. CASE Answer(i)
  BY <1>1, <1>8 DEF Answer, SaveTo, SaveOK
<1> QED
  BY <1>2, <1>4, <1>5, <1>6, <1>7, <1>8 DEF Saving

\* Saves are remembered by what they wish for, and nothing else.
LEMMA SaveHist ==
  ASSUME TypeOK, NEW i \in Saves, Saving(i)
  PROVE  /\ hist'.coin = hist.coin /\ hist'.reads = hist.reads /\ hist'.hit = hist.hit
         /\ hist'.locked = hist.locked /\ hist'.failures = hist.failures /\ hist'.sessions = hist.sessions
         /\ hist'.clicked = hist.clicked /\ hist'.alone = hist.alone
<1> DEFINE P == /\ hist'.coin = hist.coin /\ hist'.reads = hist.reads /\ hist'.hit = hist.hit
                /\ hist'.locked = hist.locked /\ hist'.failures = hist.failures /\ hist'.sessions = hist.sessions
                /\ hist'.clicked = hist.clicked /\ hist'.alone = hist.alone
<1>1. ASSUME NEW a, NEW b, \/ hist' = [hist EXCEPT !.wish = a, !.muddled = b] \/ hist' = [hist EXCEPT !.wish = a]
                           \/ hist' = [hist EXCEPT !.owed = a, !.muddled = b] \/ hist' = hist
      PROVE  P
  BY <1>1, TypeParts DEF HistOK
<1>2. \E a, b : \/ hist' = [hist EXCEPT !.wish = a, !.muddled = b] \/ hist' = [hist EXCEPT !.wish = a]
                \/ hist' = [hist EXCEPT !.owed = a, !.muddled = b] \/ hist' = hist
  BY DEF Saving, Click, SetPosts, Refused, PostPrefs, SaveFails, ApplySync, ApplyRenders, Answer
<1> QED
  BY <1>1, <1>2

\* A save is applied to the stack in the slot, and to nothing else of it.
LEMMA Applies ==
  ASSUME TypeOK, Listening, NEW i \in Saves, ApplySync(i) \/ ApplyRenders(i)
  PROVE  /\ stack \in Stack /\ stack' \in Stack
         /\ stack'.tok = stack.tok /\ stack'.key = stack.key /\ stack'.used = stack.used
         /\ stack'.flags = stack.flags /\ stack'.csp = stack.csp
         /\ ApplySync(i) => stack'.renders = stack.renders
         /\ ApplyRenders(i) => stack'.paused = stack.paused
         /\ InSlot /\ ApplySync(i) => stack'.paused = ~save[i].body.sync
         /\ InSlot /\ ApplyRenders(i) => stack'.renders = (stack.renders /\ save[i].body.exports)
<1>1. save[i].body.sync \in BOOLEAN /\ save[i].body.exports \in BOOLEAN
  BY TypeParts DEF SaveOK, Prefs, Fields
<1>2. Accepted(i)
  BY DEF ApplySync, ApplyRenders, Accepted
<1>3. stack \in Stack
  BY <1>2, TypeParts DEF Listening, InFlight, Serving, StackOK
<1>4. CASE ApplySync(i) /\ InSlot
  <2> DEFINE b == ~save[i].body.sync
  <2>1. stack' = [stack EXCEPT !.paused = b] /\ b \in BOOLEAN
    BY <1>1, <1>4 DEF ApplySync
  <2>2. ~ApplyRenders(i)
    BY <1>4 DEF ApplySync, ApplyRenders
  <2> QED
    BY <1>3, <1>4, <2>1, <2>2 DEF Stack
<1>5. CASE ApplyRenders(i) /\ InSlot
  <2> DEFINE b == stack.renders /\ save[i].body.exports
  <2>1. stack' = [stack EXCEPT !.renders = b] /\ b \in BOOLEAN
    BY <1>1, <1>3, <1>5 DEF ApplyRenders, Stack
  <2>2. ~ApplySync(i)
    BY <1>5 DEF ApplySync, ApplyRenders
  <2> QED
    BY <1>3, <1>5, <2>1, <2>2 DEF Stack
<1>6. CASE ~InSlot
  BY <1>3, <1>6 DEF ApplySync, ApplyRenders
<1> QED
  BY <1>4, <1>5, <1>6

\* A login touches the one-shot flag of the stack, and nothing else of it.
LEMMA LogsIn ==
  ASSUME TypeOK, Listening, NEW l \in Logins, Bootstrap(l) \/ LoggedIn(l)
  PROVE  /\ stack \in Stack /\ stack' \in Stack
         /\ stack'.tok = stack.tok /\ stack'.key = stack.key
         /\ stack'.flags = stack.flags /\ stack'.csp = stack.csp
         /\ stack'.paused = stack.paused /\ stack'.renders = stack.renders
         /\ UNCHANGED <<disk, db, boot, save, page, cli, op, get>>
         /\ hist'.muddled = hist.muddled /\ hist'.owed = hist.owed /\ hist'.wish = hist.wish
         /\ hist'.hit = hist.hit /\ hist'.locked = hist.locked /\ hist'.alone = hist.alone
         /\ hist'.reads = hist.reads /\ hist'.clicked = hist.clicked
<1>1. stack \in Stack
  BY TypeParts DEF Bootstrap, LoggedIn, Listening, InFlight, Serving, StackOK
<1>2. stack' = stack \/ \E b \in BOOLEAN : stack' = [stack EXCEPT !.used = b]
  BY DEF Bootstrap, LoggedIn
<1>3. UNCHANGED <<disk, db, boot, save, page, cli, op, get>>
  BY DEF Bootstrap, LoggedIn
<1>4. hist' = hist \/ hist' = [hist EXCEPT !.sessions = @ + 1]
  BY DEF Bootstrap, LoggedIn
<1>5. /\ hist'.muddled = hist.muddled /\ hist'.owed = hist.owed /\ hist'.wish = hist.wish
      /\ hist'.hit = hist.hit /\ hist'.locked = hist.locked /\ hist'.alone = hist.alone
      /\ hist'.reads = hist.reads /\ hist'.clicked = hist.clicked
  BY <1>4, TypeParts DEF HistOK
<1> QED
  BY <1>1, <1>2, <1>3, <1>5 DEF Stack

\* Where an asset's request stands.
LEMMA GetTurns ==
  ASSUME TypeOK, Next, UNCHANGED get \/ AskAsset \/ Forward \/ ServeAsset
  PROVE  /\ get'.pc \in {"forward", "open"} => get.pc \in {"forward", "open"} \/ AskAsset
         /\ get'.pc = "open" => get.pc \in {"forward", "open"}
<1>1. GetOK
  BY TypeParts
<1>2. CASE AskAsset
  BY <1>2 DEF AskAsset
<1>3. CASE Forward \/ ServeAsset
  BY <1>1, <1>3 DEF Forward, ServeAsset, GetOK
<1> QED
  BY <1>2, <1>3

\* Requests are let in where there is a stack, and nowhere else.
LEMMA LetIn ==
  ASSUME TypeOK, Listening, Next, ~Crash, InFlight'
  PROVE  InFlight \/ Serving
<1>1. ASSUME NEW i \in Saves, Saving(i)
      PROVE  InFlight \/ Serving
  <2>1. UNCHANGED <<login, get>>
    BY <1>1 DEF Saving, Click, SetPosts, Refused, PostPrefs, SaveFails, ApplySync, ApplyRenders, Answer
  <2>2. ASSUME NEW j \in Saves, Accepted(j)'
        PROVE  InFlight \/ Serving
    <3>1. Accepted(j) \/ PostPrefs(i)
      BY <1>1, <2>2, SaveTurns DEF Accepted
    <3> QED
      BY <3>1 DEF InFlight, PostPrefs
  <2> QED
    BY <2>1, <2>2 DEF InFlight
<1>2. CASE \E l \in Logins : Bootstrap(l) \/ LoggedIn(l)
  BY <1>2, LogsIn, Constants DEF Serving
<1>3. CASE Fetching
  <2>1. UNCHANGED <<save, login>>
    BY <1>3 DEF Fetching, AskAsset, Forward, ServeAsset
  <2>2. CASE get'.pc \in {"forward", "open"}
    BY <1>3, <2>2, GetTurns DEF Fetching, InFlight, AskAsset
  <2> QED
    BY <2>1, <2>2 DEF InFlight, Accepted
<1>4. CASE Climb \/ Failing
  BY <1>4, ClimbFrame, FailingFrame DEF InFlight, Accepted
<1>5. CASE Launch \/ Read \/ Install \/ Publish \/ Drained \/ LoseSecret \/ SetReads \/ Polling
  BY <1>5 DEF Launch, Read, Install, Publish, Drained, LoseSecret, SetReads, Polling, PollLive, Load,
    Await, GiveUp, InFlight, Accepted
<1>6. CASE \E o \in Ops : Restarting(o)
  BY <1>6 DEF Restarting, AskReboot, AskElsewhere, TakeDown, Unusable, Record, InFlight, Accepted
<1>7. CASE Bind
  BY <1>7 DEF Bind, InFlight, Accepted
<1> QED
  BY <1>1, <1>2, <1>3, <1>4, <1>5, <1>6, <1>7, Steps
-----------------------------------------------------------------------------
(* Listening. *)

LEMMA StackStays ==
  ASSUME TypeOK, Listening, Next, ~Failing, ~Bind, ~Crash, ~Drained
  PROVE  Serving' = Serving
<1>1. ASSUME NEW i \in Saves, ApplySync(i) \/ ApplyRenders(i)
      PROVE  Serving' = Serving
  BY <1>1, Applies, Constants DEF Serving
<1>2. ASSUME NEW l \in Logins, Bootstrap(l) \/ LoggedIn(l)
      PROVE  Serving' = Serving
  BY <1>2, LogsIn, Constants DEF Serving
<1> QED
  BY <1>1, <1>2, StackMoves DEF Serving

\* The stack a boot binds.
LEMMA Binds ==
  ASSUME TypeOK, Bind
  PROVE  /\ stack' \in Stack
         /\ stack'.flags = FrontendFlags(boot.prefs.plugins)
         /\ stack'.csp = ResolveCsp(sc.csp, boot.prefs.csp)
         /\ stack'.paused = ShouldPauseAtBoot(boot.prefs) /\ stack'.renders = RendersAtBoot(boot.prefs)
         /\ stack'.tok = boot.creds.tok /\ stack'.key = boot.key /\ ~stack'.used
         /\ boot.pc = "bind" /\ boot'.pc = "install" /\ boot'.by = boot.by /\ boot'.prefs = boot.prefs
         /\ boot'.creds = boot.creds /\ boot'.key = boot.key
         /\ UNCHANGED <<sc, disk, db, save, page, cli, op, get>>
         /\ hist' = [hist EXCEPT !.sessions = 0] /\ login' = [l \in Logins |-> "idle"]
<1>1. BootOK
  BY TypeParts
<1>2. boot.pc = "bind" /\ boot'.pc = "install" /\ boot'.by = boot.by /\ boot'.prefs = boot.prefs
      /\ boot'.creds = boot.creds /\ boot'.key = boot.key
  BY <1>1 DEF Bind, BootTo, BootOK
<1>3. stack' = [flags |-> FrontendFlags(boot.prefs.plugins),
                csp |-> ResolveCsp(sc.csp, boot.prefs.csp),
                paused |-> ShouldPauseAtBoot(boot.prefs),
                renders |-> RendersAtBoot(boot.prefs),
                tok |-> boot.creds.tok, key |-> boot.key, used |-> FALSE]
  BY DEF Bind
<1>4. FrontendFlags(boot.prefs.plugins) \in SUBSET {"defaults", "disable-cloud", "enable-plugins"}
  BY DEF FrontendFlags
<1>5. ResolveCsp(sc.csp, boot.prefs.csp) \in BOOLEAN
  BY TypeParts DEF ResolveCsp, ScOK, Scenario, CspEnvs, BootOK, Prefs, Fields
<1>6. RendersAtBoot(boot.prefs) \in BOOLEAN /\ ShouldPauseAtBoot(boot.prefs) \in BOOLEAN
  BY TypeParts DEF RendersAtBoot, ShouldPauseAtBoot, ScOK, Scenario, BootOK, Prefs, Fields
<1>7. boot.creds.tok \in Nat \cup {None} /\ boot.key \in Nat \cup {None}
  BY <1>1 DEF BootOK, Creds
<1>8. stack' \in Stack
  BY <1>3, <1>4, <1>5, <1>6, <1>7 DEF Stack
<1>9. /\ UNCHANGED <<sc, disk, db, save, page, cli, op, get>>
      /\ hist' = [hist EXCEPT !.sessions = 0] /\ login' = [l \in Logins |-> "idle"]
  BY DEF Bind
<1> QED
  BY <1>2, <1>3, <1>8, <1>9

\* The other steps of the process.
LEMMA Moves ==
  ASSUME TypeOK, Next
  PROVE  /\ Launch => boot.pc = "off" /\ boot'.pc = "read" /\ boot'.by = 0
         /\ Read => boot.pc = "read" /\ boot'.pc = "services" /\ boot'.by = boot.by /\ boot'.prefs = disk.prefs
         /\ Install => boot.pc = "install" /\ boot'.pc = "up" /\ boot'.by = 0 /\ boot'.prefs = boot.prefs
         /\ Drained => boot.pc = "drain" /\ boot'.pc = "read" /\ boot'.by = boot.by /\ ~InFlight /\ stack' = None
         /\ Crash => boot.pc # "off" /\ boot'.pc = "off"
         /\ \A o \in Ops : TakeDown(o) => /\ boot.pc \in {"up", "failed"} /\ boot'.pc = "drain" /\ boot'.by = o
                                          /\ boot'.prefs = boot.prefs
<1>1. BootOK
  BY TypeParts
<1>2. Launch => boot.pc = "off" /\ boot'.pc = "read" /\ boot'.by = 0
  BY <1>1 DEF Launch, BootOK
<1>3. Read => boot.pc = "read" /\ boot'.pc = "services" /\ boot'.by = boot.by /\ boot'.prefs = disk.prefs
  BY <1>1 DEF Read, BootOK
<1>4. Install => boot.pc = "install" /\ boot'.pc = "up" /\ boot'.by = 0 /\ boot'.prefs = boot.prefs
  BY <1>1 DEF Install, BootOK
<1>5. Drained => boot.pc = "drain" /\ boot'.pc = "read" /\ boot'.by = boot.by /\ ~InFlight /\ stack' = None
  BY <1>1 DEF Drained, BootTo, BootOK
<1>6. Crash => boot.pc # "off" /\ boot'.pc = "off"
  BY <1>1 DEF Crash, BootOK
<1>7. \A o \in Ops : TakeDown(o) => /\ boot.pc \in {"up", "failed"} /\ boot'.pc = "drain" /\ boot'.by = o
                                    /\ boot'.prefs = boot.prefs
  BY <1>1 DEF TakeDown, BootOK
<1> QED
  BY <1>2, <1>3, <1>4, <1>5, <1>6, <1>7

LEMMA ListeningStep ==
  ASSUME IInv, [Next]_vars
  PROVE  Listening'
<1> USE DEF IInv
<1>1. CASE UNCHANGED vars
  BY <1>1 DEF vars, Listening, Serving, InFlight, Accepted
<1>2. CASE Crash
  BY <1>2 DEF Crash, Gone, Listening, Serving, InFlight, Accepted, NoSave
<1>3. CASE Bind
  BY <1>3, Binds, Constants DEF Listening, Serving
<1>4. ASSUME Next, ~Crash, ~Bind
      PROVE  ~Serving' => ~InFlight'
  <2>1. CASE Failing
    <3>1. ~Serving
      BY <2>1, FailingFrame DEF Listening, Provisioning
    <3> QED
      BY <2>1, <3>1, FailingFrame DEF Listening, InFlight, Accepted
  <2>2. CASE Drained
    BY <2>2 DEF Drained, InFlight, Accepted
  <2>3. CASE ~Failing /\ ~Drained
    BY <1>4, <2>3, LetIn, StackStays DEF Listening
  <2> QED
    BY <2>1, <2>2, <2>3
<1>8. ASSUME Next, ~Crash, ~Bind, ~Failing, ~Drained
      PROVE  /\ Serving' => boot'.pc \in {"install", "up", "drain"}
             /\ boot'.pc \in {"install", "up"} => Serving'
  <2>1. Serving' = Serving
    BY <1>8, StackStays
  <2>2. CASE Climb
    BY <2>1, <2>2, ClimbFrame DEF Listening, Provisioning
  <2>3. CASE Outside
    BY <2>1, <2>3, OutsideFrame DEF Listening
  <2>4. CASE Launch \/ Read \/ Install \/ \E o \in Ops : TakeDown(o)
    BY <1>8, <2>1, <2>4, Moves DEF Listening
  <2> QED
    BY <1>8, <2>2, <2>3, <2>4, Sides
<1>9. CASE Next /\ ~Crash /\ ~Bind
  <2>1. /\ Serving' => boot'.pc \in {"install", "up", "drain"}
        /\ boot'.pc \in {"install", "up"} => Serving'
    <3>1. CASE Failing
      BY <3>1, FailingFrame DEF Serving
    <3>2. CASE Drained
      BY <1>9, <3>2, Moves DEF Serving
    <3> QED
      BY <1>8, <1>9, <3>1, <3>2
  <2> QED
    BY <1>4, <1>9, <2>1 DEF Listening
<1> QED
  BY <1>1, <1>2, <1>3, <1>9
-----------------------------------------------------------------------------
(* Assets. *)

\* The place of an object is never one that is refused.
LEMMA Joins == SafeJoin(ObjectPath).ok
<1>1. ObjectPath # <<>> /\ DOMAIN ObjectPath = 1 .. 3
  BY DEF ObjectPath
<1>2. \A i \in 1 .. 3 : ObjectPath[i] \in {"9b", "6d", "object"}
  BY DEF ObjectPath
<1> QED
  BY <1>1, <1>2 DEF SafeJoin

\* Who changes the database: a wipe, where nobody is in flight, and the boot.
LEMMA DbMoves ==
  ASSUME TypeOK, Listening, Next
  PROVE  \/ UNCHANGED db
         \/ ~InFlight /\ ~Serving' /\ (Launch \/ Drained) /\ db' \in {db, Empty}
         \/ Climb
<1>1. CASE Launch
  <2>1. ~Serving
    BY <1>1, Moves DEF Listening
  <2>2. stack' = stack /\ db' \in {db, Empty}
    BY <1>1 DEF Launch
  <2> QED
    BY <1>1, <2>1, <2>2 DEF Listening, Serving
<1>2. CASE Drained
  BY <1>2 DEF Drained, Serving
<1>3. CASE Read \/ Failing \/ Bind \/ Install \/ Crash \/ Outside \/ \E o \in Ops : TakeDown(o)
  BY <1>3, FailingFrame, OutsideFrame DEF Read, Bind, Install, Crash, TakeDown
<1> QED
  BY <1>1, <1>2, <1>3, Sides

LEMMA StoredStep ==
  ASSUME IInv, Listening', [Next]_vars
  PROVE  Stored'
<1> USE TypeParts, Constants DEF IInv
<1>1. CASE UNCHANGED vars
  BY <1>1 DEF vars, Stored, AssetRight
<1>2. CASE Next
  <2>1. sc'.len = sc.len /\ sc.len \in Nat
    BY <1>2, Static DEF ScOK, Scenario
  <2>2. db'.asset \in {None, sc.len} /\ (InFlight => db'.asset = db.asset)
    <3>1. CASE Climb
      BY <3>1, ClimbFrame DEF Stored
    <3> QED
      BY <1>2, <3>1, DbMoves DEF Stored
  <2>3. get'.pc \in {"forward", "open"} => Serving'
    BY DEF Listening, InFlight
  <2>4. CASE UNCHANGED get
    BY <2>1, <2>2, <2>3, <2>4 DEF Stored, AssetRight, InFlight, Serving
  <2>5. CASE Crash
    BY <2>1, <2>2, <2>5 DEF Crash, Gone, GetOK, Stored, AssetRight
  <2>6. CASE AskAsset
    BY <2>1, <2>2, <2>6 DEF AskAsset, Stored, AssetRight, Serving
  <2>7. CASE Forward
    <3>3. get.pc = "forward" /\ stack # None /\ db.asset # None
      BY <2>1, <2>7 DEF Forward, Stored
    <3>1. get' = [get EXCEPT !.pc = "open"] /\ get.pc = "forward"
      BY <2>7, <3>3, Joins DEF Forward
    <3>2. get'.pc = "open"
      BY <3>1 DEF GetOK
    <3> QED
      BY <2>1, <2>2, <2>3, <2>7, <3>1, <3>2 DEF Stored, AssetRight, Serving, InFlight
  <2>8. CASE ServeAsset
    <3> DEFINE r == ServeStorageFile(sc.len, get.range, get.head)
    <3>1. db.asset = sc.len
      BY <2>8 DEF ServeAsset, Stored
    <3>2. get' = [get EXCEPT !.pc = "done", !.status = r.status, !.answer = r]
      BY <2>1, <2>8, <3>1 DEF ServeAsset
    <3>3. get.range \in AnyHeader /\ get.head \in BOOLEAN
      BY DEF GetOK, AnyHeader, Bound
    <3>4. r = Asked(sc.len, get.range, get.head)
      BY <2>1, <3>3, Served
    <3> HIDE DEF r
    <3>5. get'.pc = "done" /\ get'.answer = r /\ get'.range = get.range /\ get'.head = get.head
      BY <3>2 DEF GetOK
    <3> QED
      BY <2>1, <2>2, <3>4, <3>5 DEF Stored, AssetRight
  <2> QED
    BY <1>2, <2>4, <2>5, <2>6, <2>7, <2>8, GetMoves
<1> QED
  BY <1>1, <1>2

-----------------------------------------------------------------------------
(* Tokens, passwords and logins. *)

\* What the stack was built from stays while it runs.
LEMMA OutsideStack ==
  ASSUME TypeOK, Listening, Outside
  PROVE  /\ Serving' = Serving
         /\ Serving => /\ stack'.tok = stack.tok /\ stack'.key = stack.key
                       /\ stack'.flags = stack.flags /\ stack'.csp = stack.csp
<1>1. CASE UNCHANGED stack
  BY <1>1 DEF Serving
<1>2. ASSUME NEW i \in Saves, ApplySync(i) \/ ApplyRenders(i)
      PROVE  /\ Serving' = Serving
             /\ Serving => /\ stack'.tok = stack.tok /\ stack'.key = stack.key
                           /\ stack'.flags = stack.flags /\ stack'.csp = stack.csp
  BY <1>2, Applies, Constants DEF Serving
<1>3. ASSUME NEW l \in Logins, Bootstrap(l) \/ LoggedIn(l)
      PROVE  /\ Serving' = Serving
             /\ Serving => /\ stack'.tok = stack.tok /\ stack'.key = stack.key
                           /\ stack'.flags = stack.flags /\ stack'.csp = stack.csp
  BY <1>3, LogsIn, Constants DEF Serving
<1>4. CASE \E o \in Ops : Restarting(o)
  BY <1>1, <1>4 DEF Restarting, AskReboot, AskElsewhere, TakeDown, Unusable, Record
<1>5. CASE LoseSecret \/ SetReads \/ Polling \/ Fetching \/ Publish
  BY <1>1, <1>5 DEF LoseSecret, SetReads, Polling, PollLive, Load, Await, GiveUp, Fetching, AskAsset,
    Forward, ServeAsset, Publish
<1>6. ASSUME NEW i \in Saves, Saving(i), ~ApplySync(i), ~ApplyRenders(i)
      PROVE  UNCHANGED stack
  BY <1>6 DEF Saving, Click, SetPosts, Refused, PostPrefs, SaveFails, Answer
<1> QED
  BY <1>1, <1>2, <1>3, <1>4, <1>5, <1>6 DEF Outside

LEMMA TokensStep ==
  ASSUME IInv, Listening', [Next]_vars
  PROVE  Tokens'
<1> USE TypeParts, Constants DEF IInv
<1>1. CASE UNCHANGED <<db, boot, stack>>
  BY <1>1 DEF Tokens, Serving, Valid
<1>2. CASE Launch \/ Drained
  <2>1. ~Serving' /\ boot'.pc = "read"
    BY <1>2, Moves, Steps DEF Serving, Listening, Launch
  <2> QED
    BY <2>1 DEF Tokens, Provisioning
<1>3. CASE Read
  <2>1. boot.pc = "read" /\ boot'.pc = "services" /\ stack' = stack /\ ~Serving
    BY <1>3, Moves, Steps DEF Read, Listening
  <2>2. boot'.key \in Nat
    BY <1>3 DEF Read, BootOK, DiskOK, HistOK
  <2> QED
    BY <2>1, <2>2 DEF Tokens, Provisioning, Serving
<1>4. CASE Climb
  <2>1. ~Serving' /\ boot'.key \in Nat
    BY <1>4, ClimbFrame DEF Tokens, Provisioning, Listening, Serving
  <2>2. boot'.pc \in {"profile", "persist", "bind"} => <<boot'.creds.tok, boot'.key>> \in db'.keys
    <3>1. CASE StoredToken
      <4> DEFINE creds == IF disk.creds = NoCreds THEN [pw |-> hist.coin + 1, tok |-> None] ELSE disk.creds
      <4>1. PICK pc : /\ boot' = [boot EXCEPT !.creds = creds, !.pc = pc]
                      /\ pc = "bind" => Valid(creds.tok, boot.key)
                      /\ pc \in {"bind", "login"}
        BY <3>1 DEF StoredToken
      <4> HIDE DEF creds
      <4>2. boot'.pc = pc /\ boot'.creds = creds /\ boot'.key = boot.key /\ UNCHANGED db
        BY <3>1, <4>1 DEF StoredToken, BootOK
      <4> QED
        BY <4>1, <4>2 DEF Valid
    <3>2. CASE Mint
      BY <3>2 DEF Mint, BootOK, DbOK, Creds
    <3>3. CASE GetProfile \/ Persist
      BY <3>3 DEF GetProfile, Persist, BootTo, BootOK, Tokens, Valid
    <3>4. CASE Services \/ Login \/ Register \/ Relogin
      BY <3>4 DEF Services, Login, Register, Relogin, BootTo, BootOK
    <3> QED
      BY <1>4, <3>1, <3>2, <3>3, <3>4 DEF Climb
  <2> QED
    BY <2>1, <2>2 DEF Tokens, Valid
<1>5. CASE Failing
  BY <1>5, FailingFrame DEF Tokens, Serving, Provisioning
<1>6. CASE Bind
  BY <1>6, Binds DEF Tokens, Provisioning, Valid
<1>7. CASE Crash
  BY <1>7, Moves, Steps DEF Tokens, Serving, Provisioning, Crash, Gone
<1>8. CASE Install \/ \E o \in Ops : TakeDown(o)
  <2>1. UNCHANGED <<db, stack>>
    BY <1>8 DEF Install, TakeDown
  <2>2. boot'.pc \notin Provisioning /\ boot'.pc \notin {"profile", "persist", "bind"}
    BY <1>8, Moves, Steps, Sides DEF Provisioning
  <2> QED
    BY <2>1, <2>2 DEF Tokens, Serving, Valid
<1>9. CASE Outside
  BY <1>9, OutsideFrame, OutsideStack DEF Tokens, Valid
<1> QED
  BY <1>1, <1>2, <1>3, <1>4, <1>5, <1>6, <1>7, <1>8, <1>9, Sides DEF vars
\* Nobody but the boot writes the credentials.
LEMMA OutsideCreds ==
  ASSUME TypeOK, Outside
  PROVE  disk'.creds = disk.creds
<1> USE TypeParts DEF DiskOK
<1>1. CASE Publish \/ LoseSecret \/ SetReads \/ Polling \/ Fetching
  BY <1>1 DEF Publish, LoseSecret, SetReads, Polling, PollLive, Load, Await, GiveUp, Fetching, AskAsset,
    Forward, ServeAsset
<1>2. CASE \E o \in Ops : Restarting(o) /\ ~TakeDown(o)
  BY <1>2 DEF Restarting, AskReboot, AskElsewhere, Unusable, Record
<1>3. CASE \E i \in Saves : Saving(i)
  BY <1>3 DEF Saving, Click, SetPosts, Refused, PostPrefs, SaveFails, ApplySync, ApplyRenders, Answer
<1>4. CASE \E l \in Logins : Bootstrap(l) \/ LoggedIn(l)
  BY <1>4 DEF Bootstrap, LoggedIn
<1> QED
  BY <1>1, <1>2, <1>3, <1>4 DEF Outside

\* The credentials the boot goes on with are those of the disk, or new ones.
LEMMA Takes ==
  ASSUME TypeOK, StoredToken
  PROVE  /\ boot.pc = "token" /\ boot'.pc \in {"bind", "login"} /\ disk.creds # Torn
         /\ disk.creds # NoCreds => boot'.creds = disk.creds
         /\ hist'.locked = (disk.creds = NoCreds /\ db.user # None) /\ hist'.hit = hist.hit
         /\ UNCHANGED <<db, disk>>
<1> DEFINE fresh == disk.creds = NoCreds
           creds == IF fresh THEN [pw |-> hist.coin + 1, tok |-> None] ELSE disk.creds
<1>1. PICK pc \in {"bind", "login"} : boot' = [boot EXCEPT !.creds = creds, !.pc = pc]
  BY DEF StoredToken
<1>2. PICK coin : hist' = [hist EXCEPT !.coin = coin, !.locked = fresh /\ db.user # None]
  BY DEF StoredToken
<1>3. boot'.pc = pc /\ boot'.creds = creds
  BY <1>1, TypeParts DEF BootOK
<1>4. hist'.locked = (fresh /\ db.user # None) /\ hist'.hit = hist.hit
  BY <1>2, TypeParts DEF HistOK
<1> QED
  BY <1>3, <1>4 DEF StoredToken

LEMMA PasswordsStep ==
  ASSUME IInv, [Next]_vars
  PROVE  Passwords'
<1> USE TypeParts, Constants DEF IInv
<1>1. CASE UNCHANGED <<db, boot>> /\ disk'.creds = disk.creds
  BY <1>1 DEF Passwords
<1>2. CASE Launch \/ Drained \/ Read
  <2>1. boot'.pc \in {"read", "services"}
    BY <1>2, Moves, Steps
  <2>2. disk'.creds = disk.creds /\ db' \in {db, Empty}
    BY <1>2 DEF Launch, Drained, Read, DiskOK
  <2>3. Empty.user = None
    BY DEF Empty
  <2> QED
    BY <2>1, <2>2, <2>3 DEF Passwords
<1>3. CASE Climb
  <2>1. CASE StoredToken
    BY <2>1, Takes DEF Passwords
  <2>2. CASE Services
    BY <2>2 DEF Services, BootTo, BootOK, Passwords
  <2>3. CASE Login
    <3>1. /\ boot.pc = "login" /\ boot'.creds = boot.creds /\ UNCHANGED <<db, disk>>
          /\ boot'.pc = "register" \/ (boot'.pc = "mint" /\ db.user = boot.creds.pw)
      BY <2>3 DEF Login, BootTo, BootOK
    <3> QED
      BY <3>1 DEF Passwords
  <2>4. CASE Register
    <3>1. /\ boot.pc = "register" /\ boot'.creds = boot.creds /\ boot'.pc \in {"mint", "relogin"}
          /\ db'.user = boot.creds.pw /\ UNCHANGED disk
      BY <2>4 DEF Register, BootTo, BootOK, DbOK
    <3> QED
      BY <3>1 DEF Passwords
  <2>5. CASE Relogin \/ Mint \/ GetProfile
    <3>1. /\ boot.pc \in {"relogin", "mint", "profile"} /\ boot'.pc \in {"mint", "profile", "persist"}
          /\ boot'.creds.pw = boot.creds.pw /\ db'.user = db.user /\ UNCHANGED disk
      <4>1. CASE Relogin \/ GetProfile
        BY <4>1 DEF Relogin, GetProfile, BootTo, BootOK
      <4>2. CASE Mint
        BY <4>2 DEF Mint, BootOK, Creds, DbOK
      <4> QED
        BY <2>5, <4>1, <4>2
    <3> QED
      BY <3>1 DEF Passwords
  <2>6. CASE Persist
    <3>1. boot.pc = "persist" /\ boot'.pc = "bind" /\ disk'.creds = boot.creds /\ UNCHANGED db
      BY <2>6 DEF Persist, BootTo, BootOK, DiskOK
    <3> QED
      BY <3>1 DEF Passwords
  <2> QED
    BY <1>3, <2>1, <2>2, <2>3, <2>4, <2>5, <2>6 DEF Climb
<1>4. CASE Failing
  <2>1. disk'.creds \in {disk.creds, Torn} /\ UNCHANGED db /\ boot'.pc \in {"off", "failed"}
    BY <1>4, FailingFrame DEF DiskOK
  <2> QED
    BY <2>1 DEF Passwords
<1>5. CASE Crash
  <2>1. disk'.creds \in {disk.creds, Torn} /\ UNCHANGED db /\ boot'.pc = "off"
    BY <1>5, Moves, Steps DEF Crash, DiskOK
  <2> QED
    BY <2>1 DEF Passwords
<1>6. CASE Bind \/ Install \/ \E o \in Ops : TakeDown(o)
  <2>1. boot'.pc \in {"install", "up", "drain"} /\ UNCHANGED db
    BY <1>6, Binds, Moves, Steps, Sides DEF Bind, Install, TakeDown
  <2>2. disk'.creds = disk.creds
    BY <1>6 DEF Bind, Install, TakeDown, DiskOK
  <2> QED
    BY <2>1, <2>2 DEF Passwords
<1>7. CASE Outside
  <2>1. disk'.creds = disk.creds
    BY <1>7, OutsideCreds
  <2> QED
    BY <1>1, <1>7, <2>1, OutsideFrame
<1> QED
  BY <1>1, <1>2, <1>3, <1>4, <1>5, <1>6, <1>7, Sides DEF vars
LEMMA RefusalsStep ==
  ASSUME IInv, [Next]_vars
  PROVE  Refusals'
<1> USE TypeParts, Constants DEF IInv
<1>1. CASE boot'.pc \notin {"login", "register"}
  BY <1>1 DEF Refusals
<1>2. CASE UNCHANGED <<db, boot>> /\ hist'.hit = hist.hit /\ hist'.locked = hist.locked
  BY <1>2 DEF Refusals
<1>3. CASE Climb
  <2>1. CASE StoredToken
    BY <2>1, Takes DEF Refusals, Passwords, DiskOK
  <2>2. CASE Login
    <3>1. boot.pc = "login" /\ boot'.creds = boot.creds /\ UNCHANGED db
      BY <2>2 DEF Login, BootTo, BootOK
    <3>2. \/ boot'.pc = "mint"
          \/ boot'.pc = "register" /\ db.user # boot.creds.pw /\ UNCHANGED hist
          \/ boot'.pc = "register" /\ hist'.hit
      BY <2>2 DEF Login, BootTo, BootOK, HistOK
    <3> QED
      BY <3>1, <3>2 DEF Refusals
  <2>3. CASE Services \/ Register \/ Relogin \/ Mint \/ GetProfile \/ Persist
    <3>1. boot'.pc \in {"token", "mint", "relogin", "profile", "persist", "bind"}
      BY <2>3 DEF Services, Register, Relogin, Mint, GetProfile, Persist, BootTo, BootOK
    <3> QED
      BY <1>1, <3>1
  <2> QED
    BY <1>3, <2>1, <2>2, <2>3 DEF Climb
<1>4. CASE Launch \/ Drained \/ Read \/ Failing \/ Crash \/ Bind \/ Install \/ \E o \in Ops : TakeDown(o)
  BY <1>1, <1>4, Moves, Binds, FailingFrame, Sides
<1>5. CASE Outside
  <2>1. UNCHANGED <<db, boot>>
    BY <1>5, OutsideFrame
  <2>2. CASE SetReads \/ Publish \/ LoseSecret \/ Polling \/ Fetching
    BY <1>2, <2>1, <2>2 DEF SetReads, HistOK, Publish, LoseSecret, Polling, PollLive, Load, Await, GiveUp, Fetching,
      AskAsset, Forward, ServeAsset
  <2>3. CASE \E o \in Ops : Restarting(o) /\ ~TakeDown(o)
    BY <1>2, <2>1, <2>3 DEF Restarting, AskReboot, AskElsewhere, Unusable, Record, HistOK
  <2>4. CASE \E i \in Saves : Saving(i)
    BY <1>2, <2>1, <2>4, SaveHist
  <2>5. CASE \E l \in Logins : Bootstrap(l) \/ LoggedIn(l)
    BY <1>2, <2>1, <2>5, LogsIn
  <2> QED
    BY <1>5, <2>2, <2>3, <2>4, <2>5 DEF Outside
<1> QED
  BY <1>2, <1>3, <1>4, <1>5, Sides DEF vars

\* Sessions are counted per stack.
LEMMA OneLoginStep ==
  ASSUME IInv, Listening', [Next]_vars
  PROVE  OneLogin'
<1> USE TypeParts, Constants DEF IInv
<1>1. CASE UNCHANGED login /\ hist'.sessions = hist.sessions /\ (Serving' => Serving /\ stack'.used = stack.used)
  <2>1. ASSUME NEW l \in Logins, login'[l] = "asking"
        PROVE  hist'.sessions = 0 /\ stack'.used /\ \A m \in Logins \ {l} : login'[m] # "asking"
    <3>1. InFlight'
      BY <2>1 DEF InFlight
    <3>2. Serving'
      BY <3>1 DEF Listening
    <3> QED
      BY <1>1, <2>1, <3>2 DEF OneLogin
  <2> QED
    BY <1>1, <2>1 DEF OneLogin
<1>2. CASE Bind
  <2>1. hist'.sessions = 0 /\ \A l \in Logins : login'[l] = "idle"
    BY <1>2, Binds DEF HistOK
  <2> QED
    BY <2>1 DEF OneLogin
<1>3. CASE Crash
  <2>1. hist'.sessions = hist.sessions /\ stack' = None /\ \A l \in Logins : login'[l] = "idle"
    BY <1>3 DEF Crash, Gone, HistOK
  <2> QED
    BY <2>1 DEF OneLogin, Serving
<1>4. ASSUME NEW l \in Logins, Bootstrap(l)
      PROVE  OneLogin'
  <2>1. Serving /\ UNCHANGED hist /\ stack'.used
    BY <1>4, LogsIn, Constants DEF Bootstrap, Serving, Stack
  <2>2. CASE stack.used
    <3>1. login' = [login EXCEPT ![l] = "refused"]
      BY <1>4, <2>2 DEF Bootstrap
    <3> QED
      BY <2>1, <2>2, <3>1 DEF OneLogin, LoginOK
  <2>3. CASE ~stack.used
    <3>1. login' = [login EXCEPT ![l] = "asking"]
      BY <1>4, <2>3 DEF Bootstrap
    <3>2. hist.sessions = 0 /\ \A m \in Logins : login[m] # "asking"
      BY <2>1, <2>3 DEF OneLogin
    <3> QED
      BY <2>1, <3>1, <3>2 DEF OneLogin, LoginOK
  <2> QED
    BY <2>2, <2>3
<1>5. ASSUME NEW l \in Logins, LoggedIn(l)
      PROVE  OneLogin'
  <2>1. login[l] = "asking" /\ hist.sessions = 0 /\ stack.used /\ \A m \in Logins \ {l} : login[m] # "asking"
    BY <1>5 DEF LoggedIn, OneLogin
  <2>2. \E s \in {"home", "idle"} : login' = [login EXCEPT ![l] = s]
    BY <1>5 DEF LoggedIn
  <2>3. \A m \in Logins : login'[m] # "asking"
    BY <2>1, <2>2 DEF LoginOK
  <2>4. \/ hist' = [hist EXCEPT !.sessions = 1] /\ stack' = stack
        \/ UNCHANGED hist
    BY <1>5, <2>1 DEF LoggedIn
  <2>5. \/ hist'.sessions = 1 /\ stack'.used
        \/ hist'.sessions = 0
    BY <2>1, <2>4 DEF HistOK
  <2> QED
    BY <2>3, <2>5 DEF OneLogin
<1>6. CASE Launch \/ Read \/ Install \/ Drained \/ Climb \/ Failing
  <2>1. UNCHANGED login /\ (stack' = stack \/ stack' = None)
    BY <1>6, ClimbFrame, FailingFrame DEF Launch, Read, Install, Drained
  <2>2. hist'.sessions = hist.sessions
    BY <1>6, ClimbFrame, FailingFrame DEF Launch, Read, Install, Drained, HistOK
  <2> QED
    BY <1>1, <2>1, <2>2 DEF Serving
<1>7. ASSUME NEW i \in Saves, Saving(i)
      PROVE  OneLogin'
  <2>1. UNCHANGED login /\ hist'.sessions = hist.sessions
    BY <1>7, SaveHist DEF Saving, Click, SetPosts, Refused, PostPrefs, SaveFails, ApplySync, ApplyRenders, Answer
  <2>2. stack' = stack \/ (Serving /\ stack'.used = stack.used)
    <3>1. CASE ApplySync(i) \/ ApplyRenders(i)
      BY <3>1, Applies, Constants DEF Serving
    <3> QED
      BY <1>7, <3>1 DEF Saving, Click, SetPosts, Refused, PostPrefs, SaveFails, Answer
  <2> QED
    BY <1>1, <2>1, <2>2 DEF Serving
<1>8. CASE SetReads \/ Publish \/ LoseSecret \/ Polling \/ Fetching
  <2>1. UNCHANGED <<login, stack>> /\ hist'.sessions = hist.sessions
    BY <1>8 DEF SetReads, HistOK, Publish, LoseSecret, Polling, PollLive, Load, Await, GiveUp, Fetching,
      AskAsset, Forward, ServeAsset
  <2> QED
    BY <1>1, <2>1 DEF Serving
<1>9. CASE \E o \in Ops : Restarting(o)
  <2>1. UNCHANGED <<login, stack>> /\ hist'.sessions = hist.sessions
    BY <1>9 DEF Restarting, AskReboot, AskElsewhere, TakeDown, Unusable, Record, HistOK
  <2> QED
    BY <1>1, <2>1 DEF Serving
<1> QED
  BY <1>1, <1>2, <1>3, <1>4, <1>5, <1>6, <1>7, <1>8, <1>9, Steps DEF vars, Serving
-----------------------------------------------------------------------------
(* Restarts and what the page says of them. *)

\* A restart moves on, and the others stay where they are.
LEMMA OpTurns ==
  ASSUME TypeOK, NEW o \in Ops, Restarting(o)
  PROVE  /\ \A q \in Ops \ {o} : op'[q] = op[q]
         /\ \/ AskReboot(o) /\ op[o].pc = "idle" /\ op'[o].pc = "lock"
            \/ AskElsewhere(o) /\ op[o].pc = "idle" /\ op'[o].pc = "lock"
            \/ TakeDown(o) /\ op[o].pc = "lock" /\ op'[o].pc = "run"
            \/ Unusable(o) /\ op[o].pc = "lock" /\ op'[o].pc = "record"
            \/ Record(o) /\ op[o].pc = "record" /\ op'[o].pc = "end" /\ op'[o].ok = op[o].ok
<1> USE TypeParts DEF OpOK, OpTo
<1>1. CASE AskReboot(o)
  BY <1>1 DEF AskReboot
<1>2. CASE AskElsewhere(o)
  BY <1>2 DEF AskElsewhere
<1>3. CASE TakeDown(o)
  BY <1>3 DEF TakeDown
<1>4. CASE Unusable(o)
  BY <1>4 DEF Unusable
<1>5. CASE Record(o)
  BY <1>5 DEF Record
<1> QED
  BY <1>1, <1>2, <1>3, <1>4, <1>5 DEF Restarting

LEMMA RunningStep ==
  ASSUME IInv, [Next]_vars
  PROVE  Running'
<1> USE TypeParts, Constants DEF IInv
<1>1. hist.reads \in Nat /\ hist.clicked \in Nat /\ boot.by \in {0} \cup Ops
  BY DEF HistOK, BootOK
<1>2. CASE UNCHANGED <<boot, op>> /\ hist'.reads = hist.reads /\ hist'.clicked = hist.clicked
  BY <1>2 DEF Running
<1>3. CASE Launch \/ Drained
  <2>1. UNCHANGED <<op, hist>> /\ boot'.pc = "read" /\ (boot'.by = 0 \/ (boot'.by = boot.by /\ boot.pc = "drain"))
    BY <1>3, Moves, Steps DEF Launch, Drained
  <2> QED
    BY <2>1 DEF Running
<1>4. CASE Read
  <2>1. boot.pc = "read" /\ boot'.pc = "services" /\ boot'.by = boot.by /\ UNCHANGED op
    BY <1>4, Moves, Steps DEF Read
  <2>2. hist'.reads = hist.reads + 1 /\ hist'.clicked = hist.clicked
    BY <1>4 DEF Read, HistOK
  <2> QED
    BY <1>1, <2>1, <2>2 DEF Running
<1>5. CASE Climb
  BY <1>5, ClimbFrame DEF Running, Provisioning
<1>6. CASE Failing
  <2>1. boot'.by = 0 /\ boot'.pc \in {"off", "failed"} /\ hist'.reads = hist.reads /\ hist'.clicked = hist.clicked
    BY <1>6, FailingFrame DEF HistOK
  <2> QED
    BY <2>1 DEF Running
<1>7. CASE Bind
  <2>1. hist'.reads = hist.reads /\ hist'.clicked = hist.clicked
    BY <1>7, Binds DEF HistOK
  <2> QED
    BY <1>7, <2>1, Binds DEF Running
<1>8. CASE Install
  <2>1. UNCHANGED hist
    BY <1>8 DEF Install
  <2> QED
    BY <1>8, <2>1, Moves, Steps DEF Running
<1>9. CASE Crash
  <2>1. hist'.reads = hist.reads /\ hist'.clicked = hist.clicked
    BY <1>9 DEF Crash, Gone, HistOK
  <2> QED
    BY <1>9, <2>1, Moves, Steps DEF Running
<1>10. ASSUME NEW o \in Ops, TakeDown(o)
       PROVE  Running'
  <2>1. UNCHANGED hist /\ o # 0
    BY <1>10 DEF TakeDown, Ops
  <2>2. op'[o].pc = "run"
    BY <1>10 DEF TakeDown, OpTo, OpOK
  <2>3. boot'.pc = "drain" /\ boot'.by = o
    BY <1>10, Moves, Steps DEF Restarting
  <2> QED
    BY <2>1, <2>2, <2>3 DEF Running
<1>11. CASE Outside
  <2>1. UNCHANGED boot
    BY <1>11, OutsideFrame
  <2>2. ASSUME NEW o \in Ops, Restarting(o), ~TakeDown(o)
        PROVE  Running'
    <3>1. \A q \in Ops : op[q].pc = "run" => op'[q].pc = "run"
      BY <2>2, OpTurns
    <3>2. hist'.reads = hist.reads /\ hist'.clicked \in {hist.clicked, hist.reads}
      BY <2>2 DEF Restarting, AskReboot, AskElsewhere, Unusable, Record, HistOK
    <3> QED
      BY <1>1, <2>1, <3>1, <3>2 DEF Running
  <2>3. CASE SetReads \/ Publish \/ LoseSecret \/ Polling \/ Fetching
    BY <1>2, <2>1, <2>3 DEF SetReads, HistOK, Publish, LoseSecret, Polling, PollLive, Load, Await, GiveUp, Fetching,
      AskAsset, Forward, ServeAsset
  <2>4. ASSUME NEW i \in Saves, Saving(i)
        PROVE  Running'
    <3>1. UNCHANGED op
      BY <2>4 DEF Saving, Click, SetPosts, Refused, PostPrefs, SaveFails, ApplySync, ApplyRenders, Answer
    <3> QED
      BY <1>2, <2>1, <2>4, <3>1, SaveHist
  <2>5. CASE \E l \in Logins : Bootstrap(l) \/ LoggedIn(l)
    BY <1>2, <2>1, <2>5, LogsIn
  <2> QED
    BY <1>11, <2>2, <2>3, <2>4, <2>5 DEF Outside
<1> QED
  BY <1>2, <1>3, <1>4, <1>5, <1>6, <1>7, <1>8, <1>9, <1>10, <1>11, Sides DEF vars
\* Where neither the restarts nor the page nor the last outcome move, the
\* outcomes stay right.
LEMMA OutcomesStay ==
  ASSUME IInv, [Next]_vars, UNCHANGED op, disk'.op = disk.op,
         page'.wait = page.wait, page'.base = page.base, page'.told = page.told,
         hist'.alone = hist.alone, hist'.clicked = hist.clicked, hist.reads <= hist'.reads,
         \/ boot'.pc \in {"off", "drain", "read"}
         \/ hist'.clicked < hist'.reads
         \/ boot'.by = boot.by /\ boot.pc \notin {"off", "drain", "read"}
  PROVE  Outcomes'
<1> USE TypeParts, Static DEF IInv
<1>1. hist.reads \in Nat /\ hist'.reads \in Nat /\ hist.clicked \in Nat
  BY HistStep DEF HistOK
<1>2. ASSUME NEW o \in Ops, Mine(o)
      PROVE  Mine(o)'
  <2>1. \A q \in Ops' \ {o} : Recorded(sc.ops[q])' => op'[q].pc \in {"idle", "end"}
    BY <1>2 DEF Mine, Recorded
  <2>2. op'[o].pc \in {"record", "end"} /\ op'[o].ok => hist'.clicked < hist'.reads
    BY <1>1, <1>2 DEF Mine
  <2>3. boot'.by = o /\ boot'.pc \notin {"off", "drain", "read"} => hist'.clicked < hist'.reads
    BY <1>1, <1>2 DEF Mine
  <2> QED
    BY <1>2, <2>1, <2>2, <2>3 DEF Mine
<1>3. hist.alone => OutcomeTold'
  BY <1>1 DEF Outcomes, OutcomeTold
<1> QED
  BY <1>2, <1>3 DEF Outcomes

LEMMA OutcomesStep ==
  ASSUME IInv, [Next]_vars
  PROVE  Outcomes'
<1> USE TypeParts, Constants, Static DEF IInv
<1>1. /\ hist.reads \in Nat /\ hist.clicked \in Nat /\ hist'.reads \in Nat /\ hist'.clicked \in Nat
      /\ hist.clicked <= hist.reads
  BY HistStep DEF HistOK, Running
<1>2. CASE UNCHANGED vars
  <2>1. \/ boot'.pc \in {"off", "drain", "read"}
        \/ boot'.by = boot.by /\ boot.pc \notin {"off", "drain", "read"}
    BY <1>2 DEF vars
  <2> QED
    BY <1>1, <1>2, <2>1, OutcomesStay DEF vars
<1>3. CASE Launch \/ Drained
  <2>1. boot'.pc = "read" /\ UNCHANGED <<op, page, hist, disk>>
    BY <1>3, Moves, Steps DEF Launch, Drained
  <2> QED
    BY <1>1, <2>1, OutcomesStay
<1>4. CASE Read
  <2>1. UNCHANGED <<op, page>> /\ disk'.op = disk.op
    BY <1>4 DEF Read, DiskOK
  <2>2. hist'.reads = hist.reads + 1 /\ hist'.clicked = hist.clicked /\ hist'.alone = hist.alone
    BY <1>4 DEF Read, HistOK
  <2> QED
    BY <1>1, <2>1, <2>2, OutcomesStay
<1>5. CASE Climb
  <2>1. boot.pc \notin {"off", "drain", "read"}
    BY <1>5, ClimbFrame DEF Provisioning
  <2> QED
    BY <1>1, <1>5, <2>1, ClimbFrame, OutcomesStay
<1>6. CASE Bind
  <2>1. hist'.reads = hist.reads /\ hist'.clicked = hist.clicked /\ hist'.alone = hist.alone
    BY <1>6, Binds DEF HistOK
  <2> QED
    BY <1>1, <1>6, <2>1, Binds, OutcomesStay
<1>7. ASSUME NEW b \in BOOLEAN, boot.pc # "off", boot'.by = 0, UNCHANGED page, disk'.op = disk.op,
             op' = IF boot.by = 0 THEN op ELSE [op EXCEPT ![boot.by] = [pc |-> "record", ok |-> b]],
             b => boot.pc \notin {"off", "drain", "read"},
             hist'.alone = hist.alone, hist'.clicked = hist.clicked, hist'.reads = hist.reads
      PROVE  Outcomes'
  <2>1. SUFFICES ASSUME hist.alone PROVE OutcomeTold' /\ \E o \in Ops' : Mine(o)'
    BY <1>7 DEF Outcomes
  <2>2. PICK o \in Ops : Mine(o)
    BY <2>1 DEF Outcomes
  <2>3. boot.by # 0 => boot.by \in Ops /\ op[boot.by].pc = "run"
    BY <1>7 DEF Running, BootOK
  <2>4. \A q \in Ops : IF boot.by = q THEN op[q].pc = "run" /\ op'[q] = [pc |-> "record", ok |-> b]
                       ELSE op'[q] = op[q]
    BY <1>7, <2>3 DEF OpOK, Ops
  <2>5. Mine(o)'
    <3>1. \A q \in Ops' \ {o} : Recorded(sc.ops[q])' => op'[q].pc \in {"idle", "end"}
      BY <2>2, <2>4 DEF Mine, Recorded
    <3>2. op'[o].pc \in {"record", "end"} /\ op'[o].ok => hist'.clicked < hist'.reads
      BY <1>7, <2>2, <2>4 DEF Mine
    <3>3. boot'.by # o
      BY <1>7 DEF Ops
    <3>4. page'.wait => \/ disk'.op.seq = page'.base
                        \/ op'[o].pc = "end" /\ disk'.op.kind = "reboot" /\ disk'.op.ok = op'[o].ok
      BY <1>7, <2>2, <2>4 DEF Mine
    <3> QED
      BY <2>2, <3>1, <3>2, <3>3, <3>4 DEF Mine
  <2>6. OutcomeTold'
    <3>1. page'.told = "failed" => \E q \in Ops : sc.ops[q] = "reboot" /\ op'[q].pc = "end" /\ ~op'[q].ok
      BY <1>7, <2>1, <2>4 DEF Outcomes, OutcomeTold
    <3> QED
      BY <1>7, <2>1, <3>1 DEF Outcomes, OutcomeTold
  <2> QED
    BY <2>5, <2>6
<1>8. CASE Failing
  <2>1. /\ boot.pc # "off" /\ disk'.op = disk.op
        /\ hist'.alone = hist.alone /\ hist'.clicked = hist.clicked /\ hist'.reads = hist.reads
    <3>1. boot.pc # "off"
      BY <1>8, FailingFrame DEF Provisioning
    <3>2. disk'.op = disk.op
      BY <1>8, FailingFrame DEF DiskOK
    <3>3. hist'.alone = hist.alone /\ hist'.clicked = hist.clicked /\ hist'.reads = hist.reads
      BY <1>8, FailingFrame DEF HistOK
    <3> QED
      BY <3>1, <3>2, <3>3
  <2> QED
    <3>1. /\ boot'.by = 0 /\ UNCHANGED page
          /\ op' = IF boot.by = 0 THEN op ELSE [op EXCEPT ![boot.by] = [pc |-> "record", ok |-> FALSE]]
      BY <1>8, FailingFrame
    <3> QED
      BY <1>7, <2>1, <3>1
<1>9. CASE Install
  <2>1. boot.pc = "install" /\ boot'.by = 0 /\ UNCHANGED <<page, hist>> /\ disk'.op = disk.op
    BY <1>9, Moves, Steps DEF Install, DiskOK
  <2> QED
    BY <1>7, <1>9, <2>1 DEF Install
<1>10. CASE Crash
  <2>1. /\ page'.told = "none" /\ ~page'.wait /\ boot'.pc = "off" /\ hist'.alone = hist.alone
        /\ hist'.clicked = hist.clicked /\ hist'.reads = hist.reads
    BY <1>10, Moves, Steps DEF Crash, Gone, PageOK, HistOK
  <2>2. \A q \in Ops : \/ op'[q] = op[q] /\ op[q].pc = "idle"
                       \/ op'[q] = [pc |-> "end", ok |-> FALSE]
    BY <1>10 DEF Crash, Gone
  <2>3. ASSUME NEW o \in Ops, Mine(o)
        PROVE  Mine(o)'
    BY <2>1, <2>2, <2>3 DEF Mine
  <2> QED
    BY <2>1, <2>3 DEF Outcomes, OutcomeTold
<1>11. CASE UNCHANGED boot /\ UNCHANGED op /\ disk'.op = disk.op
            /\ page'.wait = page.wait /\ page'.base = page.base /\ page'.told = page.told
            /\ hist'.alone = hist.alone /\ hist'.clicked = hist.clicked /\ hist'.reads = hist.reads
  <2>1. \/ boot'.pc \in {"off", "drain", "read"}
        \/ boot'.by = boot.by /\ boot.pc \notin {"off", "drain", "read"}
    BY <1>11
  <2> QED
    BY <1>1, <1>11, <2>1, OutcomesStay
<1>12. ASSUME NEW i \in Saves, Saving(i)
       PROVE  Outcomes'
  <2>1. UNCHANGED <<boot, op>> /\ disk'.op = disk.op
    BY <1>12 DEF Saving, Click, SetPosts, Refused, PostPrefs, SaveFails, ApplySync, ApplyRenders, Answer, DiskOK
  <2>2. page'.wait = page.wait /\ page'.base = page.base /\ page'.told = page.told
    BY <1>12 DEF Saving, Click, SetPosts, Refused, PostPrefs, SaveFails, ApplySync, ApplyRenders, Answer, PageOK
  <2> QED
    BY <1>11, <1>12, <2>1, <2>2, SaveHist
<1>13. CASE Publish \/ LoseSecret \/ SetReads \/ Fetching \/ PollLive
  <2>1. UNCHANGED <<boot, op>> /\ disk'.op = disk.op
    BY <1>13 DEF Publish, LoseSecret, SetReads, Fetching, AskAsset, Forward, ServeAsset, PollLive, DiskOK
  <2>2. page'.wait = page.wait /\ page'.base = page.base /\ page'.told = page.told
    BY <1>13 DEF Publish, LoseSecret, SetReads, Fetching, AskAsset, Forward, ServeAsset, PollLive, PageOK
  <2>3. hist'.alone = hist.alone /\ hist'.clicked = hist.clicked /\ hist'.reads = hist.reads
    BY <1>13 DEF Publish, LoseSecret, SetReads, Fetching, AskAsset, Forward, ServeAsset, PollLive, HistOK
  <2> QED
    BY <1>11, <2>1, <2>2, <2>3
<1>14. CASE \E l \in Logins : Bootstrap(l) \/ LoggedIn(l)
  BY <1>11, <1>14, LogsIn
<1>15. ASSUME NEW p \in Ops, Restarting(p), ~AskReboot(p)
       PROVE  Outcomes'
  <2>1. SUFFICES ASSUME hist'.alone PROVE OutcomeTold' /\ \E o \in Ops' : Mine(o)'
    BY DEF Outcomes
  <2>2. /\ UNCHANGED page /\ hist'.reads = hist.reads /\ hist'.clicked = hist.clicked
        /\ hist.alone /\ (AskElsewhere(p) => ~Recorded(sc.ops[p]))
    BY <1>15, <2>1 DEF Restarting, AskElsewhere, TakeDown, Unusable, Record, HistOK
  <2>3. \A q \in Ops \ {p} : op'[q] = op[q]
    BY <1>15, OpTurns
  <2>4. PICK o \in Ops : Mine(o)
    BY <2>2 DEF Outcomes
  <2>5. op[p].pc # "end"
    BY <1>15, OpTurns
  <2>6. OutcomeTold'
    <3>1. page'.told = "failed" => \E q \in Ops : sc.ops[q] = "reboot" /\ op'[q].pc = "end" /\ ~op'[q].ok
      BY <2>2, <2>3, <2>5 DEF Outcomes, OutcomeTold
    <3> QED
      BY <2>2, <3>1 DEF Outcomes, OutcomeTold
  <2>7. \A q \in Ops' \ {o} : Recorded(sc.ops[q])' => op'[q].pc \in {"idle", "end"}
    <3>1. CASE p = o
      BY <2>3, <2>4, <3>1 DEF Mine, Recorded
    <3>2. CASE p # o
      <4>1. ~Recorded(sc.ops[p]) \/ op[p].pc = "idle"
        BY <1>15, <2>4, <2>5, <3>2 DEF Mine
      <4>2. ~Recorded(sc.ops[p])
        BY <1>15, <2>2, <4>1, OpTurns
      <4> QED
        BY <2>3, <2>4, <4>2 DEF Mine, Recorded
    <3> QED
      BY <3>1, <3>2
  <2>8. p = o => TakeDown(p) \/ Record(p)
    <3>1. AskElsewhere(p) => sc.ops[p] # "reboot"
      BY DEF AskElsewhere
    <3>2. Unusable(p) => sc.ops[p] # "reboot"
      BY DEF Unusable, Switches
    <3> QED
      BY <1>15, <2>4, <3>1, <3>2 DEF Mine, Restarting
  <2>9. op'[o].pc \in {"record", "end"} /\ op'[o].ok => hist'.clicked < hist'.reads
    <3>1. CASE p = o
      <4>1. \/ op'[o].pc = "run"
            \/ op[o].pc = "record" /\ op'[o].ok = op[o].ok
        BY <2>8, <3>1 DEF TakeDown, Record, OpTo, OpOK
      <4> QED
        BY <2>2, <2>4, <4>1 DEF Mine
    <3>2. CASE p # o
      BY <2>2, <2>3, <2>4, <3>2 DEF Mine
    <3> QED
      BY <3>1, <3>2
  <2>10. boot'.by = o /\ boot'.pc \notin {"off", "drain", "read"} => hist'.clicked < hist'.reads
    <3>1. CASE TakeDown(p)
      BY <3>1, Moves, Steps DEF Restarting
    <3>2. CASE ~TakeDown(p)
      <4>1. UNCHANGED boot
        BY <1>15, <3>2, OutsideFrame DEF Outside
      <4> QED
        BY <2>2, <2>4, <4>1 DEF Mine
    <3> QED
      BY <3>1, <3>2
  <2>11. page'.wait => \/ disk'.op.seq = page'.base
                       \/ op'[o].pc = "end" /\ disk'.op.kind = "reboot" /\ disk'.op.ok = op'[o].ok
    <3>1. CASE Record(p) /\ p = o
      <4>1. disk' = [disk EXCEPT !.op = [seq |-> @.seq + 1, kind |-> sc.ops[o], ok |-> op[o].ok]]
        BY <2>4, <3>1 DEF Record, Mine, Recorded
      <4>2. disk'.op.kind = "reboot" /\ disk'.op.ok = op[o].ok
        BY <2>4, <4>1 DEF Mine, DiskOK
      <4>3. op'[o].pc = "end" /\ op'[o].ok = op[o].ok
        BY <3>1 DEF Record, OpTo, OpOK
      <4> QED
        BY <4>2, <4>3
    <3>2. CASE ~(Record(p) /\ p = o)
      <4>1. disk'.op = disk.op
        <5>1. CASE Record(p)
          BY <2>4, <3>2, <5>1 DEF Record, Mine
        <5>2. CASE ~Record(p)
          BY <1>15, <5>2 DEF Restarting, AskElsewhere, TakeDown, Unusable, DiskOK
        <5> QED
          BY <5>1, <5>2
      <4>2. p = o => op[o].pc = "lock"
        BY <1>15, <2>8, <3>2, OpTurns DEF TakeDown
      <4> QED
        BY <2>2, <2>3, <2>4, <4>1, <4>2 DEF Mine
    <3> QED
      BY <3>1, <3>2
  <2>12. Mine(o)'
    BY <2>4, <2>7, <2>9, <2>10, <2>11 DEF Mine
  <2> QED
    BY <2>6, <2>12
<1>16. ASSUME NEW p \in Ops, AskReboot(p)
       PROVE  Outcomes'
  <2>1. SUFFICES ASSUME hist'.alone PROVE OutcomeTold' /\ \E o \in Ops' : Mine(o)'
    BY DEF Outcomes
  <2>2. page'.told = "none" /\ page'.wait /\ page'.base = page.last
    BY <1>16 DEF AskReboot, PageOK
  <2>3. /\ UNCHANGED <<disk, boot>> /\ sc.ops[p] = "reboot" /\ Serving
        /\ op[p].pc = "idle" /\ op'[p].pc = "lock" /\ \A q \in Ops \ {p} : op'[q] = op[q]
    BY <1>16, OpTurns DEF AskReboot, Restarting
  <2>4. page.last = disk.op.seq /\ ~OthersOut(p)
    BY <1>16, <2>1 DEF AskReboot, HistOK
  <2>5. boot.by # p
    BY <2>3 DEF Running, Listening, Ops
  <2>6. Mine(p)'
    <3>1. \A q \in Ops' \ {p} : Recorded(sc.ops[q])' => op'[q].pc \in {"idle", "end"}
      BY <2>3, <2>4 DEF OthersOut, Recorded
    <3> QED
      BY <2>2, <2>3, <2>4, <2>5, <3>1 DEF Mine
  <2> QED
    BY <2>2, <2>6 DEF OutcomeTold
<1>17. ASSUME Load \/ Await \/ GiveUp
       PROVE  Outcomes'
  <2>1. SUFFICES ASSUME hist.alone PROVE OutcomeTold' /\ \E o \in Ops' : Mine(o)'
    BY <1>17 DEF Outcomes, Load, Await, GiveUp
  <2>2. UNCHANGED <<disk, boot, op, hist>>
    BY <1>17 DEF Load, Await, GiveUp
  <2>3. PICK o \in Ops : Mine(o)
    BY <2>1 DEF Outcomes
  <2>4. page'.base = page.base /\ (page'.wait => page.wait)
    BY <1>17 DEF Load, Await, GiveUp, PageOK
  <2>5. Mine(o)'
    BY <2>2, <2>3, <2>4 DEF Mine, Recorded
  <2>6. OutcomeTold'
    <3>1. CASE Load \/ GiveUp
      <4>1. page'.told \in {"none", "waiting"}
        BY <3>1 DEF Load, GiveUp, PageOK
      <4> QED
        BY <4>1 DEF OutcomeTold
    <3>2. CASE Await /\ disk.op.seq = page.base
      <4>1. page'.told = "none"
        BY <3>2 DEF Await, PageOK
      <4> QED
        BY <4>1 DEF OutcomeTold
    <3>3. CASE Await /\ disk.op.seq # page.base
      <4>1. op[o].pc = "end" /\ disk.op.kind = "reboot" /\ disk.op.ok = op[o].ok /\ sc.ops[o] = "reboot"
        BY <2>3, <3>3 DEF Await, Mine
      <4>2. page'.told = IF op[o].ok THEN "applied" ELSE "failed"
        BY <3>3, <4>1 DEF Await, PageOK, Switches
      <4>3. op[o].ok => hist.clicked < hist.reads
        BY <2>3, <4>1 DEF Mine
      <4> QED
        BY <1>1, <2>2, <4>1, <4>2, <4>3 DEF OutcomeTold, OpOK
    <3> QED
      BY <1>17, <3>1, <3>2, <3>3
  <2> QED
    BY <2>5, <2>6
<1> QED
  BY <1>2, <1>3, <1>4, <1>5, <1>6, <1>8, <1>9, <1>10, <1>12, <1>13, <1>14, <1>15, <1>16, <1>17, Steps
    DEF Restarting, Polling
-----------------------------------------------------------------------------
(* What was wished and what is on disk. *)

LEMMA WishedStay ==
  ASSUME Wished, UNCHANGED <<save, cli>>, disk'.prefs = disk.prefs, hist'.wish = hist.wish,
         hist'.muddled = hist.muddled
  PROVE  Wished'
BY DEF Wished, Changing, Pending, Accepted

LEMMA WishedStep ==
  ASSUME IInv, [Next]_vars
  PROVE  Wished'
<1> USE TypeParts, Constants DEF IInv
<1>1. CASE Launch \/ Climb \/ Failing \/ Bind \/ Install \/ Publish \/ Drained \/ LoseSecret \/ Polling \/ Fetching
           \/ UNCHANGED vars
  <2>1. UNCHANGED <<save, cli>>
    BY <1>1, ClimbFrame, FailingFrame, Binds DEF Launch, Install, Publish, Drained, LoseSecret, Polling, PollLive,
      Load, Await, GiveUp, Fetching, AskAsset, Forward, ServeAsset, vars
  <2>2. disk'.prefs = disk.prefs
    BY <1>1, ClimbFrame, FailingFrame, Binds DEF Launch, Install, Publish, Drained, LoseSecret, Polling, PollLive,
      Load, Await, GiveUp, Fetching, AskAsset, Forward, ServeAsset, vars, DiskOK
  <2>3. hist'.wish = hist.wish /\ hist'.muddled = hist.muddled
    BY <1>1, ClimbFrame, FailingFrame, Binds DEF Launch, Install, Publish, Drained, LoseSecret, Polling, PollLive,
      Load, Await, GiveUp, Fetching, AskAsset, Forward, ServeAsset, vars, HistOK
  <2> QED
    BY <2>1, <2>2, <2>3, WishedStay
<1>2. ASSUME NEW o \in Ops, Restarting(o)
      PROVE  Wished'
  <2>1. UNCHANGED <<save, cli>>
    BY <1>2 DEF Restarting, AskReboot, AskElsewhere, TakeDown, Unusable, Record
  <2>2. disk'.prefs = disk.prefs
    BY <1>2 DEF Restarting, AskReboot, AskElsewhere, TakeDown, Unusable, Record, DiskOK
  <2>3. hist'.wish = hist.wish /\ hist'.muddled = hist.muddled
    BY <1>2 DEF Restarting, AskReboot, AskElsewhere, TakeDown, Unusable, Record, HistOK
  <2> QED
    BY <2>1, <2>2, <2>3, WishedStay
<1>3. CASE \E l \in Logins : Bootstrap(l) \/ LoggedIn(l)
  BY <1>3, LogsIn, WishedStay
<1>4. CASE Read
  <2>1. UNCHANGED <<save, cli>>
    BY <1>4 DEF Read
  <2>2. disk'.prefs = disk.prefs
    BY <1>4 DEF Read, DiskOK
  <2>3. DEFINE m == Changing
               w == IF hist.muddled THEN disk.prefs ELSE hist.wish
  <2>4. PICK c \in {hist.coin, hist.coin + 1} :
          hist' = [hist EXCEPT !.coin = c, !.reads = @ + 1, !.hit = FALSE, !.owed = FALSE,
                               !.wish = w, !.muddled = @ /\ m]
    BY <1>4 DEF Read
  <2> HIDE DEF m, w
  <2>5. hist'.wish = w /\ (hist'.muddled <=> hist.muddled /\ m)
    BY <2>4 DEF HistOK
  <2>6. CASE hist.muddled
    BY <2>1, <2>2, <2>5, <2>6 DEF Wished, Changing, Pending, Accepted, m, w
  <2>7. CASE ~hist.muddled
    BY <2>1, <2>2, <2>5, <2>7 DEF Wished, Changing, Pending, Accepted, w
  <2> QED
    BY <2>6, <2>7
<1>5. CASE Crash
  <2>1. \A i \in Saves : save'[i].pc = "idle"
    BY <1>5 DEF Crash, Gone, NoSave
  <2>2. cli'.pc = "idle" /\ hist'.wish = disk.prefs
    BY <1>5 DEF Crash, Gone, CliOK, HistOK
  <2>3. disk'.prefs = disk.prefs
    BY <1>5 DEF Crash, DiskOK
  <2> QED
    BY <2>1, <2>2, <2>3 DEF Wished, Changing, Pending, Accepted
<1>6. CASE SetReads
  <2>1. UNCHANGED <<save, disk>> /\ cli' = [pc |-> "got", got |-> disk.prefs] /\ hist'.wish = hist.wish
    BY <1>6 DEF SetReads, HistOK
  <2>2. ~hist'.muddled => ~hist.muddled /\ ~Changing
    BY <1>6 DEF SetReads, HistOK
  <2> QED
    BY <2>1, <2>2 DEF Wished, Changing, Pending, Accepted
<1>7. ASSUME NEW i \in Saves, Click(i)
      PROVE  Wished'
  <2>1. SUFFICES ASSUME ~hist'.muddled PROVE Wished'
    BY DEF Wished
  <2>2. PICK f \in sc.fields :
          /\ save' = [save EXCEPT ![i] = [NoSave EXCEPT !.pc = "sent", !.body = Flip(page.form, f)]]
          /\ hist' = [hist EXCEPT !.wish = Flip(@, f),
                                  !.muddled = @ \/ page.form # disk.prefs \/ Changing]
    BY <1>7 DEF Click
  <2>3. ~hist.muddled /\ page.form = disk.prefs /\ ~Changing /\ hist'.wish = Flip(hist.wish, f)
    BY <2>1, <2>2 DEF HistOK
  <2>4. disk.prefs = hist.wish
    BY <2>3 DEF Wished
  <2>5. save'[i].pc = "sent" /\ save'[i].body = Flip(page.form, f) /\ \A j \in Saves \ {i} : save'[j] = save[j]
    BY <2>2 DEF SaveOK, NoSave
  <2>6. UNCHANGED <<disk, cli>>
    BY <1>7 DEF Click
  <2> QED
    BY <2>3, <2>4, <2>5, <2>6 DEF Wished, Changing, Pending, Accepted, CliOK
<1>8. ASSUME NEW i \in Saves, SetPosts(i)
      PROVE  Wished'
  <2>1. SUFFICES ASSUME ~hist'.muddled PROVE Wished'
    BY DEF Wished
  <2>2. PICK f \in sc.fields :
          /\ save' = [save EXCEPT ![i] = [NoSave EXCEPT !.pc = "sent", !.by = "cli",
                                             !.body = MergedPreferences(cli.got, f)]]
          /\ hist' = [hist EXCEPT !.wish = Flip(@, f),
                                  !.muddled = @ \/ \E j \in Saves : Pending(j)]
    BY <1>8 DEF SetPosts
  <2>3. ~hist.muddled /\ (\A j \in Saves : ~Pending(j)) /\ hist'.wish = Flip(hist.wish, f)
    BY <2>1, <2>2 DEF HistOK
  <2>4. cli.pc = "got" /\ cli'.pc = "idle" /\ UNCHANGED disk
    BY <1>8 DEF SetPosts, CliOK
  <2>5. cli.got = hist.wish
    BY <2>3, <2>4 DEF Wished
  <2>6. /\ save'[i].pc = "sent" /\ save'[i].body = Flip(cli.got, f)
        /\ \A j \in Saves \ {i} : save'[j] = save[j]
    BY <2>2 DEF SaveOK, NoSave, MergedPreferences
  <2> QED
    BY <2>3, <2>4, <2>5, <2>6 DEF Wished, Changing, Pending, Accepted
<1>9. ASSUME NEW i \in Saves, Saving(i), ~Click(i), ~SetPosts(i)
      PROVE  Wished'
  <2>1. SUFFICES ASSUME ~hist'.muddled PROVE Wished'
    BY DEF Wished
  <2>2. UNCHANGED cli /\ ~hist.muddled
    <3>1. CASE PostPrefs(i)
      BY <2>1, <3>1 DEF PostPrefs, HistOK
    <3>2. CASE ~PostPrefs(i)
      BY <1>9, <2>1, <3>2 DEF Saving, Refused, SaveFails, ApplySync, ApplyRenders, Answer, HistOK
    <3> QED
      BY <3>1, <3>2
  <2>3. Pending(i)
    BY <1>9, SaveTurns DEF Pending
  <2>4. cli.pc = "idle" /\ (\A j \in Saves \ {i} : ~Pending(j)) /\ save[i].body = hist.wish
    BY <2>2, <2>3 DEF Wished
  <2>5. /\ \A j \in Saves \ {i} : save'[j] = save[j]
        /\ save'[i].body = save[i].body
    BY <1>9, SaveTurns
  <2>6. CASE Refused(i) \/ SaveFails(i)
    <3>1. hist'.wish = disk.prefs /\ UNCHANGED disk
      BY <2>6 DEF Refused, SaveFails, HistOK
    <3>2. save'[i].pc = "idle"
      BY <2>6 DEF Refused, SaveFails, SaveTo, SaveOK
    <3> QED
      BY <2>2, <2>4, <2>5, <3>1, <3>2 DEF Wished, Changing, Pending, Accepted
  <2>7. CASE PostPrefs(i)
    <3>1. hist'.wish = hist.wish
      BY <2>7 DEF PostPrefs, HistOK
    <3>2. disk'.prefs = save[i].body
      BY <2>7 DEF PostPrefs, DiskOK
    <3> QED
      BY <2>2, <2>4, <2>5, <3>1, <3>2 DEF Wished, Changing, Pending, Accepted
  <2>8. CASE ApplySync(i) \/ ApplyRenders(i) \/ Answer(i)
    <3>1. UNCHANGED <<hist, disk>>
      BY <2>8 DEF ApplySync, ApplyRenders, Answer
    <3>2. Accepted(i)
      BY <2>8 DEF ApplySync, ApplyRenders, Answer, Accepted
    <3>3. disk.prefs = hist.wish
      BY <2>2, <3>2 DEF Wished
    <3> QED
      BY <2>2, <2>4, <2>5, <3>1, <3>3 DEF Wished, Changing, Pending, Accepted
  <2> QED
    BY <1>9, <2>6, <2>7, <2>8 DEF Saving
<1> QED
  BY <1>1, <1>2, <1>3, <1>4, <1>5, <1>6, <1>7, <1>8, <1>9, Steps
-----------------------------------------------------------------------------
(* The stack and the preferences it was built from. *)

\* A save that is not being applied is neither heard of nor accepted.
LEMMA MatchedStay ==
  ASSUME Matched, boot'.pc = boot.pc, boot'.prefs = boot.prefs, disk'.prefs = disk.prefs,
         sc'.csp = sc.csp, sc'.exporter = sc.exporter, ~hist'.muddled => ~hist.muddled, hist'.owed = hist.owed,
         stack'.flags = stack.flags, stack'.csp = stack.csp,
         stack'.paused = stack.paused, stack'.renders = stack.renders,
         \A j \in Saves : \/ save'[j].pc = save[j].pc
                          \/ save'[j].pc = "sent" /\ save[j].pc = "idle"
                          \/ save'[j].pc = "idle" /\ save[j].pc \in {"sent", "answer"}
  PROVE  Matched'
<1>1. Unheard({"sync"})' = Unheard({"sync"})
  BY DEF Unheard
<1>2. Unheard({"sync", "renders"})' = Unheard({"sync", "renders"})
  BY DEF Unheard
<1>3. \A j \in Saves : Accepted(j)' => Accepted(j)
  BY DEF Accepted
<1>4. RendersAtBoot(disk.prefs)' = RendersAtBoot(disk.prefs)
  BY DEF RendersAtBoot
<1> QED
  BY <1>1, <1>2, <1>3, <1>4 DEF Matched

LEMMA MatchedStep ==
  ASSUME IInv, [Next]_vars
  PROVE  Matched'
<1> USE TypeParts, Constants, Static DEF IInv
<1>1. CASE Launch \/ Failing \/ Drained \/ Crash \/ \E o \in Ops : TakeDown(o)
  <2>1. boot'.pc \in {"read", "failed", "off", "drain"}
    <3>1. CASE Failing
      BY <3>1, FailingFrame
    <3>2. CASE ~Failing
      BY <1>1, <3>2, Moves, Steps DEF Restarting
    <3> QED
      BY <3>1, <3>2
  <2> QED
    BY <2>1 DEF Matched, Provisioning
<1>2. CASE Read
  <2>1. boot'.prefs = disk.prefs /\ boot'.pc = "services"
    BY <1>2, Moves, Steps
  <2>2. disk'.prefs = disk.prefs
    BY <1>2 DEF Read, DiskOK
  <2> QED
    BY <2>1, <2>2 DEF Matched, Provisioning
<1>3. CASE Climb
  BY <1>3, ClimbFrame DEF Matched, Provisioning
<1>4. CASE Bind
  <2>1. boot.prefs = disk.prefs
    BY <1>4, Binds DEF Matched, Provisioning
  <2>2. \A j \in Saves : ~Accepted(j)
    BY <1>4, Binds DEF Listening, InFlight
  <2>3. \A j \in Saves : ~Accepted(j)'
    BY <1>4, <2>2, Binds DEF Accepted
  <2>4. UNCHANGED <<sc, disk>> /\ boot'.pc = "install"
    BY <1>4, Binds
  <2>5. /\ stack'.flags = FrontendFlags(disk.prefs.plugins)
        /\ stack'.csp = ResolveCsp(sc.csp, disk.prefs.csp)
        /\ stack'.paused = ~disk.prefs.sync
        /\ stack'.renders = RendersAtBoot(disk.prefs)
    BY <1>4, <2>1, Binds DEF ShouldPauseAtBoot
  <2>6. RendersAtBoot(disk.prefs)' = RendersAtBoot(disk.prefs)
    BY <2>4 DEF RendersAtBoot
  <2>7. RendersAtBoot(disk.prefs) => disk.prefs.exports
    BY DEF RendersAtBoot
  <2> QED
    BY <2>3, <2>4, <2>5, <2>6, <2>7 DEF Matched, Provisioning
<1>5. CASE Install
  <2>1. boot.pc = "install" /\ boot'.pc = "up" /\ UNCHANGED <<sc, stack, save, hist>>
    BY <1>5, Moves, Steps DEF Install
  <2>2. disk'.prefs = disk.prefs
    BY <1>5 DEF Install, DiskOK
  <2> QED
    BY <2>1, <2>2 DEF Matched, Provisioning, Unheard, RendersAtBoot
<1>6. ASSUME UNCHANGED <<boot, save>>, disk'.prefs = disk.prefs, ~hist'.muddled => ~hist.muddled,
             hist'.owed = hist.owed, UNCHANGED stack
      PROVE  Matched'
  BY <1>6, MatchedStay
<1>7. CASE UNCHANGED vars
  BY <1>6, <1>7 DEF vars
<1>8. CASE LoseSecret \/ Publish \/ SetReads \/ Polling \/ Fetching
  <2>1. UNCHANGED <<boot, save, stack>>
    BY <1>8 DEF LoseSecret, Publish, SetReads, Polling, PollLive, Load, Await, GiveUp, Fetching,
      AskAsset, Forward, ServeAsset
  <2>2. disk'.prefs = disk.prefs
    BY <1>8 DEF LoseSecret, Publish, SetReads, Polling, PollLive, Load, Await, GiveUp, Fetching,
      AskAsset, Forward, ServeAsset, DiskOK
  <2>3. hist'.owed = hist.owed /\ (~hist'.muddled => ~hist.muddled)
    BY <1>8 DEF LoseSecret, Publish, SetReads, Polling, PollLive, Load, Await, GiveUp, Fetching,
      AskAsset, Forward, ServeAsset, HistOK
  <2> QED
    BY <1>6, <2>1, <2>2, <2>3
<1>9. ASSUME NEW o \in Ops, Restarting(o), ~TakeDown(o)
      PROVE  Matched'
  <2>1. UNCHANGED <<boot, save, stack>>
    BY <1>9 DEF Restarting, AskReboot, AskElsewhere, Unusable, Record
  <2>2. disk'.prefs = disk.prefs
    BY <1>9 DEF Restarting, AskReboot, AskElsewhere, Unusable, Record, DiskOK
  <2>3. hist'.owed = hist.owed /\ hist'.muddled = hist.muddled
    BY <1>9 DEF Restarting, AskReboot, AskElsewhere, Unusable, Record, HistOK
  <2> QED
    BY <1>6, <2>1, <2>2, <2>3
<1>10. ASSUME NEW l \in Logins, Bootstrap(l) \/ LoggedIn(l)
       PROVE  Matched'
  BY <1>10, LogsIn, MatchedStay
<1>11. ASSUME NEW i \in Saves, Click(i) \/ SetPosts(i) \/ Refused(i) \/ SaveFails(i) \/ Answer(i)
       PROVE  Matched'
  <2>1. UNCHANGED <<boot, disk, stack>>
    BY <1>11 DEF Click, SetPosts, Refused, SaveFails, Answer
  <2>2. hist'.owed = hist.owed /\ (~hist'.muddled => ~hist.muddled)
    BY <1>11 DEF Click, SetPosts, Refused, SaveFails, Answer, HistOK
  <2>3. ASSUME NEW j \in Saves
        PROVE  \/ save'[j].pc = save[j].pc
               \/ save'[j].pc = "sent" /\ save[j].pc = "idle"
               \/ save'[j].pc = "idle" /\ save[j].pc \in {"sent", "answer"}
    <3>1. CASE Click(i) \/ SetPosts(i)
      <4>1. Saving(i)
        BY <3>1 DEF Saving
      <4>2. save[i].pc = "idle"
        BY <3>1 DEF Click, SetPosts
      <4> QED
        BY <4>1, <4>2, SaveTurns
    <3>2. CASE Refused(i) \/ SaveFails(i) \/ Answer(i)
      BY <3>2 DEF Refused, SaveFails, Answer, SaveTo, SaveOK
    <3> QED
      BY <1>11, <3>1, <3>2
  <2> QED
    BY <2>1, <2>2, <2>3, MatchedStay
<1>12. ASSUME NEW i \in Saves, PostPrefs(i)
       PROVE  Matched'
  <2>1. /\ save[i].pc = "sent" /\ Serving /\ UNCHANGED <<boot, stack>>
        /\ sc' = sc
    BY <1>12 DEF PostPrefs
  <2>2. boot.pc \in {"install", "up", "drain"}
    BY <2>1 DEF Listening
  <2>3. disk'.prefs = save[i].body
    BY <1>12 DEF PostPrefs, DiskOK
  <2>4. save'[i].pc = "sync"
    BY <1>12 DEF PostPrefs, SaveOK
  <2>5. /\ hist'.owed = (hist.owed \/ NeedsReboot(disk.prefs, save[i].body))
        /\ hist'.muddled = (hist.muddled \/ boot.pc = "install")
    BY <1>12 DEF PostPrefs, HistOK
  <2>6. Unheard({"sync"})' /\ Unheard({"sync", "renders"})'
    BY <2>4 DEF Unheard
  <2>7. ASSUME boot.pc = "up", ~hist.muddled, ~hist.owed, ~NeedsReboot(disk.prefs, save[i].body)
        PROVE  /\ \/ stack'.renders = RendersAtBoot(disk.prefs)'
                  \/ ~save[i].body.exports
               /\ stack'.flags = FrontendFlags(disk'.prefs.plugins)
               /\ stack'.csp = ResolveCsp(sc'.csp, disk'.prefs.csp)
    <3>1. \A j \in Saves \ {i} : ~Pending(j)
      BY <2>1, <2>7 DEF Wished, Pending
    <3>2. ~Unheard({"sync", "renders"})
      BY <2>1, <3>1 DEF Unheard, Pending
    <3>3. /\ stack.renders = RendersAtBoot(disk.prefs)
          /\ stack.flags = FrontendFlags(disk.prefs.plugins)
          /\ stack.csp = ResolveCsp(sc.csp, disk.prefs.csp)
      BY <2>7, <3>2 DEF Matched
    <3>4. /\ disk.prefs.plugins = save[i].body.plugins /\ disk.prefs.csp = save[i].body.csp
          /\ disk.prefs.exports \/ ~save[i].body.exports
      BY <2>7 DEF NeedsReboot
    <3>5. disk.prefs.exports /\ save[i].body.exports => RendersAtBoot(disk.prefs)' = RendersAtBoot(disk.prefs)
      BY <2>1, <2>3 DEF RendersAtBoot
    <3> QED
      BY <2>1, <2>3, <3>3, <3>4, <3>5
  <2> QED
    BY <2>1, <2>2, <2>3, <2>5, <2>6, <2>7 DEF Matched, Provisioning
<1>13. ASSUME NEW i \in Saves, ApplySync(i) \/ ApplyRenders(i)
       PROVE  Matched'
  <2>1. UNCHANGED <<boot, disk, sc, hist>>
    BY <1>13 DEF ApplySync, ApplyRenders
  <2>2. Saving(i) /\ Accepted(i)
    BY <1>13 DEF Saving, ApplySync, ApplyRenders, Accepted
  <2>3. SUFFICES ASSUME boot.pc \in {"install", "up"}, ~hist.muddled
                 PROVE  Matched'
    BY <2>1 DEF Matched, Provisioning
  <2>4. boot.pc = "up" /\ save[i].body = disk.prefs
    BY <2>2, <2>3 DEF Matched, Wished, Accepted, Pending
  <2>5. RendersAtBoot(disk.prefs)' = RendersAtBoot(disk.prefs)
    BY <2>1 DEF RendersAtBoot
  <2>6. \A j \in Saves \ {i} : save'[j] = save[j]
    BY <2>2, SaveTurns
  <2>7. stack'.flags = stack.flags /\ stack'.csp = stack.csp
    BY <1>13, Applies
  <2>8. CASE ApplySync(i)
    <3>1. save'[i].pc = "renders" /\ save[i].pc = "sync"
      BY <2>8 DEF ApplySync, SaveTo, SaveOK
    <3>2. Unheard({"sync", "renders"})' /\ Unheard({"sync", "renders"})
      BY <3>1 DEF Unheard
    <3>3. stack'.paused = ~disk.prefs.sync /\ stack'.renders = stack.renders
      BY <2>4, <2>8, Applies DEF InSlot
    <3> QED
      BY <2>1, <2>3, <2>4, <2>5, <2>7, <3>2, <3>3 DEF Matched, Provisioning
  <2>9. CASE ApplyRenders(i)
    <3>1. save'[i].pc = "answer" /\ save[i].pc = "renders"
      BY <2>9 DEF ApplyRenders, SaveTo, SaveOK
    <3>2. Unheard({"sync"})' = Unheard({"sync"})
      BY <2>6, <3>1 DEF Unheard
    <3>3. stack'.paused = stack.paused /\ stack'.renders = (stack.renders /\ disk.prefs.exports)
      BY <2>4, <2>9, Applies DEF InSlot
    <3>4. ~disk.prefs.exports => RendersAtBoot(disk.prefs) = FALSE
      BY DEF RendersAtBoot
    <3>5. stack'.renders => disk.prefs.exports
      BY <3>3
    <3>6. stack.renders \in BOOLEAN /\ disk.prefs.exports \in BOOLEAN
      BY <2>9, Applies DEF Stack, DiskOK, Prefs, Fields
    <3>7. stack.renders = RendersAtBoot(disk.prefs) \/ ~disk.prefs.exports => stack'.renders = RendersAtBoot(disk.prefs)
      BY <3>3, <3>4, <3>6
    <3> QED
      BY <2>1, <2>3, <2>4, <2>5, <2>7, <3>2, <3>3, <3>5, <3>7 DEF Matched, Provisioning
  <2> QED
    BY <1>13, <2>8, <2>9
<1> QED
  BY <1>1, <1>2, <1>3, <1>4, <1>5, <1>7, <1>8, <1>9, <1>10, <1>11, <1>12, <1>13, Steps DEF Saving
-----------------------------------------------------------------------------
(* The invariant, and what follows. *)

THEOREM Invariant == Spec => []IInv
<1>1. Init => IInv
  BY InitIInv
<1>2. IInv /\ [Next]_vars => IInv'
  <2>1. SUFFICES ASSUME IInv, [Next]_vars PROVE IInv'
    OBVIOUS
  <2>2. TypeOK' /\ Listening' /\ Running'
    BY <2>1, TypeOKStep, ListeningStep, RunningStep DEF IInv
  <2>3. Stored' /\ Passwords' /\ Tokens' /\ OneLogin' /\ Refusals'
    BY <2>1, <2>2, StoredStep, PasswordsStep, TokensStep, OneLoginStep, RefusalsStep
  <2>4. Outcomes' /\ Wished' /\ Matched'
    BY <2>1, OutcomesStep, WishedStep, MatchedStep
  <2> QED
    BY <2>2, <2>3, <2>4 DEF IInv
<1> QED
  BY <1>1, <1>2, PTL DEF Spec

(* The variables keep their types, whatever is killed, refused or wiped.   *)
THEOREM Typing == Spec => []TypeOK
<1>1. IInv => TypeOK
  BY DEF IInv
<1> QED
  BY <1>1, Invariant, PTL

(* serve_storage_file and asset_proxy: a request that the backend has let  *)
(* through is answered with the status, the length and the bytes that RFC  *)
(* 9110 asks for, since serve_with_shutdown drains before the storage goes.*)
THEOREM AssetsRight == Spec => []AssetRight
<1>1. IInv => AssetRight
  BY DEF IInv, Stored
<1> QED
  BY <1>1, Invariant, PTL

(* provision and bootstrap_login: a stack in the slot holds a token that   *)
(* its database accepts under its secret; the password on disk is the      *)
(* user's; and one webview is let in per boot, also when a login is given  *)
(* back and taken again.                                                   *)
THEOREM KeyHeld == Spec => []HoldsKey
<1>1. IInv => HoldsKey
  BY DEF IInv, HoldsKey, Listening, InSlot, Tokens, Passwords, OneLogin
<1> QED
  BY <1>1, Invariant, PTL

(* provision: a boot ends in an error only when a fault struck it after    *)
(* the check of its stored token, when a kill or a failed write left its   *)
(* credentials torn, or when the user's password was never written.        *)
THEOREM BootsOpen == Spec => Opens
<1>1. IInv /\ [Next]_vars => [hist'.failures # hist.failures => hist'.hit \/ disk.creds = Torn \/ hist.locked]_vars
  <2>1. SUFFICES ASSUME IInv, Next, hist'.failures # hist.failures
                 PROVE  hist'.hit \/ disk.creds = Torn \/ hist.locked
    OBVIOUS
  <2> USE TypeParts DEF IInv
  <2>2. Failing
    <3>1. CASE UNCHANGED hist
      BY <2>1, <3>1
    <3>2. CASE Read \/ Crash \/ SetReads
      BY <2>1, <3>2 DEF Read, Crash, Gone, SetReads, HistOK
    <3>3. CASE Climb
      BY <2>1, <3>3, ClimbFrame
    <3>4. CASE Bind
      BY <2>1, <3>4, Binds DEF HistOK
    <3>5. CASE \E o \in Ops : AskReboot(o) \/ AskElsewhere(o)
      BY <2>1, <3>5 DEF AskReboot, AskElsewhere, HistOK
    <3>6. CASE \E i \in Saves : Saving(i)
      BY <2>1, <3>6, SaveHist
    <3>7. CASE \E l \in Logins : LoggedIn(l)
      BY <2>1, <3>7 DEF LoggedIn, HistOK
    <3> QED
      BY <2>1, <3>1, <3>2, <3>3, <3>4, <3>5, <3>6, <3>7, HistMoves DEF Saving
  <2>3. CASE BootFault
    BY <2>1, <2>3 DEF BootFault, HistOK
  <2>4. CASE CredsTorn
    BY <2>4 DEF CredsTorn
  <2>5. CASE RegisterRefused
    <3>1. hist.hit \/ hist.locked
      BY <2>1, <2>5 DEF RegisterRefused, Refusals
    <3>2. hist'.hit = hist.hit
      BY <2>1, <2>5 DEF RegisterRefused, HistOK
    <3> QED
      BY <3>1, <3>2
  <2> QED
    BY <2>2, <2>3, <2>4, <2>5 DEF Failing
<1> QED
  BY <1>1, Invariant, PTL DEF Spec, Opens

(* waitForOpOutcome against record_last_op: "settings applied" follows a   *)
(* boot that read the preferences after the click, and "failed" its own    *)
(* restart, while nobody else's outcome is recorded in between.            *)
THEOREM Told == Spec => []OutcomeTold
<1>1. IInv => OutcomeTold
  BY DEF IInv, Outcomes, OutcomeTold
<1> QED
  BY <1>1, Invariant, PTL

(* post_prefs: once no save is under way, what was wished is saved, and    *)
(* the stack in the slot is what the file says, but for what a save has    *)
(* said needs a restart.                                                   *)
THEOREM Wishes == Spec => []AsWished
<1>1. ASSUME IInv, InSlot, ~Changing, ~hist.muddled
      PROVE  /\ disk.prefs = hist.wish
             /\ stack.paused = ~disk.prefs.sync
             /\ stack.renders => disk.prefs.exports
             /\ hist.owed \/ /\ stack.renders = RendersAtBoot(disk.prefs)
                             /\ stack.flags = FrontendFlags(disk.prefs.plugins)
                             /\ stack.csp = ResolveCsp(sc.csp, disk.prefs.csp)
  <2>1. disk.prefs = hist.wish
    BY <1>1 DEF IInv, Wished
  <2>2. ~Unheard({"sync"}) /\ ~Unheard({"sync", "renders"})
    BY <1>1 DEF Changing, Pending, Unheard
  <2> QED
    BY <1>1, <2>1, <2>2 DEF IInv, Matched, InSlot
<1>2. IInv => AsWished
  BY <1>1 DEF AsWished
<1> QED
  BY <1>2, Invariant, PTL
=============================================================================
