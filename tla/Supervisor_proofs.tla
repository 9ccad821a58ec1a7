------------------------- MODULE Supervisor_proofs -------------------------
(***************************************************************************)
(* The supervisor's safety, for any children in any order, any number of   *)
(* lives, spawns, retries and crashes:                                     *)
(*                                                                         *)
(*   StopsInOrder   shutdown goes backwards and leaves nothing             *)
(*   Accounted      slots and watchdogs know every process of the app      *)
(*   AdoptsNobody   a guarded child is ready only on its own port          *)
(*                                                                         *)
(* The argument: a process is new when it is spawned (Fresh), so nothing   *)
(* that was written down earlier names it.  A child lives in the hands of  *)
(* its task (InHand), from the spawn until the task has seen it gone; a    *)
(* task that is over has none, and shutdown waits for the tasks one by one *)
(* (Sequenced).  What a watchdog knows is what was sent to it while it     *)
(* watched (Watching), and what it has killed stays dead (Reaped).         *)
(***************************************************************************)
EXTENDS Supervisor, TLAPS

\* Where a task has a child.
HandPC == {"probe", "verify", "steady", "term", "stop"}

\* Processes that were spawned at some time.
Spawned(P) == \A p \in P : p.n <= born[p.life][p.svc]

-----------------------------------------------------------------------------
(* The parts of the inductive invariant. *)

\* Who gave up has used up its retries; nobody else has.
Tries == \A c \in Children : loop[c].pc # "failed" => loop[c].tries <= MaxRetries

\* Whatever runs or is written down was spawned, in this life or an earlier one.
Fresh ==
  /\ Spawned(alive) /\ Spawned(feeder.last)
  /\ carry # None => Spawned(carry)
  /\ \A l \in Lives : Spawned(wd[l].pids)
  /\ \A c \in Children : slot[c] # None => Spawned({slot[c]})
  /\ \A l \in Lives : l > life => \A s \in Services : born[l][s] = 0
  /\ \A l \in late : l <= life

\* A child of this life is in its slot and in the hands of its task.
InHand ==
  /\ at # "off" => \A p \in Mine : p.svc # PG => slot[p.svc] = p /\ loop[p.svc].pc \in HandPC
  /\ \A c \in Children : loop[c].pc \in HandPC => slot[c] # None
  /\ \A c \in Children : slot[c] # None => slot[c].svc = c /\ slot[c].life = life
  /\ at = "off" => \A c \in Children : loop[c].pc = "none" /\ slot[c] = None

\* Children are started one after the other and stopped one after the other.
Sequenced ==
  /\ at \in Starting => step \in 1 .. Len(Order) + 1
  /\ at = "postgres" => step = 1
  /\ at = "wait" => step <= Len(Order)
  /\ at \in Stopping => step <= Len(Order) /\ (at = "bye" => step = 0)
  /\ at \in Starting => \A i \in 1 .. Len(Order) :
       i > step \/ (i = step /\ at # "wait") => loop[Order[i]].pc = "none"
  /\ at \in Stopping => \A i \in 1 .. Len(Order) :
       i > step => loop[Order[i]].pc \in {"over", "failed"}

\* The feeder runs as long as the watchdog watches; both are of this life.
Watching ==
  /\ feeder.on => at \notin Stopping \cup {"off"} /\ wd[life].pc = "watch"
  /\ at \in Stopping \cup {"off"} => carry = None
  /\ \A l \in Lives : l > life => wd[l].pc = "none" /\ wd[l].pids = {}

\* What is sent is of this life, or postgres; what was sent last and still runs
\* is known, unless a push undid it.
Told ==
  /\ \A l \in Lives : \A p \in wd[l].pids : p.svc = PG \/ p.life = l
  /\ carry # None => \A p \in carry : p.svc = PG \/ p.life = life
  /\ feeder.on /\ ~stale => feeder.last \cap Mine \subseteq wd[life].pids

\* What a watchdog has killed, or shutdown has stopped, stays dead.
Reaped ==
  /\ \A l \in Lives : wd[l].pc \in {"sweep", "done"} => alive \cap wd[l].pids = {}
  /\ at = "bye" => Postmasters \cap wd[life].pids = {}

IInv == TypeOK /\ Tries /\ Fresh /\ InHand /\ Sequenced /\ Watching /\ Told /\ Reaped
-----------------------------------------------------------------------------
(* The types, part by part. *)

AppOK == at \in Phases /\ step \in 0 .. Len(Order) + 1 /\ life \in Lives
ProcOK ==
  /\ alive \subseteq Process /\ crashes \in 0 .. MaxCrashes
  /\ born \in [Lives -> [Services -> 0 .. MaxSpawns]]
  /\ holds \in [Services -> Process \cup {None}]
ChildOK == loop \in [Children -> Task] /\ slot \in [Children -> Process \cup {None}]
PgOK ==
  /\ pgw \in [pc : {"off", "watch", "retry", "starting"}, tries : 0 .. MaxRetries + 1]
  /\ late \subseteq Lives
WdOK ==
  /\ wd \in [Lives -> Dog] /\ feeder \in [on : BOOLEAN, last : SUBSET Process]
  /\ carry \in {None} \cup SUBSET Process /\ stale \in BOOLEAN

LEMMA TypeParts == TypeOK <=> AppOK /\ ProcOK /\ ChildOK /\ PgOK /\ WdOK
BY DEF TypeOK, AppOK, ProcOK, ChildOK, PgOK, WdOK

LEMMA OrderFacts ==
  /\ Len(Order) \in Nat
  /\ \A i \in 1 .. Len(Order) : Order[i] \in Children
  /\ \A i, j \in 1 .. Len(Order) : Order[i] = Order[j] => i = j
  /\ \A c \in Children : c \in Services /\ c # PG /\ \E i \in 1 .. Len(Order) : Order[i] = c
  /\ PG \in Services
BY OrderAssumption, GuardAssumption DEF Children, Services

LEMMA InitIInv ==
  ASSUME Init
  PROVE  IInv
<1> USE BoundAssumption, OrderFacts, NoneAssumption
<1>1. AppOK /\ PgOK
  BY DEF Init, AppOK, PgOK, Phases, Lives
<1>2. Leftover \subseteq Process
  BY GuardAssumption DEF Leftover, Process, Lives
<1>3. ProcOK
  <2>1. alive \subseteq Process /\ crashes = 0
    BY <1>2 DEF Init
  <2>2. born \in [Lives -> [Services -> 0 .. MaxSpawns]]
    BY DEF Init
  <2>3. holds \in [Services -> Process \cup {None}]
    <3>1. PICK P \in SUBSET alive :
            holds = [s \in Services |-> IF [svc |-> s, life |-> 1, n |-> 1] \in P
                                        THEN [svc |-> s, life |-> 1, n |-> 1] ELSE None]
      BY DEF Init
    <3> QED
      BY <2>1, <3>1
  <2> QED
    BY <2>1, <2>2, <2>3 DEF ProcOK
<1>4. ChildOK
  BY DEF Init, ChildOK, Task, Idle, TaskPC
<1>5. WdOK
  <2>1. wd \in [Lives -> Dog] /\ carry = None
    BY DEF Init, Dog, WdPC
  <2>2. feeder \in [on : BOOLEAN, last : SUBSET Process] /\ stale \in BOOLEAN
    BY DEF Init
  <2> QED
    BY <2>1, <2>2 DEF WdOK
<1>6. Tries /\ InHand
  BY DEF Init, Tries, InHand, Idle, HandPC
<1>7. Fresh
  <2>1. Spawned(alive)
    <3>1. \A p \in Leftover : p.svc \in Services /\ p.life = 1 /\ p.n = 1
      BY GuardAssumption DEF Leftover
    <3>2. 1 \in Lives
      BY DEF Lives
    <3>3. alive \subseteq Leftover /\ \A s \in Services : born[1][s] = 1
      BY <3>2 DEF Init
    <3> QED
      BY <3>1, <3>3 DEF Spawned
  <2>2. \A l \in Lives : l > life => \A s \in Services : born[l][s] = 0
    BY DEF Init, Lives
  <2> QED
    BY <2>1, <2>2 DEF Init, Fresh, Spawned
<1>8. Sequenced /\ Watching /\ Told /\ Reaped
  BY DEF Init, Sequenced, Watching, Told, Reaped, Starting, Stopping
<1> QED
  BY <1>1, <1>3, <1>4, <1>5, <1>6, <1>7, <1>8, TypeParts DEF IInv

-----------------------------------------------------------------------------
(* Processes come and go. *)

\* A new process is of its service and life, and nobody knows it yet.
LEMMA NewProcess ==
  ASSUME TypeOK, NEW s \in Services, NEW l \in Lives, Spawns(s, l)
  PROVE  /\ NextOf(s, l) \in Process /\ NextOf(s, l).svc = s /\ NextOf(s, l).life = l
         /\ alive' = alive \cup {NextOf(s, l)}
         /\ born'[l][s] = NextOf(s, l).n
         /\ \A P : Spawned(P) => NextOf(s, l) \notin P
<1> USE TypeParts, BoundAssumption
<1>1. born[l][s] \in 0 .. MaxSpawns /\ born[l][s] < MaxSpawns
  BY DEF Spawns, ProcOK
<1>2. NextOf(s, l) \in Process /\ NextOf(s, l).svc = s /\ NextOf(s, l).life = l
      /\ NextOf(s, l).n = born[l][s] + 1
  BY <1>1 DEF NextOf, Process
<1>3. born'[l][s] = born[l][s] + 1
  BY DEF Spawns, ProcOK
<1>4. \A P : Spawned(P) => NextOf(s, l) \notin P
  BY <1>1, <1>2 DEF Spawned
<1> QED
  BY <1>2, <1>3, <1>4 DEF Spawns

\* Which processes there are after a step.
LEMMA Population ==
  ASSUME TypeOK, Fresh, [Next]_vars
  PROVE  \/ alive' \subseteq alive /\ UNCHANGED born
         \/ \E s \in Services, l \in Lives : l <= life /\ Spawns(s, l)
<1> USE TypeParts, OrderFacts
<1>1. CASE (\E armed \in BOOLEAN : Launch(armed)) \/ SpawnService \/ ServiceReady \/ Started
           \/ PushPids \/ FeederTick \/ Shutdown \/ Bye \/ Killed \/ PostgresDown \/ PostgresRetry
  BY <1>1 DEF Launch, SpawnService, ServiceReady, Started, PushPids, FeederTick, Shutdown, Bye,
    Killed, PostgresDown, PostgresRetry, procVars
<1>2. CASE StartFails \/ JoinTask \/ StopPostgres \/ \E p \in alive : Crash(p) \/ Bind(p)
  BY <1>2 DEF StartFails, Drop, JoinTask, StopPostgres, Crash, Bind, Ends, procVars
<1>3. CASE PostgresUp \/ PostgresRestart
  BY <1>3 DEF PostgresUp, PostgresRestart, Postmaster, procVars, AppOK, Lives
<1>4. ASSUME NEW l \in late, LatePostgres(l)
      PROVE  \/ alive' \subseteq alive /\ UNCHANGED born
             \/ \E s \in Services, m \in Lives : m <= life /\ Spawns(s, m)
  BY <1>4 DEF LatePostgres, Postmaster, procVars, PgOK, Fresh
<1>5. ASSUME NEW c \in Children, TaskStep(c)
      PROVE  \/ alive' \subseteq alive /\ UNCHANGED born
             \/ \E s \in Services, l \in Lives : l <= life /\ Spawns(s, l)
  BY <1>5 DEF TaskStep, Check, SpawnChild, Answered, ProbeTimeout, Verify, ChildExited, StopSeen,
    Terminate, BackoffOver, Ends, procVars, AppOK, Lives
<1>6. ASSUME NEW l \in Lives, WdLife(l)
      PROVE  alive' \subseteq alive /\ UNCHANGED born
  BY <1>6 DEF WdLife, WdTerm, WdKill, WdSweep, Ends
<1>7. CASE UNCHANGED vars
  BY <1>7 DEF vars, procVars
<1> QED
  BY <1>1, <1>2, <1>3, <1>4, <1>5, <1>6, <1>7 DEF Next, StartStep, StopStep, PgStep

\* What was spawned stays spawned.
LEMMA SpawnedStays ==
  ASSUME TypeOK, Fresh, [Next]_vars
  PROVE  \A P \in SUBSET Process : Spawned(P) => Spawned(P)'
<1>1. \A l \in Lives, s \in Services : born[l][s] <= born'[l][s] /\ born'[l][s] \in Nat
  <2>1. CASE UNCHANGED born
    BY <2>1, TypeParts, BoundAssumption DEF ProcOK
  <2>2. ASSUME NEW s \in Services, NEW l \in Lives, Spawns(s, l)
        PROVE  \A m \in Lives, t \in Services : born[m][t] <= born'[m][t] /\ born'[m][t] \in Nat
    BY <2>2, TypeParts, BoundAssumption DEF Spawns, ProcOK
  <2> QED
    BY <2>1, <2>2, Population
<1> QED
  BY <1>1, TypeParts, BoundAssumption DEF Spawned, Process, ProcOK

-----------------------------------------------------------------------------
(* Every step keeps the types. *)

\* What start() and the feeder collect.
LEMMA Collected ==
  ASSUME TypeOK
  PROVE  /\ collect_child_pids \subseteq Process
         /\ Postmasters \subseteq Process
         /\ \A c \in Children : slot[c] # None => slot[c] \in Process
BY TypeParts DEF collect_child_pids, Postmasters, ProcOK, ChildOK

LEMMA AppOKStep ==
  ASSUME TypeOK, Sequenced, [Next]_vars
  PROVE  AppOK'
<1> USE TypeParts, OrderFacts, BoundAssumption DEF AppOK, Phases, Starting, Stopping
<1>1. CASE \/ (\E armed \in BOOLEAN : Launch(armed)) \/ PostgresUp \/ SpawnService \/ ServiceReady
           \/ Started \/ Shutdown \/ JoinTask \/ StopPostgres \/ Bye
  BY <1>1 DEF Launch, PostgresUp, SpawnService, ServiceReady, Started, Shutdown, JoinTask,
    StopPostgres, Bye, Sequenced, Lives
<1>2. CASE StartFails \/ Killed
  BY <1>2 DEF StartFails, Drop, Killed, Forget
<1>3. CASE PushPids \/ FeederTick \/ PgStep \/ UNCHANGED vars
           \/ (\E p \in alive : Crash(p) \/ Bind(p)) \/ (\E l \in late : LatePostgres(l))
           \/ \E l \in Lives : WdLife(l)
  <2>1. UNCHANGED appVars
    BY <1>3 DEF PushPids, FeederTick, PgStep, PostgresDown, PostgresRetry, PostgresRestart, Crash,
      Bind, LatePostgres, WdLife, WdTerm, WdKill, WdSweep, vars
  <2> QED
    BY <2>1 DEF appVars
<1>4. ASSUME NEW c \in Children, TaskStep(c)
      PROVE  AppOK'
  BY <1>4 DEF TaskStep, Check, SpawnChild, Answered, ProbeTimeout, Verify, ChildExited, StopSeen,
    Terminate, BackoffOver, appVars
<1> QED
  BY <1>1, <1>2, <1>3, <1>4 DEF Next, StartStep, StopStep

LEMMA ProcOKStep ==
  ASSUME TypeOK, Fresh, [Next]_vars
  PROVE  ProcOK'
<1> USE TypeParts
<1>1. alive' \subseteq Process /\ born' \in [Lives -> [Services -> 0 .. MaxSpawns]]
  <2>1. CASE alive' \subseteq alive /\ UNCHANGED born
    BY <2>1 DEF ProcOK
  <2>2. ASSUME NEW s \in Services, NEW l \in Lives, Spawns(s, l)
        PROVE  alive' \subseteq Process /\ born' \in [Lives -> [Services -> 0 .. MaxSpawns]]
    <3>1. alive' \subseteq Process
      BY <2>2, NewProcess DEF ProcOK
    <3>2. born[l][s] + 1 \in 0 .. MaxSpawns
      BY <2>2, BoundAssumption DEF ProcOK, Spawns
    <3> QED
      BY <2>2, <3>1, <3>2 DEF ProcOK, Spawns
  <2> QED
    BY <2>1, <2>2, Population
<1>2. crashes' \in 0 .. MaxCrashes /\ holds' \in [Services -> Process \cup {None}]
  <2> USE DEF ProcOK
  <2>1. CASE UNCHANGED <<holds, crashes>>
    BY <2>1
  <2>2. ASSUME NEW P, Ends(P)
        PROVE  crashes' \in 0 .. MaxCrashes /\ holds' \in [Services -> Process \cup {None}]
    BY <2>2 DEF Ends
  <2>3. CASE \/ (\E armed \in BOOLEAN : Launch(armed)) \/ PostgresUp \/ SpawnService \/ ServiceReady
             \/ Started \/ PushPids \/ FeederTick \/ Shutdown \/ Bye \/ Killed \/ PgStep
             \/ (\E l \in late : LatePostgres(l)) \/ UNCHANGED vars
    BY <2>1, <2>3 DEF Launch, PostgresUp, SpawnService, ServiceReady, Started, PushPids, FeederTick,
      Shutdown, Bye, Killed, PgStep, PostgresDown, PostgresRetry, PostgresRestart, LatePostgres,
      Postmaster, Spawns, vars, procVars
  <2>4. CASE StartFails \/ JoinTask \/ StopPostgres \/ \E l \in Lives : WdLife(l)
    BY <2>1, <2>2, <2>4 DEF StartFails, Drop, JoinTask, StopPostgres, WdLife, WdTerm, WdKill,
      WdSweep, procVars
  <2>5. ASSUME NEW p \in alive, Crash(p)
        PROVE  crashes' \in 0 .. MaxCrashes /\ holds' \in [Services -> Process \cup {None}]
    BY <2>5, BoundAssumption DEF Crash
  <2>6. ASSUME NEW p \in alive, Bind(p)
        PROVE  crashes' \in 0 .. MaxCrashes /\ holds' \in [Services -> Process \cup {None}]
    BY <2>2, <2>6 DEF Bind
  <2>7. ASSUME NEW c \in Children, TaskStep(c)
        PROVE  crashes' \in 0 .. MaxCrashes /\ holds' \in [Services -> Process \cup {None}]
    BY <2>1, <2>2, <2>7 DEF TaskStep, Check, SpawnChild, Answered, ProbeTimeout, Verify,
      ChildExited, StopSeen, Terminate, BackoffOver, Spawns, procVars
  <2> QED
    BY <2>3, <2>4, <2>5, <2>6, <2>7 DEF Next, StartStep, StopStep
<1> QED
  BY <1>1, <1>2 DEF ProcOK

LEMMA ChildOKStep ==
  ASSUME TypeOK, Tries, Sequenced, [Next]_vars
  PROVE  ChildOK' /\ Tries'
<1> USE TypeParts, OrderFacts, BoundAssumption DEF ChildOK, Tries, Task, TaskPC
<1>1. CASE UNCHANGED childVars
  BY <1>1 DEF childVars
<1>2. CASE Forget \/ Bye
  BY <1>2 DEF Forget, Bye, Idle
<1>3. ASSUME NEW c \in Children, NEW pc \in TaskPC \ {"failed"}, Goto(c, pc),
             loop[c].pc # "failed", slot' \in {slot, [slot EXCEPT ![c] = None]}
      PROVE  ChildOK' /\ Tries'
  <2>1. loop' \in [Children -> Task] /\ slot' \in [Children -> Process \cup {None}]
    BY <1>3 DEF Goto
  <2>2. loop'[c].tries = loop[c].tries /\ \A d \in Children \ {c} : loop'[d] = loop[d]
    BY <1>3 DEF Goto
  <2> QED
    BY <1>3, <2>1, <2>2
<1>4. ASSUME NEW c \in Children, NEW n \in 0 .. MaxRetries, Fail(c, n)
      PROVE  ChildOK' /\ Tries'
  BY <1>4 DEF Fail
<1>5. CASE SpawnService
  <2>1. PICK c \in Children : loop' = [loop EXCEPT ![c] = [Idle EXCEPT !.pc = "check"]]
    <3>1. step \in 1 .. Len(Order)
      BY <1>5 DEF SpawnService, AppOK, Sequenced, Starting
    <3> QED
      BY <1>5, <3>1 DEF SpawnService
  <2>2. UNCHANGED slot
    BY <1>5 DEF SpawnService
  <2> QED
    BY <2>1, <2>2 DEF Idle
<1>6. CASE JoinTask
  <2>1. PICK c \in Children : c = Order[step]
    BY <1>6 DEF JoinTask, AppOK, Sequenced, Stopping
  <2> QED
    BY <1>1, <1>3, <1>6, <2>1 DEF JoinTask, At
<1>7. CASE StartFails \/ Killed
  BY <1>2, <1>7 DEF StartFails, Drop, Killed
<1>8. ASSUME NEW c \in Children, TaskStep(c)
      PROVE  ChildOK' /\ Tries'
  <2>1. CASE Check(c)
    BY <1>3, <1>4, <2>1 DEF Check, At
  <2>2. CASE SpawnChild(c)
    <3>1. CASE Fail(c, loop[c].tries)
      BY <1>4, <2>2, <3>1 DEF SpawnChild, At
    <3>2. CASE Spawns(c, life) /\ Goto(c, "probe") /\ slot' = [slot EXCEPT ![c] = NextOf(c, life)]
      BY <2>2, <3>2, NewProcess DEF SpawnChild, At, Goto, AppOK
    <3> QED
      BY <2>2, <3>1, <3>2 DEF SpawnChild
  <2>3. CASE Answered(c) \/ ProbeTimeout(c) \/ Verify(c) \/ StopSeen(c) \/ BackoffOver(c)
    BY <1>3, <2>3 DEF Answered, ProbeTimeout, Verify, StopSeen, BackoffOver, At
  <2>4. CASE ChildExited(c)
    BY <1>4, <2>4 DEF ChildExited, At
  <2>5. CASE Terminate(c)
    <3>1. CASE Fail(c, loop[c].tries)
      <4>1. loop[c].tries \in 0 .. MaxRetries
        BY <2>5 DEF Terminate, At
      <4> QED
        BY <1>4, <3>1, <4>1
    <3>2. CASE Goto(c, "over") /\ slot' = [slot EXCEPT ![c] = None]
      BY <1>3, <2>5, <3>2 DEF Terminate, At
    <3> QED
      BY <2>5, <3>1, <3>2 DEF Terminate
  <2> QED
    BY <1>8, <2>1, <2>2, <2>3, <2>4, <2>5 DEF TaskStep
<1>9. CASE \/ (\E armed \in BOOLEAN : Launch(armed)) \/ PostgresUp \/ ServiceReady \/ Started
           \/ PushPids \/ FeederTick \/ Shutdown \/ StopPostgres \/ PgStep \/ UNCHANGED vars
           \/ (\E p \in alive : Crash(p) \/ Bind(p)) \/ (\E l \in late : LatePostgres(l))
           \/ \E l \in Lives : WdLife(l)
  BY <1>1, <1>9 DEF Launch, PostgresUp, ServiceReady, Started, PushPids, FeederTick, Shutdown,
    StopPostgres, PgStep, PostgresDown, PostgresRetry, PostgresRestart, Crash, Bind, LatePostgres,
    WdLife, WdTerm, WdKill, WdSweep, vars
<1> QED
  BY <1>2, <1>5, <1>6, <1>7, <1>8, <1>9 DEF Next, StartStep, StopStep

LEMMA PgOKStep ==
  ASSUME TypeOK, [Next]_vars
  PROVE  PgOK'
<1> USE TypeParts, BoundAssumption DEF PgOK
<1>1. CASE UNCHANGED pgVars
  BY <1>1 DEF pgVars
<1>2. CASE CutPostgresWatchdog
  BY <1>2 DEF CutPostgresWatchdog, AppOK
<1>3. CASE Killed \/ PostgresUp
  BY <1>3 DEF Killed, PostgresUp, AppOK
<1>4. CASE StartFails \/ Shutdown
  BY <1>2, <1>4 DEF StartFails, Drop, Shutdown
<1>5. CASE PgStep
  BY <1>5 DEF PgStep, PostgresDown, PostgresRetry, PostgresRestart
<1>6. CASE \E l \in late : LatePostgres(l)
  BY <1>6 DEF LatePostgres
<1>7. CASE \/ (\E armed \in BOOLEAN : Launch(armed)) \/ SpawnService \/ ServiceReady \/ Started
           \/ PushPids \/ FeederTick \/ JoinTask \/ StopPostgres \/ Bye \/ UNCHANGED vars
           \/ (\E p \in alive : Crash(p) \/ Bind(p)) \/ \E l \in Lives : WdLife(l)
  BY <1>1, <1>7 DEF Launch, SpawnService, ServiceReady, Started, PushPids, FeederTick, JoinTask,
    StopPostgres, Bye, Crash, Bind, WdLife, WdTerm, WdKill, WdSweep, vars
<1>8. ASSUME NEW c \in Children, TaskStep(c)
      PROVE  PgOK'
  BY <1>1, <1>8 DEF TaskStep, Check, SpawnChild, Answered, ProbeTimeout, Verify, ChildExited,
    StopSeen, Terminate, BackoffOver
<1> QED
  BY <1>3, <1>4, <1>5, <1>6, <1>7, <1>8 DEF Next, StartStep, StopStep

LEMMA WdOKStep ==
  ASSUME TypeOK, Sequenced, [Next]_vars
  PROVE  WdOK'
<1> USE TypeParts, OrderFacts, BoundAssumption, Collected DEF WdOK, Dog, WdPC
<1>1. CASE UNCHANGED wdVars
  BY <1>1 DEF wdVars
<1>14. \A l \in Lives : /\ \A pc \in WdPC : [wd EXCEPT ![l].pc = pc] \in [Lives -> Dog]
                        /\ \A P \in SUBSET Process : [wd EXCEPT ![l].pids = P] \in [Lives -> Dog]
  OBVIOUS
<1>15. life \in Lives /\ (life < MaxLives => life + 1 \in Lives)
  BY DEF AppOK, Lives
<1>2. CASE Forget
  <2>1. wd' \in [Lives -> Dog]
    <3>1. wd' = wd \/ wd' = [wd EXCEPT ![life].pc = "term"]
      BY <1>2 DEF Forget
    <3>2. CASE wd' = [wd EXCEPT ![life].pc = "term"]
      BY <1>15, <3>2
    <3> QED
      BY <3>1, <3>2
  <2>2. carry' = None /\ stale' = FALSE
    BY <1>2 DEF Forget
  <2>3. feeder' \in [on : BOOLEAN, last : SUBSET Process]
    BY <1>2 DEF Forget
  <2> QED
    BY <2>1, <2>2, <2>3
<1>3. ASSUME NEW armed \in BOOLEAN, Launch(armed)
      PROVE  WdOK'
  <2>1. wd' \in [Lives -> Dog] /\ UNCHANGED <<carry, stale>>
    BY <1>3, <1>14, <1>15 DEF Launch
  <2>2. feeder' \in [on : BOOLEAN, last : SUBSET Process]
    BY <1>3 DEF Launch
  <2> QED
    BY <2>1, <2>2
<1>4. CASE PostgresUp
  <2>1. NextOf(PG, life) \in Process
    BY <1>4, NewProcess DEF PostgresUp, Postmaster, AppOK
  <2>2. carry' \in SUBSET Process /\ UNCHANGED <<wd, feeder, stale>>
    BY <1>4, <2>1 DEF PostgresUp
  <2> QED
    BY <2>2
<1>5. CASE SpawnService \/ ServiceReady
  BY <1>5 DEF SpawnService, ServiceReady
<1>6. CASE PushPids
  <2>1. wd' \in [Lives -> Dog] /\ carry' = None /\ UNCHANGED feeder
    <3>1. wd' = wd \/ (wd' = [wd EXCEPT ![life].pids = carry] /\ carry \in SUBSET Process)
      BY <1>6 DEF PushPids, send_pids
    <3>2. CASE wd' = [wd EXCEPT ![life].pids = carry] /\ carry \in SUBSET Process
      BY <1>6, <1>15, <3>2 DEF PushPids
    <3> QED
      BY <1>6, <3>1, <3>2 DEF PushPids
  <2>2. stale' \in BOOLEAN
    BY <1>6 DEF PushPids
  <2> QED
    BY <2>1, <2>2
<1>7. CASE FeederTick
  <2>1. wd' \in [Lives -> Dog] /\ UNCHANGED <<carry, stale>>
    BY <1>7, <1>14, <1>15 DEF FeederTick, send_pids
  <2>2. feeder' \in [on : BOOLEAN, last : SUBSET Process]
    BY <1>7 DEF FeederTick
  <2> QED
    BY <2>1, <2>2
<1>8. CASE Shutdown
  BY <1>8 DEF Shutdown
<1>9. CASE Bye
  BY <1>9 DEF Bye, Watched
<1>10. CASE StartFails \/ Killed
  BY <1>2, <1>10 DEF StartFails, Drop, Killed
<1>11. ASSUME NEW l \in Lives, WdLife(l)
       PROVE  WdOK'
  <2>1. UNCHANGED <<feeder, carry, stale>>
    BY <1>11 DEF WdLife, WdTerm, WdKill, WdSweep
  <2>2. wd' \in [Lives -> Dog]
    <3>1. CASE \E pc \in WdPC : WdStep(l, pc)
      BY <3>1 DEF WdStep
    <3>2. CASE WdSweep(l) /\ wd[l].pass # 3 /\ wd' = [wd EXCEPT ![l].pass = @ + 1]
      <4>1. wd[l].pass + 1 \in 1 .. 3
        BY <3>2
      <4> QED
        BY <3>2, <4>1
    <3> QED
      BY <1>11, <3>1, <3>2 DEF WdLife, WdTerm, WdKill, WdSweep
  <2> QED
    BY <2>1, <2>2
<1>12. CASE \/ Started \/ JoinTask \/ StopPostgres \/ PgStep \/ UNCHANGED vars
            \/ (\E p \in alive : Crash(p) \/ Bind(p)) \/ \E l \in late : LatePostgres(l)
  BY <1>1, <1>12 DEF Started, JoinTask, StopPostgres, PgStep, PostgresDown, PostgresRetry,
    PostgresRestart, Crash, Bind, LatePostgres, vars
<1>13. ASSUME NEW c \in Children, TaskStep(c)
       PROVE  WdOK'
  BY <1>1, <1>13 DEF TaskStep, Check, SpawnChild, Answered, ProbeTimeout, Verify, ChildExited,
    StopSeen, Terminate, BackoffOver
<1> QED
  BY <1>3, <1>4, <1>5, <1>6, <1>7, <1>8, <1>9, <1>10, <1>11, <1>12, <1>13
  DEF Next, StartStep, StopStep

LEMMA TypeOKStep ==
  ASSUME TypeOK, Tries, Fresh, Sequenced, [Next]_vars
  PROVE  TypeOK' /\ Tries'
<1>1. AppOK' /\ ProcOK' /\ ChildOK' /\ PgOK' /\ WdOK' /\ Tries'
  BY AppOKStep, ProcOKStep, ChildOKStep, PgOKStep, WdOKStep
<1> QED
  BY <1>1, TypeParts, PTL

-----------------------------------------------------------------------------
(* What a watchdog is told, and what it knows. *)

\* A watchdog knows what it knew, or what was collected.
LEMMA ToldWhat ==
  ASSUME TypeOK, [Next]_vars
  PROVE  \A l \in Lives : \/ wd'[l].pids \in {wd[l].pids, collect_child_pids}
                          \/ carry # None /\ wd'[l].pids = carry
<1> USE TypeParts DEF WdOK, Dog
<1>1. ASSUME NEW l \in Lives, NEW pc, wd' = [wd EXCEPT ![l].pc = pc]
      PROVE  \A m \in Lives : wd'[m].pids = wd[m].pids
  BY <1>1
<1>2. CASE Forget \/ Bye \/ (\E armed \in BOOLEAN : Launch(armed))
  <2>1. life \in Lives /\ (life < MaxLives => life + 1 \in Lives)
    BY BoundAssumption DEF AppOK, Lives
  <2>2. \/ wd' = wd \/ wd' = [wd EXCEPT ![life].pc = "term"] \/ wd' = [wd EXCEPT ![life].pc = "done"]
        \/ life < MaxLives /\ wd' = [wd EXCEPT ![life + 1].pc = "watch"]
    BY <1>2 DEF Forget, Bye, Launch
  <2> QED
    BY <1>1, <2>1, <2>2
<1>3. CASE PushPids
  BY <1>3 DEF PushPids, send_pids
<1>4. CASE FeederTick
  BY <1>4 DEF FeederTick, send_pids
<1>5. ASSUME NEW l \in Lives, WdLife(l)
      PROVE  \A m \in Lives : wd'[m].pids = wd[m].pids
  <2>1. wd' = [wd EXCEPT ![l].pass = @ + 1] \/ \E pc \in WdPC : wd' = [wd EXCEPT ![l].pc = pc]
    BY <1>5 DEF WdLife, WdTerm, WdKill, WdSweep, WdStep, WdPC
  <2> QED
    BY <2>1
<1>6. CASE StartFails \/ Killed
  BY <1>2, <1>6 DEF StartFails, Drop, Killed
<1>7. CASE \/ PostgresUp \/ SpawnService \/ ServiceReady \/ Started \/ Shutdown \/ JoinTask
           \/ StopPostgres \/ PgStep \/ UNCHANGED vars \/ (\E p \in alive : Crash(p) \/ Bind(p))
           \/ (\E l \in late : LatePostgres(l)) \/ \E c \in Children : TaskStep(c)
  <2>1. UNCHANGED wd
    BY <1>7
    DEF PostgresUp, SpawnService, ServiceReady, Started, Shutdown, JoinTask, StopPostgres, PgStep,
      PostgresDown, PostgresRetry, PostgresRestart, Crash, Bind, LatePostgres, TaskStep, Check,
      SpawnChild, Answered, ProbeTimeout, Verify, ChildExited, StopSeen, Terminate, BackoffOver,
      vars, wdVars
  <2> QED
    BY <2>1
<1> QED
  BY <1>2, <1>3, <1>4, <1>5, <1>6, <1>7 DEF Next, StartStep, StopStep

-----------------------------------------------------------------------------
(* Nothing that is written down names a process that is spawned later. *)
LEMMA FreshStep ==
  ASSUME IInv, [Next]_vars
  PROVE  Fresh'
<1> USE TypeParts, OrderFacts, BoundAssumption, Collected DEF IInv
<1>1. \A P \in SUBSET Process : Spawned(P) => Spawned(P)'
  BY SpawnedStays
<1>2. Spawned(collect_child_pids) /\ Spawned(Postmasters)
  BY DEF Fresh, Spawned, collect_child_pids, Postmasters
<1>3. Spawned(alive)'
  <2>1. CASE alive' \subseteq alive /\ UNCHANGED born
    BY <2>1 DEF Fresh, Spawned
  <2>2. ASSUME NEW s \in Services, NEW l \in Lives, Spawns(s, l)
        PROVE  Spawned(alive)'
    <3>1. \A p \in alive : p.n <= born'[p.life][p.svc]
      BY <1>1 DEF Fresh, Spawned, ProcOK
    <3>2. NextOf(s, l).n <= born'[l][s] /\ NextOf(s, l).life = l /\ NextOf(s, l).svc = s
      BY <2>2, NewProcess DEF Process
    <3> QED
      BY <2>2, <3>1, <3>2, NewProcess DEF Spawned
  <2> QED
    BY <2>1, <2>2, Population DEF IInv
<1>4. life' >= life /\ \A l \in Lives : l > life' => \A s \in Services : born'[l][s] = 0
  <2>1. life' = life \/ life' = life + 1
    BY DEF Next, vars, appVars, Launch, StartStep, PostgresUp, SpawnService, ServiceReady, Started,
      PushPids, StartFails, Drop, Forget, FeederTick, Shutdown, StopStep, JoinTask, StopPostgres,
      Bye, Killed, Crash, Bind, TaskStep, Check, SpawnChild, Answered, ProbeTimeout, Verify,
      ChildExited, StopSeen, Terminate, BackoffOver, PgStep, PostgresDown, PostgresRetry,
      PostgresRestart, LatePostgres, WdLife, WdTerm, WdKill, WdSweep
  <2>2. \A l \in Lives : l > life => \A s \in Services : born'[l][s] = 0
    <3>1. CASE UNCHANGED born
      BY <3>1 DEF Fresh
    <3>2. ASSUME NEW s \in Services, NEW l \in Lives, l <= life, Spawns(s, l)
          PROVE  \A m \in Lives : m > life => \A t \in Services : born'[m][t] = 0
      BY <3>2 DEF Spawns, Fresh, ProcOK, AppOK, Lives
    <3> QED
      BY <3>1, <3>2, Population
  <2> QED
    BY <2>1, <2>2 DEF AppOK, Lives
<1>5. Spawned(feeder.last)'
  <2>1. feeder'.last \in {feeder.last, {}, Postmasters, collect_child_pids}
    <3>1. CASE \E armed \in BOOLEAN : Launch(armed)
      BY <3>1 DEF Launch
    <3>2. CASE FeederTick
      BY <3>2 DEF FeederTick, WdOK
    <3>3. CASE StartFails \/ Shutdown \/ Killed
      BY <3>3 DEF StartFails, Drop, Forget, Shutdown, Killed
    <3>4. CASE \/ StartStep \/ StopStep \/ PgStep \/ UNCHANGED vars
               \/ (\E p \in alive : Crash(p) \/ Bind(p)) \/ (\E c \in Children : TaskStep(c))
               \/ (\E l \in late : LatePostgres(l)) \/ \E l \in Lives : WdLife(l)
      <4>1. UNCHANGED feeder
        BY <3>4
        DEF StartStep, PostgresUp, SpawnService, ServiceReady, Started, PushPids, StopStep, JoinTask,
          StopPostgres, Bye, PgStep, PostgresDown, PostgresRetry, PostgresRestart, Crash, Bind,
          TaskStep, Check, SpawnChild, Answered, ProbeTimeout, Verify, ChildExited, StopSeen,
          Terminate, BackoffOver, LatePostgres, WdLife, WdTerm, WdKill, WdSweep, vars, wdVars
      <4> QED
        BY <4>1
    <3> QED
      BY <3>1, <3>2, <3>3, <3>4 DEF Next
  <2>2. Spawned({})
    BY DEF Spawned
  <2>3. \A P \in {feeder.last, {}, Postmasters, collect_child_pids} : P \in SUBSET Process /\ Spawned(P)
    BY <1>2, <2>2 DEF Fresh, WdOK
  <2> QED
    BY <1>1, <2>1, <2>3 DEF Spawned
<1>6. \A c \in Children : slot'[c] # None => Spawned({slot[c]})'
  <2>1. ASSUME NEW c \in Children, slot'[c] = slot[c] \/ slot'[c] = None
        PROVE  slot'[c] # None => Spawned({slot[c]})'
    <3>1. slot[c] # None => {slot[c]} \in SUBSET Process /\ Spawned({slot[c]})
      BY DEF Fresh
    <3>2. slot[c] # None => \A p \in {slot[c]} : p.n <= born'[p.life][p.svc]
      BY <1>1, <3>1 DEF Spawned
    <3> QED
      BY <2>1, <3>2 DEF Spawned
  <2>2. ASSUME NEW d \in Children, TaskStep(d), NEW c \in Children
        PROVE  slot'[c] # None => Spawned({slot[c]})'
    <3>1. CASE SpawnChild(d) /\ slot' = [slot EXCEPT ![d] = NextOf(d, life)] /\ Spawns(d, life) /\ c = d
      <4>1. slot'[c] = NextOf(d, life) /\ NextOf(d, life) \in alive'
        BY <3>1, NewProcess DEF ChildOK, AppOK
      <4> QED
        BY <1>3, <4>1 DEF Spawned
    <3>2. CASE slot'[c] = slot[c] \/ slot'[c] = None
      BY <2>1, <3>2
    <3> QED
      BY <2>2, <3>1, <3>2 DEF TaskStep, Check, SpawnChild, Answered, ProbeTimeout, Verify,
        ChildExited, StopSeen, Terminate, BackoffOver, Fail, ChildOK
  <2>3. CASE \/ (\E armed \in BOOLEAN : Launch(armed)) \/ StartStep \/ StartFails \/ FeederTick
             \/ Shutdown \/ StopStep \/ Killed \/ PgStep \/ UNCHANGED vars
             \/ (\E p \in alive : Crash(p) \/ Bind(p)) \/ (\E l \in late : LatePostgres(l))
             \/ \E l \in Lives : WdLife(l)
    <3>1. UNCHANGED slot \/ slot' = [c \in Children |-> None]
      BY <2>3
      DEF Launch, StartStep, PostgresUp, SpawnService, ServiceReady, Started, PushPids, StartFails,
        Drop, Forget, FeederTick, Shutdown, StopStep, JoinTask, StopPostgres, Bye, Killed, PgStep,
        PostgresDown, PostgresRetry, PostgresRestart, Crash, Bind, LatePostgres, WdLife, WdTerm,
        WdKill, WdSweep, vars, childVars
    <3> QED
      BY <2>1, <3>1
  <2> QED
    BY <2>2, <2>3 DEF Next
<1>7. carry' # None => Spawned(carry)'
  <2>1. CASE PostgresUp
    <3>1. \A p \in carry' : p \in alive' \/ \E c \in Children : slot'[c] = p /\ p # None
      BY <2>1, NewProcess DEF PostgresUp, Postmaster, childVars, AppOK
    <3> QED
      BY <1>3, <1>6, <3>1 DEF Spawned
  <2>2. CASE carry' \in {None, carry, collect_child_pids}
    <3>1. carry' # None => carry' \in SUBSET Process /\ Spawned(carry')
      BY <1>2, <2>2 DEF Fresh, WdOK
    <3> QED
      BY <1>1, <3>1 DEF Spawned
  <2>3. CASE \/ (\E armed \in BOOLEAN : Launch(armed)) \/ SpawnService \/ ServiceReady \/ Started
             \/ PushPids \/ StartFails \/ FeederTick \/ Shutdown \/ StopStep \/ Killed \/ PgStep
             \/ UNCHANGED vars \/ (\E p \in alive : Crash(p) \/ Bind(p))
             \/ (\E c \in Children : TaskStep(c)) \/ (\E l \in late : LatePostgres(l))
             \/ \E l \in Lives : WdLife(l)
    BY <2>2, <2>3
    DEF Launch, SpawnService, ServiceReady, Started, PushPids, StartFails, Drop, Forget, FeederTick,
      Shutdown, StopStep, JoinTask, StopPostgres, Bye, Killed, PgStep, PostgresDown, PostgresRetry,
      PostgresRestart, Crash, Bind, TaskStep, Check, SpawnChild, Answered, ProbeTimeout, Verify,
      ChildExited, StopSeen, Terminate, BackoffOver, LatePostgres, WdLife, WdTerm, WdKill, WdSweep,
      vars, wdVars
  <2> QED
    BY <2>1, <2>3 DEF Next, StartStep
<1>8. \A l \in Lives : Spawned(wd[l].pids)'
  <2>1. \A l \in Lives : \/ wd'[l].pids \in {wd[l].pids, collect_child_pids}
                         \/ carry # None /\ wd'[l].pids = carry
    BY ToldWhat
  <2>2. ASSUME NEW l \in Lives
        PROVE  wd'[l].pids \in SUBSET Process /\ Spawned(wd'[l].pids)
    BY <1>2, <2>1 DEF Fresh, WdOK, Dog
  <2> QED
    BY <1>1, <2>2 DEF Spawned
<1>9. \A l \in late' : l <= life'
  <2>1. late' \subseteq late \cup {life}
    BY DEF Next, vars, pgVars, Launch, StartStep, PostgresUp, SpawnService, ServiceReady, Started,
      PushPids, StartFails, Drop, CutPostgresWatchdog, FeederTick, Shutdown, StopStep, JoinTask,
      StopPostgres, Bye, Killed, Crash, Bind, TaskStep, Check, SpawnChild, Answered, ProbeTimeout,
      Verify, ChildExited, StopSeen, Terminate, BackoffOver, PgStep, PostgresDown, PostgresRetry,
      PostgresRestart, LatePostgres, WdLife, WdTerm, WdKill, WdSweep
  <2>2. life \in Nat /\ life' \in Nat /\ late \subseteq Nat
    BY AppOKStep DEF AppOK, PgOK, Lives
  <2> QED
    BY <1>4, <2>1, <2>2 DEF Fresh
<1> QED
  BY <1>3, <1>4, <1>5, <1>6, <1>7, <1>8, <1>9 DEF Fresh

-----------------------------------------------------------------------------
(* Children are in the hands of their tasks. *)
LEMMA InHandStep ==
  ASSUME IInv, [Next]_vars
  PROVE  InHand'
<1> USE TypeParts, OrderFacts, NoneAssumption DEF IInv
<1>1. ASSUME \A p \in alive' \ alive : p.svc = PG,
             UNCHANGED <<loop, slot, life>>, (at' = "off") = (at = "off")
      PROVE  InHand'
  BY <1>1 DEF InHand, Mine
<1>2. CASE Forget \/ Bye
  BY <1>2 DEF Forget, Bye, Idle, InHand, HandPC
<1>3. ASSUME NEW armed \in BOOLEAN, Launch(armed)
      PROVE  InHand'
  <2>1. at = "off" /\ life' = life + 1 /\ life + 1 \in Lives /\ UNCHANGED <<alive, loop, slot>>
    BY <1>3, BoundAssumption DEF Launch, procVars, childVars, AppOK, Lives
  <2>2. \A p \in alive : p.life # life + 1
    <3>1. ASSUME NEW p \in alive, p.life = life + 1
          PROVE  FALSE
      <4>1. p \in Process /\ p.svc \in Services /\ p.n >= 1 /\ p.n \in Nat
        BY BoundAssumption DEF ProcOK, Process
      <4>2. born[life + 1][p.svc] = 0
        BY <2>1, <4>1 DEF Fresh, AppOK, Lives
      <4> QED
        BY <3>1, <4>1, <4>2 DEF Fresh, Spawned
    <3> QED
      BY <3>1
  <2> QED
    BY <2>1, <2>2 DEF InHand, Mine, HandPC
<1>4. ASSUME NEW c \in Children, at # "off", UNCHANGED <<at, life>> \/ (at' # "off" /\ UNCHANGED life),
             alive' \subseteq alive,
             \A d \in Children \ {c} : loop'[d].pc = loop[d].pc /\ slot'[d] = slot[d],
             slot'[c] \in {slot[c], None},
             loop'[c].pc \in HandPC => loop[c].pc \in HandPC /\ slot'[c] = slot[c],
             loop'[c].pc \in HandPC \/ \A p \in Mine : p.svc = c => p \notin alive'
      PROVE  InHand'
  <2>1. \A p \in Mine' : p \in Mine /\ (p.svc # PG => p.svc \in Children)
    BY <1>4 DEF Mine, ProcOK, Process, Services
  <2>2. at' # "off"
    BY <1>4
  <2>3. ASSUME NEW p \in Mine', p.svc # PG
        PROVE  slot'[p.svc] = p /\ loop'[p.svc].pc \in HandPC
    <3>1. slot[p.svc] = p /\ loop[p.svc].pc \in HandPC /\ p \in alive'
      BY <1>4, <2>1, <2>3 DEF InHand, Mine
    <3>2. CASE p.svc # c
      BY <1>4, <2>1, <2>3, <3>1, <3>2
    <3>3. CASE p.svc = c
      BY <1>4, <2>1, <2>3, <3>1, <3>3
    <3> QED
      BY <3>2, <3>3
  <2>4. \A d \in Children : loop'[d].pc \in HandPC => slot'[d] # None
    BY <1>4 DEF InHand
  <2>5. \A d \in Children : slot'[d] # None => slot'[d].svc = d /\ slot'[d].life = life'
    BY <1>4 DEF InHand
  <2> QED
    BY <2>2, <2>3, <2>4, <2>5 DEF InHand
<1>5. \A c \in Children : loop[c].pc # "none" => at # "off"
  BY DEF InHand
<1>6. \A c \in Children : loop[c].pc \notin HandPC => at = "off" \/ \A p \in Mine : p.svc # c
  BY DEF InHand
<1>7. CASE SpawnService
  <2>1. PICK c \in Children : loop[c].pc = "none" /\ loop' = [loop EXCEPT ![c] = [Idle EXCEPT !.pc = "check"]]
    <3>1. step \in 1 .. Len(Order) /\ loop[Order[step]].pc = "none"
      BY <1>7 DEF SpawnService, AppOK, Sequenced, Starting
    <3> QED
      BY <1>7, <3>1 DEF SpawnService
  <2>2. at # "off" /\ at' # "off" /\ UNCHANGED <<life, alive, slot>>
    BY <1>7 DEF SpawnService, procVars
  <2>3. loop'[c].pc \notin HandPC /\ \A d \in Children \ {c} : loop'[d].pc = loop[d].pc
    BY <2>1 DEF ChildOK, Idle, HandPC
  <2>4. \A p \in Mine : p.svc # c
    BY <1>6, <2>1, <2>2 DEF HandPC
  <2> QED
    BY <1>4, <2>2, <2>3, <2>4
<1>8. CASE JoinTask
  <2>1. PICK c \in Children : c = Order[step]
    BY <1>8 DEF JoinTask, AppOK, Sequenced, Stopping
  <2>2. CASE UNCHANGED <<procVars, childVars>>
    BY <1>1, <1>8, <2>2 DEF JoinTask, procVars, childVars
  <2>3. CASE Ends({slot[c]}) /\ Goto(c, "over") /\ UNCHANGED slot
    <3>1. loop'[c].pc = "over" /\ \A d \in Children \ {c} : loop'[d].pc = loop[d].pc
      BY <2>3 DEF Goto, ChildOK
    <3>2. \A p \in Mine : p.svc = c => p \notin alive'
      BY <1>8, <2>3 DEF InHand, JoinTask, Ends
    <3> QED
      BY <1>4, <1>8, <2>3, <3>1, <3>2 DEF JoinTask, Ends, HandPC
  <2> QED
    BY <1>8, <2>1, <2>2, <2>3 DEF JoinTask
<1>9. ASSUME NEW c \in Children, TaskStep(c)
      PROVE  InHand'
  <2>1. at # "off" /\ UNCHANGED <<at, life>>
    BY <1>5, <1>9 DEF TaskStep, Check, SpawnChild, Answered, ProbeTimeout, Verify, ChildExited,
      StopSeen, Terminate, BackoffOver, At, appVars
  <2>2. ASSUME NEW pc, Goto(c, pc)
        PROVE  loop'[c].pc = pc /\ \A d \in Children \ {c} : loop'[d].pc = loop[d].pc
    BY <2>2 DEF Goto, ChildOK
  <2>3. ASSUME NEW n, Fail(c, n)
        PROVE  /\ loop'[c].pc \notin HandPC /\ slot'[c] = None
               /\ \A d \in Children \ {c} : loop'[d].pc = loop[d].pc /\ slot'[d] = slot[d]
    BY <2>3 DEF Fail, ChildOK, HandPC
  <2>4. ASSUME UNCHANGED alive, loop[c].pc \in {"check", "spawn", "backoff"},
               (\E pc : Goto(c, pc) /\ pc \notin HandPC /\ UNCHANGED slot) \/ (\E n : Fail(c, n))
        PROVE  InHand'
    <3>1. \A p \in Mine : p.svc # c
      BY <1>6, <2>1, <2>4 DEF HandPC
    <3>2. CASE \E pc : Goto(c, pc) /\ pc \notin HandPC /\ UNCHANGED slot
      BY <1>4, <2>1, <2>2, <2>4, <3>1, <3>2
    <3>3. CASE \E n : Fail(c, n)
      BY <1>4, <2>1, <2>3, <2>4, <3>1, <3>3
    <3> QED
      BY <2>4, <3>2, <3>3
  <2>5. ASSUME UNCHANGED <<alive, slot>>, NEW pc \in HandPC, Goto(c, pc), loop[c].pc \in HandPC
        PROVE  InHand'
    BY <1>4, <2>1, <2>2, <2>5
  <2>6. CASE Check(c)
    BY <2>4, <2>6 DEF Check, At, HandPC, procVars
  <2>7. CASE SpawnChild(c)
    <3>1. CASE Fail(c, loop[c].tries) /\ UNCHANGED procVars
      BY <2>4, <2>7, <3>1 DEF SpawnChild, At, procVars
    <3>2. CASE Spawns(c, life) /\ Goto(c, "probe") /\ slot' = [slot EXCEPT ![c] = NextOf(c, life)]
      <4>1. \A p \in Mine : p.svc # c
        BY <1>6, <2>1, <2>7 DEF SpawnChild, At, HandPC
      <4>2. /\ Mine' = Mine \cup {NextOf(c, life)} /\ slot'[c] = NextOf(c, life)
            /\ NextOf(c, life) \in Process /\ NextOf(c, life).svc = c /\ NextOf(c, life).life = life
        BY <2>1, <3>2, NewProcess DEF Mine, ChildOK, AppOK
      <4>3. \A d \in Children \ {c} : slot'[d] = slot[d]
        BY <3>2 DEF ChildOK
      <4>4. \A p \in Mine : p.svc # PG => p.svc \in Children
        BY DEF Mine, ProcOK, Process, Services
      <4>5. NextOf(c, life) # None
        BY <4>2
      <4> QED
        BY <2>1, <2>2, <3>2, <4>1, <4>2, <4>3, <4>4, <4>5 DEF InHand, HandPC
    <3> QED
      BY <2>7, <3>1, <3>2 DEF SpawnChild
  <2>8. CASE Answered(c) \/ ProbeTimeout(c) \/ Verify(c)
    BY <2>5, <2>8 DEF Answered, ProbeTimeout, Verify, At, HandPC, procVars
  <2>9. CASE StopSeen(c)
    BY <2>4, <2>5, <2>9 DEF StopSeen, At, HandPC, procVars
  <2>10. CASE ChildExited(c)
    <3>1. PICK n : Fail(c, n)
      BY <2>10 DEF ChildExited
    <3>2. \A p \in Mine : p.svc # c
      BY <2>1, <2>10 DEF ChildExited, InHand, Mine
    <3> QED
      BY <1>4, <2>1, <2>3, <2>10, <3>1, <3>2 DEF ChildExited, procVars
  <2>11. CASE Terminate(c)
    <3>1. alive' \subseteq alive /\ \A p \in Mine : p.svc = c => p \notin alive'
      BY <2>1, <2>11 DEF Terminate, Ends, InHand
    <3>2. CASE Fail(c, loop[c].tries)
      BY <1>4, <2>1, <2>3, <3>1, <3>2
    <3>3. CASE Goto(c, "over") /\ slot' = [slot EXCEPT ![c] = None]
      <4>1. slot'[c] = None /\ \A d \in Children \ {c} : slot'[d] = slot[d]
        BY <3>3 DEF ChildOK
      <4>2. loop'[c].pc = "over" /\ \A d \in Children \ {c} : loop'[d].pc = loop[d].pc
        BY <2>2, <3>3
      <4> QED
        BY <1>4, <2>1, <3>1, <4>1, <4>2 DEF HandPC
    <3> QED
      BY <2>11, <3>2, <3>3 DEF Terminate
  <2>12. CASE BackoffOver(c)
    BY <2>4, <2>12 DEF BackoffOver, At, HandPC, procVars
  <2> QED
    BY <1>9, <2>6, <2>7, <2>8, <2>9, <2>10, <2>11, <2>12 DEF TaskStep
<1>10. CASE StartFails \/ Killed
  BY <1>2, <1>10 DEF StartFails, Drop, Killed
<1>11. CASE PostgresUp \/ PostgresRestart \/ \E l \in late : LatePostgres(l)
  <2>1. UNCHANGED <<loop, slot, life>> /\ (at' = "off") = (at = "off")
    BY <1>11 DEF PostgresUp, PostgresRestart, LatePostgres, childVars, appVars
  <2>2. alive' = alive \/ \E l \in Lives : Spawns(PG, l)
    BY <1>11 DEF PostgresUp, PostgresRestart, LatePostgres, Postmaster, procVars, AppOK, PgOK
  <2>3. \A p \in alive' \ alive : p.svc = PG
    BY <2>2, NewProcess
  <2> QED
    BY <1>1, <2>1, <2>3
<1>12. CASE \/ ServiceReady \/ Started \/ PushPids \/ FeederTick \/ Shutdown \/ StopPostgres
            \/ PostgresDown \/ PostgresRetry \/ UNCHANGED vars
            \/ (\E p \in alive : Crash(p) \/ Bind(p)) \/ \E l \in Lives : WdLife(l)
  <2>1. UNCHANGED <<loop, slot, life>> /\ (at' = "off") = (at = "off")
    BY <1>12
    DEF ServiceReady, Started, PushPids, FeederTick, Shutdown, StopPostgres, PostgresDown,
      PostgresRetry, Crash, Bind, WdLife, WdTerm, WdKill, WdSweep, vars, childVars, appVars
  <2>2. alive' \subseteq alive
    BY <1>12
    DEF ServiceReady, Started, PushPids, FeederTick, Shutdown, StopPostgres, PostgresDown,
      PostgresRetry, Crash, Bind, WdLife, WdTerm, WdKill, WdSweep, Ends, vars, procVars
  <2> QED
    BY <1>1, <2>1, <2>2
<1> QED
  BY <1>2, <1>3, <1>7, <1>8, <1>9, <1>10, <1>11, <1>12 DEF Next, StartStep, StopStep, PgStep
-----------------------------------------------------------------------------
(* Children are started and stopped in order. *)

\* A supervision task moves itself only, and only while it is in its loop.
LEMMA TaskMoves ==
  ASSUME TypeOK, NEW c \in Children, TaskStep(c)
  PROVE  /\ UNCHANGED <<appVars, pgVars, wdVars>>
         /\ loop[c].pc \notin {"none", "over", "failed"}
         /\ \A d \in Children \ {c} : loop'[d] = loop[d] /\ slot'[d] = slot[d]
<1> USE TypeParts DEF ChildOK
<1>1. UNCHANGED <<appVars, pgVars, wdVars>> /\ loop[c].pc \notin {"none", "over", "failed"}
  BY DEF TaskStep, Check, SpawnChild, Answered, ProbeTimeout, Verify, ChildExited, StopSeen,
    Terminate, BackoffOver, At
<1>2. \A d \in Children \ {c} : loop'[d] = loop[d]
  BY DEF TaskStep, Check, SpawnChild, Answered, ProbeTimeout, Verify, ChildExited, StopSeen,
    Terminate, BackoffOver, Fail, Goto
<1>3. \A d \in Children \ {c} : slot'[d] = slot[d]
  BY DEF TaskStep, Check, SpawnChild, Answered, ProbeTimeout, Verify, ChildExited, StopSeen,
    Terminate, BackoffOver, Fail
<1> QED
  BY <1>1, <1>2, <1>3

LEMMA SequencedStep ==
  ASSUME IInv, [Next]_vars
  PROVE  Sequenced'
<1> USE TypeParts, OrderFacts DEF IInv
<1>1. CASE UNCHANGED <<at, step, loop>>
  BY <1>1 DEF Sequenced
<1>2. CASE at' \in {"off", "up"}
  BY <1>2 DEF Sequenced, Starting, Stopping
<1>3. ASSUME NEW armed \in BOOLEAN, Launch(armed)
      PROVE  Sequenced'
  <2>1. at' = "postgres" /\ step' = 1 /\ \A i \in 1 .. Len(Order) : loop'[Order[i]].pc = "none"
    BY <1>3 DEF Launch, InHand, childVars
  <2> QED
    BY <2>1 DEF Sequenced, Starting, Stopping
<1>4. CASE PostgresUp
  <2>1. at = "postgres" /\ at' = "spawn" /\ step' = step /\ loop' = loop
    BY <1>4 DEF PostgresUp, childVars
  <2> QED
    BY <2>1 DEF Sequenced, Starting, Stopping
<1>5. CASE SpawnService
  <2>1. at = "spawn" /\ at' = "wait" /\ step' = step /\ step \in 1 .. Len(Order)
    BY <1>5 DEF SpawnService, AppOK, Sequenced, Starting
  <2>2. \A d \in Children \ {Order[step]} : loop'[d] = loop[d]
    BY <1>5 DEF SpawnService, ChildOK
  <2>3. \A i \in 1 .. Len(Order) : i > step => Order[i] # Order[step]
    BY <2>1
  <2> QED
    BY <2>1, <2>2, <2>3 DEF Sequenced, Starting, Stopping
<1>6. CASE ServiceReady
  <2>1. at = "wait" /\ at' = "spawn" /\ step' = step + 1 /\ loop' = loop
    BY <1>6 DEF ServiceReady, childVars
  <2> QED
    BY <2>1 DEF Sequenced, Starting, Stopping, AppOK
<1>7. CASE Shutdown
  <2>1. at' = "stop" /\ step' = Len(Order)
    BY <1>7 DEF Shutdown
  <2> QED
    BY <2>1 DEF Sequenced, Starting, Stopping
<1>8. CASE JoinTask
  <2>1. at = "stop" /\ at' = "stop" /\ step' = step - 1 /\ step \in 1 .. Len(Order)
    BY <1>8 DEF JoinTask, AppOK, Sequenced, Stopping
  <2>2. /\ loop'[Order[step]].pc \in {"over", "failed"}
        /\ \A d \in Children : loop'[d] = loop[d] \/ loop'[d].pc = "over"
    <3>1. PICK c \in Children : c = Order[step]
      BY <2>1
    <3>2. CASE At(c, {"over", "failed"}) /\ loop' = loop
      BY <3>1, <3>2 DEF At
    <3>3. CASE Goto(c, "over")
      BY <3>1, <3>3 DEF Goto, ChildOK, Task
    <3> QED
      BY <1>8, <3>1, <3>2, <3>3 DEF JoinTask, childVars
  <2>3. ASSUME NEW i \in 1 .. Len(Order), i > step'
        PROVE  loop'[Order[i]].pc \in {"over", "failed"}
    <3>1. i = step \/ i > step
      BY <2>1, <2>3
    <3> QED
      BY <2>1, <2>2, <3>1 DEF Sequenced, Stopping
  <2> QED
    BY <2>1, <2>3 DEF Sequenced, Starting, Stopping
<1>9. CASE StopPostgres
  <2>1. at = "stop" /\ at' = "bye" /\ step' = step /\ step = 0 /\ loop' = loop
    BY <1>9 DEF StopPostgres, childVars
  <2> QED
    BY <2>1 DEF Sequenced, Starting, Stopping
<1>10. CASE Started \/ StartFails \/ Killed \/ Bye
  BY <1>2, <1>10 DEF Started, StartFails, Drop, Killed, Forget, Bye
<1>11. ASSUME NEW c \in Children, TaskStep(c)
       PROVE  Sequenced'
  <2>1. /\ UNCHANGED <<at, step>> /\ loop[c].pc \notin {"none", "over", "failed"}
        /\ \A d \in Children \ {c} : loop'[d] = loop[d]
    BY <1>11, TaskMoves DEF appVars
  <2>2. \A i \in 1 .. Len(Order) :
          loop[Order[i]].pc \in {"none", "over", "failed"} => loop'[Order[i]] = loop[Order[i]]
    BY <2>1
  <2> QED
    BY <2>1, <2>2 DEF Sequenced
<1>12. CASE PushPids \/ FeederTick \/ PgStep \/ UNCHANGED vars
            \/ (\E p \in alive : Crash(p) \/ Bind(p)) \/ (\E l \in late : LatePostgres(l))
            \/ \E l \in Lives : WdLife(l)
  BY <1>1, <1>12
  DEF PushPids, FeederTick, PgStep, PostgresDown, PostgresRetry, PostgresRestart, Crash, Bind,
    LatePostgres, WdLife, WdTerm, WdKill, WdSweep, vars, appVars, childVars
<1> QED
  BY <1>3, <1>4, <1>5, <1>6, <1>7, <1>8, <1>9, <1>10, <1>11, <1>12 DEF Next, StartStep, StopStep

-----------------------------------------------------------------------------
(* The feeder and the orphan watchdog. *)
LEMMA WatchingStep ==
  ASSUME IInv, [Next]_vars
  PROVE  Watching'
<1> USE TypeParts DEF IInv, AppOK, WdOK, Dog, Lives
<1>1. CASE UNCHANGED <<at, life, wd, feeder, carry>>
  BY <1>1 DEF Watching
<1>2. CASE Forget
  <2>1. ~feeder'.on /\ carry' = None /\ life' = life
    BY <1>2 DEF Forget
  <2>2. \A l \in Lives : l > life => wd'[l] = wd[l]
    BY <1>2 DEF Forget
  <2> QED
    BY <2>1, <2>2 DEF Watching
<1>3. ASSUME NEW armed \in BOOLEAN, Launch(armed)
      PROVE  Watching'
  <2>1. at' = "postgres" /\ life' = life + 1 /\ life + 1 \in Lives /\ UNCHANGED carry
    BY <1>3, BoundAssumption DEF Launch
  <2>2. feeder'.on => wd'[life + 1].pc = "watch"
    BY <1>3, <2>1 DEF Launch
  <2>3. \A l \in Lives : l > life + 1 => wd'[l] = wd[l]
    BY <1>3, <2>1 DEF Launch
  <2> QED
    BY <2>1, <2>2, <2>3 DEF Watching, Stopping
<1>4. CASE PushPids \/ FeederTick
  <2>1. UNCHANGED <<at, life>> /\ carry' \in {carry, None} /\ feeder'.on = feeder.on
    BY <1>4 DEF PushPids, FeederTick, appVars
  <2>2. wd' = wd \/ \E P : wd' = [wd EXCEPT ![life].pids = P]
    BY <1>4 DEF PushPids, FeederTick, send_pids
  <2>3. \A l \in Lives : wd'[l].pc = wd[l].pc /\ (l > life => wd'[l] = wd[l])
    <3>1. CASE wd' = wd
      BY <3>1
    <3>2. ASSUME NEW P, wd' = [wd EXCEPT ![life].pids = P]
          PROVE  \A l \in Lives : wd'[l].pc = wd[l].pc /\ (l > life => wd'[l] = wd[l])
      BY <3>2
    <3> QED
      BY <2>2, <3>1, <3>2
  <2> QED
    BY <2>1, <2>3 DEF Watching
<1>5. CASE PostgresUp \/ SpawnService \/ ServiceReady \/ Started
  <2>1. UNCHANGED <<life, wd, feeder>> /\ at \in Starting /\ at' \notin Stopping \cup {"off"}
    BY <1>5 DEF PostgresUp, SpawnService, ServiceReady, Started, wdVars, Starting, Stopping
  <2> QED
    BY <2>1 DEF Watching, Starting, Stopping
<1>6. CASE Shutdown
  <2>1. UNCHANGED <<life, wd, carry>> /\ ~feeder'.on /\ carry = None
    BY <1>6 DEF Shutdown
  <2> QED
    BY <2>1 DEF Watching
<1>7. CASE JoinTask \/ StopPostgres
  <2>1. UNCHANGED <<life, wd, feeder, carry>> /\ at \in Stopping /\ at' \in Stopping
    BY <1>7 DEF JoinTask, StopPostgres, Stopping, wdVars
  <2> QED
    BY <2>1 DEF Watching
<1>8. CASE Bye
  <2>1. UNCHANGED <<life, feeder, carry>> /\ at \in Stopping
    BY <1>8 DEF Bye, Stopping
  <2>2. \A l \in Lives : l > life => wd'[l] = wd[l]
    BY <1>8 DEF Bye
  <2> QED
    BY <2>1, <2>2 DEF Watching
<1>9. CASE StartFails \/ Killed
  BY <1>2, <1>9 DEF StartFails, Drop, Killed
<1>10. CASE PgStep \/ UNCHANGED vars \/ (\E p \in alive : Crash(p) \/ Bind(p))
            \/ (\E c \in Children : TaskStep(c)) \/ (\E l \in late : LatePostgres(l))
  <2>1. UNCHANGED <<appVars, wdVars>>
    BY <1>10, TaskMoves
    DEF PgStep, PostgresDown, PostgresRetry, PostgresRestart, Crash, Bind, LatePostgres, vars
  <2> QED
    BY <1>1, <2>1 DEF appVars, wdVars
<1>11. ASSUME NEW l \in Lives, WdLife(l)
       PROVE  Watching'
  <2>1. UNCHANGED <<at, life, feeder, carry>> /\ wd[l].pc \in {"term", "kill", "sweep"}
    BY <1>11 DEF WdLife, WdTerm, WdKill, WdSweep, appVars
  <2>2. \A m \in Lives \ {l} : wd'[m] = wd[m]
    BY <1>11 DEF WdLife, WdTerm, WdKill, WdSweep, WdStep
  <2> QED
    BY <2>1, <2>2 DEF Watching
<1> QED
  BY <1>3, <1>4, <1>5, <1>6, <1>7, <1>8, <1>9, <1>10, <1>11 DEF Next, StartStep, StopStep
\* What is spawned in a step was written down nowhere.
LEMMA NotYetKnown ==
  ASSUME TypeOK, Fresh, [Next]_vars, NEW P, Spawned(P)
  PROVE  alive' \cap P \subseteq alive
<1>1. ASSUME NEW s \in Services, NEW l \in Lives, Spawns(s, l)
      PROVE  alive' \cap P \subseteq alive
  BY <1>1, NewProcess
<1> QED
  BY <1>1, Population

\* A watchdog is told something while it watches, of the current life, and by
\* nobody who is stopping.
LEMMA ToldWhom ==
  ASSUME IInv, [Next]_vars, NEW l \in Lives
  PROVE  \/ wd'[l].pids = wd[l].pids
         \/ /\ l = life /\ wd[l].pc = "watch" /\ wd'[l].pc = "watch"
            /\ at \notin Stopping \cup {"off"}
            /\ wd'[l].pids = collect_child_pids \/ (carry # None /\ wd'[l].pids = carry)
<1> USE TypeParts DEF IInv, WdOK, Dog
<1>1. ASSUME NEW m \in Lives, NEW pc, wd' = [wd EXCEPT ![m].pc = pc]
      PROVE  wd'[l].pids = wd[l].pids
  BY <1>1
<1>2. CASE Forget \/ Bye \/ (\E armed \in BOOLEAN : Launch(armed))
  <2>1. life \in Lives /\ (life < MaxLives => life + 1 \in Lives)
    BY BoundAssumption DEF AppOK, Lives
  <2>2. \/ wd' = wd \/ wd' = [wd EXCEPT ![life].pc = "term"] \/ wd' = [wd EXCEPT ![life].pc = "done"]
        \/ life < MaxLives /\ wd' = [wd EXCEPT ![life + 1].pc = "watch"]
    BY <1>2 DEF Forget, Bye, Launch
  <2> QED
    BY <1>1, <2>1, <2>2
<1>3. CASE PushPids
  <2>1. carry # None /\ at \notin Stopping \cup {"off"}
    BY <1>3 DEF PushPids, Watching
  <2>2. CASE wd' = wd
    BY <2>2
  <2>3. CASE Watched /\ wd' = [wd EXCEPT ![life].pids = carry]
    BY <2>1, <2>3 DEF Watched
  <2> QED
    BY <1>3, <2>2, <2>3 DEF PushPids, send_pids
<1>4. CASE FeederTick
  <2>1. wd[life].pc = "watch" /\ at \notin Stopping \cup {"off"}
    BY <1>4 DEF FeederTick, Watching
  <2>2. wd' = [wd EXCEPT ![life].pids = collect_child_pids]
    BY <1>4 DEF FeederTick, send_pids
  <2> QED
    BY <2>1, <2>2
<1>5. ASSUME NEW m \in Lives, WdLife(m)
      PROVE  wd'[l].pids = wd[l].pids
  <2>1. wd' = [wd EXCEPT ![m].pass = @ + 1] \/ \E pc \in WdPC : wd' = [wd EXCEPT ![m].pc = pc]
    BY <1>5 DEF WdLife, WdTerm, WdKill, WdSweep, WdStep, WdPC
  <2> QED
    BY <2>1
<1>6. CASE StartFails \/ Killed
  BY <1>2, <1>6 DEF StartFails, Drop, Killed
<1>7. CASE \/ PostgresUp \/ SpawnService \/ ServiceReady \/ Started \/ Shutdown \/ JoinTask
           \/ StopPostgres \/ PgStep \/ UNCHANGED vars \/ (\E p \in alive : Crash(p) \/ Bind(p))
           \/ (\E m \in late : LatePostgres(m)) \/ \E c \in Children : TaskStep(c)
  <2>1. UNCHANGED wd
    BY <1>7, TaskMoves
    DEF PostgresUp, SpawnService, ServiceReady, Started, Shutdown, JoinTask, StopPostgres, PgStep,
      PostgresDown, PostgresRetry, PostgresRestart, Crash, Bind, LatePostgres, vars, wdVars
  <2> QED
    BY <2>1
<1> QED
  BY <1>2, <1>3, <1>4, <1>5, <1>6, <1>7 DEF Next, StartStep, StopStep

\* Nothing runs yet of a life that is to come.
LEMMA NextLifeEmpty ==
  ASSUME TypeOK, Fresh, NEW p \in alive
  PROVE  p.life <= life
<1>1. p \in Process /\ p.life \in Lives /\ p.svc \in Services /\ p.n >= 1 /\ p.n \in Nat
  BY TypeParts, BoundAssumption DEF ProcOK, Process
<1>2. p.n <= born[p.life][p.svc]
  BY DEF Fresh, Spawned
<1> QED
  BY <1>1, <1>2, TypeParts DEF Fresh, AppOK, Lives

LEMMA ToldStep ==
  ASSUME IInv, [Next]_vars
  PROVE  Told'
<1> USE TypeParts, OrderFacts, BoundAssumption DEF IInv
<1>1. \A p \in collect_child_pids : p.svc = PG \/ p.life = life
  BY DEF collect_child_pids, Postmasters, InHand
<1>2. \A l \in Lives : \A p \in wd'[l].pids : p.svc = PG \/ p.life = l
  BY <1>1, ToldWhom DEF Told
<1>3. carry' # None => \A p \in carry' : p.svc = PG \/ p.life = life'
  <2>1. CASE PostgresUp
    <3>1. NextOf(PG, life).svc = PG
      BY DEF NextOf
    <3>2. \A c \in Children : slot[c] # None => slot[c].life = life
      BY DEF InHand
    <3> QED
      BY <2>1, <3>1, <3>2 DEF PostgresUp
  <2>2. CASE carry' \in {None, carry, collect_child_pids} /\ UNCHANGED life
    BY <1>1, <2>2 DEF Told
  <2>3. ASSUME NEW armed \in BOOLEAN, Launch(armed)
        PROVE  carry' = None
    BY <2>3 DEF Launch, Watching
  <2>4. CASE \/ SpawnService \/ ServiceReady \/ Started \/ PushPids \/ StartFails \/ FeederTick
             \/ Shutdown \/ StopStep \/ Killed \/ PgStep \/ UNCHANGED vars
             \/ (\E p \in alive : Crash(p) \/ Bind(p)) \/ (\E c \in Children : TaskStep(c))
             \/ (\E l \in late : LatePostgres(l)) \/ \E l \in Lives : WdLife(l)
    BY <2>2, <2>4, TaskMoves
    DEF SpawnService, ServiceReady, Started, PushPids, StartFails, Drop, Forget, FeederTick,
      Shutdown, StopStep, JoinTask, StopPostgres, Bye, Killed, PgStep, PostgresDown, PostgresRetry,
      PostgresRestart, Crash, Bind, LatePostgres, WdLife, WdTerm, WdKill, WdSweep, vars, wdVars,
      appVars
  <2> QED
    BY <2>1, <2>3, <2>4 DEF Next, StartStep
<1>4. feeder'.on /\ ~stale' => feeder'.last \cap Mine' \subseteq wd'[life'].pids
  <2>1. life \in Lives
    BY DEF AppOK
  <2>2. ASSUME UNCHANGED <<life, feeder>>, stale => stale', wd'[life].pids = wd[life].pids
        PROVE  feeder'.on /\ ~stale' => feeder'.last \cap Mine' \subseteq wd'[life'].pids
    <3>1. Spawned(feeder.last)
      BY DEF Fresh
    <3>2. feeder.last \cap Mine' \subseteq feeder.last \cap Mine
      BY <2>2, <3>1, NotYetKnown DEF Mine
    <3> QED
      BY <2>2, <3>2 DEF Told, WdOK
  <2>3. CASE ~feeder'.on
    BY <2>3
  <2>4. ASSUME NEW armed \in BOOLEAN, Launch(armed)
        PROVE  Mine' = {}
    <3>1. life' = life + 1 /\ UNCHANGED alive
      BY <2>4 DEF Launch, procVars
    <3>2. \A p \in alive : p.life # life + 1
      BY NextLifeEmpty DEF AppOK, ProcOK, Process, Lives
    <3> QED
      BY <3>1, <3>2 DEF Mine
  <2>5. CASE PushPids
    <3>1. UNCHANGED <<life, alive, feeder>>
      BY <2>5 DEF PushPids, appVars, procVars
    <3>2. SUFFICES ASSUME feeder.on, ~stale'
                   PROVE  feeder.last \cap Mine \subseteq wd'[life].pids
      BY <3>1 DEF Mine
    <3>3. ~stale /\ (wd[life].pids \cap alive) \ carry = {}
      BY <2>5, <3>2 DEF PushPids
    <3>4. wd'[life].pids = carry
      BY <2>1, <2>5, <3>2 DEF PushPids, Watching, Watched, send_pids, WdOK, Dog
    <3> QED
      BY <3>2, <3>3, <3>4 DEF Told, Mine
  <2>6. CASE FeederTick
    <3>1. wd'[life].pids = collect_child_pids /\ feeder'.last = collect_child_pids /\ UNCHANGED life
      BY <2>1, <2>6 DEF FeederTick, send_pids, appVars, WdOK, Dog
    <3> QED
      BY <3>1
  <2>7. CASE StartFails \/ Killed \/ Shutdown
    BY <2>3, <2>7 DEF StartFails, Drop, Killed, Forget, Shutdown
  <2>8. CASE \/ PostgresUp \/ SpawnService \/ ServiceReady \/ Started \/ JoinTask \/ StopPostgres
             \/ PgStep \/ UNCHANGED vars \/ (\E p \in alive : Crash(p) \/ Bind(p))
             \/ (\E c \in Children : TaskStep(c)) \/ \E l \in late : LatePostgres(l)
    <3>1. UNCHANGED <<life, wd, feeder, stale>>
      BY <2>8, TaskMoves
      DEF PostgresUp, SpawnService, ServiceReady, Started, JoinTask, StopPostgres, PgStep,
        PostgresDown, PostgresRetry, PostgresRestart, Crash, Bind, LatePostgres, vars, wdVars, appVars
    <3> QED
      BY <2>2, <3>1
  <2>9. CASE Bye
    <3>1. ~feeder.on /\ UNCHANGED feeder
      BY <2>9 DEF Bye, Watching, Stopping
    <3> QED
      BY <2>3, <3>1
  <2>10. ASSUME NEW l \in Lives, WdLife(l)
         PROVE  feeder'.on /\ ~stale' => feeder'.last \cap Mine' \subseteq wd'[life'].pids
    <3>1. UNCHANGED <<life, feeder, stale>>
      BY <2>10 DEF WdLife, WdTerm, WdKill, WdSweep, appVars
    <3>2. wd' = [wd EXCEPT ![l].pass = @ + 1] \/ \E pc \in WdPC : wd' = [wd EXCEPT ![l].pc = pc]
      BY <2>10 DEF WdLife, WdTerm, WdKill, WdSweep, WdStep, WdPC
    <3>3. wd'[life].pids = wd[life].pids
      BY <2>1, <3>2 DEF WdOK, Dog
    <3> QED
      BY <2>2, <3>1, <3>3
  <2> QED
    BY <2>4, <2>5, <2>6, <2>7, <2>8, <2>9, <2>10 DEF Next, StartStep, StopStep
<1> QED
  BY <1>2, <1>3, <1>4 DEF Told
-----------------------------------------------------------------------------
(* What is dead stays dead. *)

\* A shutdown that has reached "bye" has no child left.
LEMMA NoChildAtBye ==
  ASSUME IInv, at = "bye", NEW p \in Mine
  PROVE  p.svc = PG
<1> USE TypeParts, OrderFacts DEF IInv
<1>1. SUFFICES ASSUME p.svc # PG
               PROVE  FALSE
  OBVIOUS
<1>2. p.svc \in Children /\ loop[p.svc].pc \in HandPC
  BY <1>1 DEF InHand, Mine, ProcOK, Process, Services
<1>3. PICK i \in 1 .. Len(Order) : Order[i] = p.svc
  BY <1>2
<1>4. loop[p.svc].pc \in {"over", "failed"}
  BY <1>3 DEF Sequenced, Stopping
<1> QED
  BY <1>2, <1>4 DEF HandPC

LEMMA ReapedStep ==
  ASSUME IInv, [Next]_vars
  PROVE  Reaped'
<1> USE TypeParts DEF IInv, WdOK, Dog
<1>1. life \in Lives
  BY DEF AppOK
<1>2. \A l \in Lives : alive' \cap wd[l].pids \subseteq alive
  BY NotYetKnown DEF Fresh
<1>3. ASSUME NEW l \in Lives, wd'[l].pc \in {"sweep", "done"}
      PROVE  alive' \cap wd'[l].pids = {}
  <2>1. wd'[l].pids = wd[l].pids
    BY <1>3, ToldWhom
  <2>2. CASE wd[l].pc \in {"sweep", "done"}
    BY <1>2, <2>1, <2>2 DEF Reaped
  <2>3. CASE alive' \cap wd[l].pids = {}
    BY <2>1, <2>3
  <2>4. CASE wd'[l].pc = wd[l].pc
    BY <1>3, <2>2, <2>4
  <2>5. CASE Bye
    <3>1. at = "bye" /\ UNCHANGED alive /\ \A m \in Lives \ {life} : wd'[m] = wd[m]
      BY <2>5 DEF Bye, procVars
    <3>2. CASE l # life
      BY <2>4, <3>1, <3>2
    <3>3. CASE l = life
      <4>1. ASSUME NEW p \in alive \cap wd[l].pids
            PROVE  FALSE
        <5>1. p.svc = PG
          BY <3>1, <3>3, NoChildAtBye DEF Told, Mine
        <5> QED
          BY <3>1, <3>3, <5>1 DEF Reaped, Postmasters
      <4> QED
        BY <2>3, <3>1, <4>1
    <3> QED
      BY <3>2, <3>3
  <2>6. ASSUME NEW m \in Lives, WdLife(m)
        PROVE  alive' \cap wd'[l].pids = {}
    <3>1. CASE m # l
      <4>1. wd'[l] = wd[l]
        BY <2>6, <3>1 DEF WdLife, WdTerm, WdKill, WdSweep, WdStep
      <4> QED
        BY <2>4, <4>1
    <3>2. CASE m = l /\ WdTerm(l)
      <4>1. wd'[l].pc = "kill"
        BY <3>2 DEF WdTerm, WdStep
      <4> QED
        BY <1>3, <4>1
    <3>3. CASE m = l /\ WdKill(l)
      <4>1. alive' \cap wd[l].pids = {}
        BY <3>3 DEF WdKill, Ends
      <4> QED
        BY <2>3, <4>1
    <3>4. CASE m = l /\ WdSweep(l)
      BY <2>2, <3>4 DEF WdSweep
    <3> QED
      BY <2>6, <3>1, <3>2, <3>3, <3>4 DEF WdLife
  <2>7. ASSUME NEW armed \in BOOLEAN, Launch(armed)
        PROVE  alive' \cap wd'[l].pids = {}
    <3>1. wd' = wd \/ wd' = [wd EXCEPT ![life + 1].pc = "watch"]
      BY <2>7 DEF Launch
    <3>2. wd'[l].pc = wd[l].pc
      BY <1>3, <3>1
    <3> QED
      BY <2>4, <3>2
  <2>8. CASE PushPids \/ FeederTick
    <3>1. wd' = wd \/ wd' = [wd EXCEPT ![life].pids = carry]
          \/ wd' = [wd EXCEPT ![life].pids = collect_child_pids]
      BY <2>8 DEF PushPids, FeederTick, send_pids
    <3>2. wd'[l].pc = wd[l].pc
      BY <3>1
    <3> QED
      BY <2>4, <3>2
  <2>9. CASE StartFails \/ Killed
    <3>1. wd' = wd \/ wd' = [wd EXCEPT ![life].pc = "term"]
      BY <2>9 DEF StartFails, Drop, Killed, Forget
    <3>2. wd'[l].pc = wd[l].pc
      BY <1>3, <3>1
    <3> QED
      BY <2>4, <3>2
  <2>10. CASE \/ PostgresUp \/ SpawnService \/ ServiceReady \/ Started \/ Shutdown \/ JoinTask
              \/ StopPostgres \/ PgStep \/ UNCHANGED vars \/ (\E p \in alive : Crash(p) \/ Bind(p))
              \/ (\E m \in late : LatePostgres(m)) \/ \E c \in Children : TaskStep(c)
    <3>1. UNCHANGED wd
      BY <2>10, TaskMoves
      DEF PostgresUp, SpawnService, ServiceReady, Started, Shutdown, JoinTask, StopPostgres, PgStep,
        PostgresDown, PostgresRetry, PostgresRestart, Crash, Bind, LatePostgres, vars, wdVars
    <3> QED
      BY <2>4, <3>1
  <2> QED
    BY <2>5, <2>6, <2>7, <2>8, <2>9, <2>10 DEF Next, StartStep, StopStep
<1>4. ASSUME at' = "bye"
      PROVE  Postmasters' \cap wd'[life'].pids = {}
  <2>1. CASE StopPostgres
    <3>1. Postmasters' = {}
      BY <2>1 DEF StopPostgres, Ends, Postmasters
    <3> QED
      BY <3>1
  <2>2. CASE at = "bye" /\ life' = life
    <3>1. wd'[life].pids = wd[life].pids
      BY <1>1, <2>2, ToldWhom DEF Stopping
    <3>2. Postmasters' \cap wd[life].pids \subseteq Postmasters
      BY <1>1, <1>2 DEF Postmasters
    <3> QED
      BY <2>2, <3>1, <3>2 DEF Reaped
  <2>3. StopPostgres \/ UNCHANGED <<at, life>>
    BY <1>4, TaskMoves
    DEF Next, vars, appVars, Launch, StartStep, PostgresUp, SpawnService, ServiceReady, Started,
      PushPids, StartFails, Drop, Forget, FeederTick, Shutdown, StopStep, JoinTask, Bye, Killed,
      Crash, Bind, PgStep, PostgresDown, PostgresRetry, PostgresRestart, LatePostgres, WdLife,
      WdTerm, WdKill, WdSweep
  <2> QED
    BY <1>4, <2>1, <2>2, <2>3
<1> QED
  BY <1>3, <1>4 DEF Reaped

-----------------------------------------------------------------------------

\* Every reachable state has the types and the facts above.
LEMMA Invariant == Spec => []IInv
<1>1. Init => IInv
  BY InitIInv
<1>2. IInv /\ [Next]_vars => IInv'
  <2> SUFFICES ASSUME IInv, [Next]_vars
               PROVE  IInv'
    OBVIOUS
  <2>1. TypeOK' /\ Tries'
    BY TypeOKStep, ChildOKStep DEF IInv
  <2>2. Fresh'
    BY FreshStep
  <2>3. InHand'
    BY InHandStep
  <2>4. Sequenced' /\ Watching'
    BY SequencedStep, WatchingStep
  <2>5. Told' /\ Reaped'
    BY ToldStep, ReapedStep
  <2> QED
    BY <2>1, <2>2, <2>3, <2>4, <2>5 DEF IInv
<1> QED
  BY <1>1, <1>2, PTL DEF Spec

\* Every variable of the supervisor keeps its type (Supervisor in
\* crates/supervisor/src/lib.rs).
THEOREM Typing == Spec => []TypeOK
<1>1. IInv => TypeOK
  BY DEF IInv
<1> QED
  BY <1>1, Invariant, PTL

\* shutdown() stops the children in the reverse order, one when everything
\* started after it is gone, and leaves nothing behind when it says "bye",
\* whatever crashed, hung or was restarted meanwhile.
THEOREM StopsInOrder == Spec => []Orderly
<1>1. ASSUME IInv
      PROVE  Orderly
  <2> USE <1>1, TypeParts, OrderFacts DEF IInv
  <2>1. StoppedInOrder
    <3>1. SUFFICES ASSUME at \in Stopping, NEW i \in (step + 1) .. Len(Order), NEW p \in Mine,
                          p.svc = Order[i]
                   PROVE  FALSE
      BY DEF StoppedInOrder
    <3>2. i \in 1 .. Len(Order) /\ i > step
      BY DEF AppOK
    <3>3. loop[p.svc].pc \in {"over", "failed"}
      BY <3>1, <3>2 DEF Sequenced
    <3>4. p.svc # PG /\ loop[p.svc].pc \in HandPC
      BY <3>1, <3>2 DEF InHand, Stopping
    <3> QED
      BY <3>3, <3>4 DEF HandPC
  <2>2. LeavesNothing
    <3>1. SUFFICES ASSUME at = "bye", NEW p \in Mine
                   PROVE  p.svc = PG /\ p \notin wd[life].pids
      BY DEF LeavesNothing
    <3>2. p.svc = PG
      BY <3>1, NoChildAtBye
    <3> QED
      BY <3>1, <3>2 DEF Reaped, Mine, Postmasters
  <2> QED
    BY <2>1, <2>2 DEF Orderly
<1> QED
  BY <1>1, Invariant, PTL

\* Every process of the app is accounted for: its slot names it, a feeder at
\* rest has told the orphan watchdog of it, and what a watchdog that has
\* finished knew of is dead.
THEOREM Accounted == Spec => []NoOrphans
<1>1. ASSUME IInv
      PROVE  NoOrphans
  <2> USE <1>1, TypeParts, OrderFacts DEF IInv
  <2>1. SlotTells
    BY DEF SlotTells, Running, InHand
  <2>2. CurrentSet
    <3>1. SUFFICES ASSUME feeder.on, collect_child_pids = feeder.last, ~stale
                   PROVE  Mine \subseteq wd[life].pids
      BY DEF CurrentSet
    <3>2. Mine \subseteq collect_child_pids
      <4>1. SUFFICES ASSUME NEW p \in Mine, p.svc # PG
                     PROVE  p \in collect_child_pids
        BY DEF collect_child_pids, Postmasters, Mine
      <4>2. p.svc \in Children /\ slot[p.svc] = p /\ p # None
        BY <3>1, <4>1, NoneAssumption DEF InHand, Watching, Mine, ProcOK, Process, Services
      <4> QED
        BY <4>2 DEF collect_child_pids
    <3> QED
      BY <3>1, <3>2 DEF Told
  <2>3. \A l \in Lives : wd[l].pc = "done" => alive \cap wd[l].pids = {}
    BY DEF Reaped
  <2> QED
    BY <2>1, <2>2, <2>3 DEF NoOrphans
<1> QED
  BY <1>1, Invariant, PTL

\* A guarded child becomes ready only while nobody, or the child itself,
\* listens on its port (the listener-identity check of readiness_phase).
THEOREM AdoptsNobody == Spec => NeverAdopts
<1> DEFINE Adopts == \A c \in Guarded :
             LsofWorks /\ loop'[c].pc = "steady" /\ ~At(c, {"steady"}) => holds[c] \in {slot[c], None}
<1>1. ASSUME IInv, [Next]_vars
      PROVE  Adopts \/ UNCHANGED vars
  <2> USE <1>1, TypeParts, OrderFacts, GuardAssumption DEF IInv, ChildOK, Task, TaskPC
  <2>1. SUFFICES ASSUME NEW c \in Guarded, LsofWorks, loop'[c].pc = "steady", loop[c].pc # "steady"
                 PROVE  holds[c] \in {slot[c], None}
    BY DEF At
  <2>2. c \in Children
    OBVIOUS
  <2>3. CASE TaskStep(c)
    <3>1. Verify(c)
      <4>1. ASSUME NEW n, Fail(c, n)
            PROVE  loop'[c].pc # "steady"
        BY <2>2, <4>1 DEF Fail
      <4>2. ASSUME NEW pc, Goto(c, pc)
            PROVE  pc = "steady"
        BY <2>1, <2>2, <4>2 DEF Goto
      <4> QED
        BY <2>1, <2>3, <4>1, <4>2 DEF TaskStep, Check, SpawnChild, Answered, ProbeTimeout,
          ChildExited, StopSeen, Terminate, BackoffOver
    <3>2. ~(listener_pids(c) # {} /\ slot[c] \notin listener_pids(c))
      BY <2>1, <2>2, <3>1 DEF Verify, Goto
    <3> QED
      BY <2>1, <3>2 DEF listener_pids
  <2>4. ASSUME NEW d \in Children, d # c, TaskStep(d)
        PROVE  FALSE
    BY <2>1, <2>2, <2>4, TaskMoves
  <2>5. CASE Forget \/ Bye \/ SpawnService \/ JoinTask
    <3>1. \/ loop' = [e \in Children |-> Idle] \/ loop' = loop
          \/ loop' = [loop EXCEPT ![Order[step]] = [Idle EXCEPT !.pc = "check"]]
          \/ loop' = [loop EXCEPT ![Order[step]].pc = "over"]
      BY <2>5 DEF Forget, Bye, SpawnService, JoinTask, Goto, childVars
    <3>2. loop' # [e \in Children |-> Idle] /\ loop' # loop
      BY <2>1, <2>2 DEF Idle
    <3>3. ASSUME NEW d, loop' = [loop EXCEPT ![d] = [Idle EXCEPT !.pc = "check"]]
          PROVE  FALSE
      BY <2>1, <2>2, <3>3 DEF Idle
    <3>4. ASSUME NEW d, loop' = [loop EXCEPT ![d].pc = "over"]
          PROVE  FALSE
      BY <2>1, <2>2, <3>4
    <3> QED
      BY <3>1, <3>2, <3>3, <3>4
  <2>6. CASE \/ (\E armed \in BOOLEAN : Launch(armed)) \/ PostgresUp \/ ServiceReady \/ Started
             \/ PushPids \/ FeederTick \/ Shutdown \/ StopPostgres \/ PgStep \/ UNCHANGED vars
             \/ (\E p \in alive : Crash(p) \/ Bind(p)) \/ (\E l \in late : LatePostgres(l))
             \/ \E l \in Lives : WdLife(l)
    <3>1. UNCHANGED loop
      BY <2>6
      DEF Launch, PostgresUp, ServiceReady, Started, PushPids, FeederTick, Shutdown, StopPostgres,
        PgStep, PostgresDown, PostgresRetry, PostgresRestart, Crash, Bind, LatePostgres, WdLife,
        WdTerm, WdKill, WdSweep, vars, childVars
    <3> QED
      BY <2>1, <3>1
  <2>7. CASE StartFails \/ Killed
    BY <2>5, <2>7 DEF StartFails, Drop, Killed
  <2> QED
    BY <1>1, <2>3, <2>4, <2>5, <2>6, <2>7 DEF Next, StartStep, StopStep
<1> QED
  BY <1>1, Invariant, PTL DEF Spec, NeverAdopts
=============================================================================
