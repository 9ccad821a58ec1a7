---------------------------- MODULE Supervisor ----------------------------
(***************************************************************************)
(* The process supervisor (crates/supervisor): postgres and the supervised *)
(* children are started in order and stopped in the reverse order, each    *)
(* child has a task that probes it, restarts it and gives up, postgres has *)
(* a watchdog of its own, and a separate process, the orphan watchdog,     *)
(* kills what is left when the app dies without saying "bye".              *)
(*                                                                         *)
(* A "life" is one Supervisor value: a boot of the app, a retry after a    *)
(* failed boot, or the boot at the end of a vault switch.  The processes   *)
(* and the orphan watchdog of a life outlive it.                           *)
(*                                                                         *)
(* Time is left out: a timeout, a grace period or a backoff may elapse at  *)
(* any moment.  A process is the n-th one its service ever had in a life,  *)
(* so a pid is never used twice.                                           *)
(***************************************************************************)
EXTENDS Naturals, Sequences

CONSTANTS
    Order,        \* the supervised children, in the order they are started
    Guarded,      \* those that must not be adopted (listener_port is set)
    PG,           \* the postgres service
    Leftovers,    \* services whose processes an earlier app may have left running
    MaxLives,     \* bound: lives of the supervisor, the earlier app's included
    MaxSpawns,    \* bound: processes of one service in one life
    MaxRetries,   \* RestartPolicy.max_retries
    MaxCrashes,   \* bound: processes that end by themselves
    LsofWorks,    \* lsof is installed
    None

Children == {Order[i] : i \in 1 .. Len(Order)}
Services == Children \cup {PG}
Lives    == 1 .. MaxLives

ASSUME OrderAssumption  == /\ Order \in Seq(Children)
                           /\ \A i, j \in 1 .. Len(Order) : Order[i] = Order[j] => i = j
ASSUME GuardAssumption  == Guarded \subseteq Children /\ PG \notin Children
                           /\ Leftovers \subseteq Services
ASSUME BoundAssumption  == MaxLives \in Nat \ {0} /\ MaxSpawns \in Nat \ {0} /\ MaxRetries \in Nat
                           /\ MaxCrashes \in Nat
ASSUME LsofAssumption   == LsofWorks \in BOOLEAN

Process == [svc : Services, life : Lives, n : 1 .. MaxSpawns]

ASSUME NoneAssumption   == None \notin Process

VARIABLES
    at,       \* where start() or shutdown() is
    step,     \* which child it is at
    life,     \* the current life
    alive,    \* the processes that run
    crashes,  \* processes that ended by themselves so far
    born,     \* processes spawned so far, per life and service
    holds,    \* the process that listens on the port of each service
    loop,     \* the supervision task of each child
    slot,     \* the pid slot of each child
    pgw,      \* the postgres watchdog
    late,     \* the lives whose pg_ctl start runs on without its caller
    wd,       \* the orphan watchdog of each life
    feeder,   \* the pid feeder: whether it runs, and what it sent last
    carry,    \* a pid set collected by start() and not yet sent
    stale     \* history: in this life a late push undid a newer pid set

appVars   == <<at, step, life>>
procVars  == <<alive, born, holds, crashes>>
childVars == <<loop, slot>>
pgVars    == <<pgw, late>>
wdVars    == <<wd, feeder, carry, stale>>
vars      == <<appVars, procVars, childVars, pgVars, wdVars>>

Starting == {"postgres", "spawn", "wait"}
Stopping == {"stop", "bye"}
Phases   == {"off", "up"} \cup Starting \cup Stopping
TaskPC   == {"none", "check", "spawn", "probe", "verify", "steady",
             "term", "stop", "backoff", "over", "failed"}

\* One supervision task: where it is ("term" leads to the crash path, "stop"
\* to the end) and the failures it counted.
Task == [pc : TaskPC, tries : 0 .. MaxRetries + 1]
Idle == [pc |-> "none", tries |-> 0]

WdPC == {"none", "watch", "term", "kill", "sweep", "done"}
Dog  == [pc : WdPC, pids : SUBSET Process, pass : 1 .. 3]

TypeOK ==
    /\ at \in Phases /\ step \in 0 .. Len(Order) + 1 /\ life \in Lives
    /\ alive \subseteq Process /\ crashes \in 0 .. MaxCrashes
    /\ born \in [Lives -> [Services -> 0 .. MaxSpawns]]
    /\ holds \in [Services -> Process \cup {None}]
    /\ loop \in [Children -> Task] /\ slot \in [Children -> Process \cup {None}]
    /\ pgw \in [pc : {"off", "watch", "retry", "starting"}, tries : 0 .. MaxRetries + 1]
    /\ late \subseteq Lives
    /\ wd \in [Lives -> Dog]
    /\ feeder \in [on : BOOLEAN, last : SUBSET Process]
    /\ carry \in {None} \cup SUBSET Process
    /\ stale \in BOOLEAN

\* What an app that was killed without an orphan watchdog left behind:
\* processes of Leftovers that still run, the children on their ports or
\* about to take them.
Leftover == {[svc |-> s, life |-> 1, n |-> 1] : s \in Leftovers}

Init ==
    /\ at = "off" /\ step = 0 /\ life = 1
    /\ alive \in SUBSET Leftover /\ crashes = 0
    /\ born = [l \in Lives |-> [s \in Services |-> IF l = 1 THEN 1 ELSE 0]]
    /\ \E P \in SUBSET {p \in alive : p.svc # PG} :
          holds = [s \in Services |-> IF [svc |-> s, life |-> 1, n |-> 1] \in P
                                      THEN [svc |-> s, life |-> 1, n |-> 1] ELSE None]
    /\ loop = [c \in Children |-> Idle] /\ slot = [c \in Children |-> None]
    /\ pgw = [pc |-> "off", tries |-> 0] /\ late = {}
    /\ wd = [l \in Lives |-> [pc |-> "none", pids |-> {}, pass |-> 1]]
    /\ feeder = [on |-> FALSE, last |-> {}] /\ carry = None
    /\ stale = FALSE

----------------------------------------------------------------------------
(* Processes.                                                              *)

Mine == {p \in alive : p.life = life}
Postmasters == {p \in alive : p.svc = PG}
NextOf(s, l) == [svc |-> s, life |-> l, n |-> born[l][s] + 1]

\* A process of service s is spawned for life l.
Spawns(s, l) ==
    /\ born[l][s] < MaxSpawns
    /\ born' = [born EXCEPT ![l][s] = @ + 1]
    /\ alive' = alive \cup {NextOf(s, l)}
    /\ UNCHANGED <<holds, crashes>>

\* The processes in P end: they release their ports.
Ends(P) ==
    /\ alive' = alive \ P
    /\ holds' = [s \in Services |-> IF holds[s] \in P THEN None ELSE holds[s]]
    /\ UNCHANGED <<born, crashes>>

\* Any process may crash or be killed by its user.
Crash(p) ==
    /\ crashes < MaxCrashes /\ crashes' = crashes + 1
    /\ alive' = alive \ {p}
    /\ holds' = [s \in Services |-> IF holds[s] = p THEN None ELSE holds[s]]
    /\ UNCHANGED <<born, appVars, childVars, pgVars, wdVars>>

\* A child listens on its port, or finds it taken and exits.
Bind(p) ==
    /\ p.svc # PG /\ holds[p.svc] # p
    /\ IF holds[p.svc] = None
       THEN holds' = [holds EXCEPT ![p.svc] = p] /\ UNCHANGED <<alive, born, crashes>>
       ELSE Ends({p})
    /\ UNCHANGED <<appVars, childVars, pgVars, wdVars>>

\* pg_ctl start: the postmaster takes the data directory, which it can only
\* do when no other postmaster has it.
Postmaster(l) == Postmasters = {} /\ Spawns(PG, l)

----------------------------------------------------------------------------
(* What the orphan watchdog is told.                                       *)

\* Mutant: only the children that are ready.
CollectReady ==
    Postmasters \cup ({slot[c] : c \in {d \in Children : loop[d].pc = "steady"}} \ {None})

\* The pid in postmaster.pid, when it is alive, and every filled slot.
collect_child_pids ==
    Postmasters \cup ({slot[c] : c \in Children} \ {None})

\* A "pids" line replaces the set the watchdog knows.
send_pids(P) ==
    /\ wd' = [wd EXCEPT ![life].pids = P]

Watched == life \in Lives /\ wd[life].pc = "watch"

\* start() collected a set; the lock on the pipe lets it through only now.
PushPids ==
    /\ carry # None
    /\ IF Watched THEN send_pids(carry) ELSE UNCHANGED wd
    /\ carry' = None
    /\ stale' = (stale \/ (wd[life].pids \cap alive) \ carry # {})
    /\ UNCHANGED <<appVars, procVars, childVars, pgVars, feeder>>

\* The feeder looks once a second and writes when the set is not the one it
\* wrote last; what start() pushed meanwhile does not count.
FeederTick ==
    /\ feeder.on /\ collect_child_pids # feeder.last
    /\ send_pids(collect_child_pids)
    /\ feeder' = [feeder EXCEPT !.last = collect_child_pids]
    /\ UNCHANGED <<appVars, procVars, childVars, pgVars, carry, stale>>

----------------------------------------------------------------------------
(* start().                                                                *)

At(c, pcs) == loop[c].pc \in pcs

\* A connect probe, and a readiness probe, succeed with whoever listens.
port_has_listener(c) == holds[c] # None
answers(c) == holds[c] # None

\* The watchdog process is spawned first; a missing binary is only logged,
\* and without it there is no feeder.
Launch(armed) ==
    /\ at = "off" /\ life < MaxLives
    /\ at' = "postgres" /\ step' = 1 /\ life' = life + 1
    /\ wd' = IF armed THEN [wd EXCEPT ![life + 1].pc = "watch"] ELSE wd
    /\ feeder' = [on |-> armed, last |-> Postmasters]
    /\ UNCHANGED <<procVars, childVars, pgVars, carry, stale>>

\* Postgres runs and its watchdog with it.
PostgresUp ==
    /\ at = "postgres" /\ Postmaster(life)
    /\ at' = "spawn"
    /\ carry' = {NextOf(PG, life)} \cup ({slot[c] : c \in Children} \ {None})
    /\ pgw' = [pc |-> "watch", tries |-> 0]
    /\ UNCHANGED <<step, life, childVars, late, wd, feeder, stale>>

\* The next child gets its task; its slot is registered before it is waited
\* for.  A guarded child is refused when its port is busy (StartFails).
SpawnService ==
    /\ at = "spawn" /\ step <= Len(Order) /\ carry = None
    /\ LET c == Order[step] IN
       /\ ~(c \in Guarded /\ port_has_listener(c))
       /\ loop' = [loop EXCEPT ![c] = [Idle EXCEPT !.pc = "check"]]
    /\ at' = "wait" /\ carry' = collect_child_pids
    /\ UNCHANGED <<step, life, procVars, slot, pgVars, wd, feeder, stale>>

\* wait_ready returns once the task has published readiness.
ServiceReady ==
    /\ at = "wait" /\ carry = None
    /\ At(Order[step], {"steady"})
    /\ at' = "spawn" /\ step' = step + 1 /\ carry' = collect_child_pids
    /\ UNCHANGED <<life, procVars, childVars, pgVars, wd, feeder, stale>>

Started ==
    /\ at = "spawn" /\ step > Len(Order) /\ carry = None
    /\ at' = "up"
    /\ UNCHANGED <<step, life, procVars, childVars, pgVars, wdVars>>

\* A postgres restart that is cut off, by an abort or by the end of the
\* app, leaves its pg_ctl running.
CutPostgresWatchdog ==
    /\ pgw' = [pc |-> "off", tries |-> 0]
    /\ late' = IF pgw.pc = "starting" THEN late \cup {life} ELSE late

\* The memory of a life is gone: its tasks, its slots, its feeder; the write
\* end of the pipe is closed, which a watchdog takes for the app's death.
Forget ==
    /\ at' = "off" /\ step' = 0 /\ UNCHANGED life
    /\ loop' = [c \in Children |-> Idle] /\ slot' = [c \in Children |-> None]
    /\ feeder' = [on |-> FALSE, last |-> {}] /\ carry' = None
    /\ wd' = IF Watched THEN [wd EXCEPT ![life].pc = "term"] ELSE wd
    /\ stale' = FALSE

\* Drop: every task is aborted and its child killed, and pg_ctl stop runs on
\* whatever postmaster has the data directory.
Drop ==
    /\ Ends(Mine \cup Postmasters) /\ CutPostgresWatchdog /\ Forget

\* Why: postgres does not start (no usable installation, another postmaster,
\* a timeout); a guarded child's port is busy; a child gave up; or boot()
\* cannot provision the user or bind the proxy.
PostgresFails == at = "postgres"
PortBusy      == /\ at = "spawn" /\ step <= Len(Order)
                 /\ Order[step] \in Guarded /\ port_has_listener(Order[step])
ServiceFailed == at = "wait" /\ At(Order[step], {"failed"})
BootFails     == at = "up"

\* start() returns an error, or boot() fails after it: the value is dropped.
StartFails ==
    /\ carry = None
    /\ PostgresFails \/ PortBusy \/ ServiceFailed \/ BootFails
    /\ Drop

\* The app is killed: nothing is cleaned up, the children run on, and so
\* does a pg_ctl that was starting postgres.
Killed ==
    /\ at # "off"
    /\ pgw' = [pc |-> "off", tries |-> 0]
    /\ late' = IF at = "postgres" \/ pgw.pc = "starting" THEN late \cup {life} ELSE late
    /\ Forget
    /\ UNCHANGED procVars

\* ... and pg_ctl starts postgres, or not.
LatePostgres(l) ==
    /\ late' = late \ {l}
    /\ Postmaster(l) \/ UNCHANGED procVars
    /\ UNCHANGED <<appVars, childVars, pgw, wdVars>>

----------------------------------------------------------------------------
(* The supervision task of child c.                                        *)

Goto(c, pc) == loop' = [loop EXCEPT ![c].pc = pc]

\* The shutdown flag of the child that shutdown() waits for.
StopAsked(c) == at = "stop" /\ step > 0 /\ Order[step] = c

\* The crash path: the slot is emptied, and the task backs off or gives up.
Fail(c, tries) ==
    /\ slot' = [slot EXCEPT ![c] = None]
    /\ loop' = [loop EXCEPT ![c] = [pc    |-> IF tries + 1 > MaxRetries THEN "failed" ELSE "backoff",
                                    tries |-> tries + 1]]

\* The top of the loop: the shutdown flag, then the stale-listener guard,
\* which awaits: the flag may be raised behind its back.
Check(c) ==
    /\ At(c, {"check"})
    /\ \/ StopAsked(c) /\ Goto(c, "over") /\ UNCHANGED slot
       \/ ~StopAsked(c) /\ c \in Guarded /\ port_has_listener(c) /\ Fail(c, loop[c].tries)
       \/ ~StopAsked(c) /\ ~(c \in Guarded /\ port_has_listener(c)) /\ Goto(c, "spawn") /\ UNCHANGED slot
    /\ UNCHANGED <<appVars, procVars, pgVars, wdVars>>

SpawnChild(c) ==
    /\ At(c, {"spawn"})
    /\ \/ /\ Spawns(c, life) /\ Goto(c, "probe")
          /\ slot' = [slot EXCEPT ![c] = NextOf(c, life)]
       \/ Fail(c, loop[c].tries) /\ UNCHANGED procVars
    /\ UNCHANGED <<appVars, pgVars, wdVars>>

\* readiness_phase: whoever listens on the port answers the probe.
Answered(c) ==
    /\ At(c, {"probe"}) /\ answers(c)
    /\ Goto(c, IF c \in Guarded THEN "verify" ELSE "steady")
    /\ UNCHANGED <<appVars, procVars, slot, pgVars, wdVars>>

ProbeTimeout(c) ==
    /\ At(c, {"probe"}) /\ Goto(c, "term")
    /\ UNCHANGED <<appVars, procVars, slot, pgVars, wdVars>>

\* The listener-identity check: no pid from lsof is taken for a match.
listener_pids(c) == IF LsofWorks THEN {holds[c]} \ {None} ELSE {}

\* Mutant: whoever answered is adopted.
VerifyNobody(c) ==
    /\ At(c, {"verify"}) /\ Goto(c, "steady")
    /\ UNCHANGED <<appVars, procVars, slot, pgVars, wdVars>>

Verify(c) ==
    /\ At(c, {"verify"})
    /\ Goto(c, IF listener_pids(c) # {} /\ slot[c] \notin listener_pids(c) THEN "term" ELSE "steady")
    /\ UNCHANGED <<appVars, procVars, slot, pgVars, wdVars>>

\* The child exited, at startup or later; a child that was stable for long
\* enough gives the task a fresh budget.
ChildExited(c) ==
    /\ At(c, {"probe", "steady"}) /\ slot[c] \notin alive
    /\ Fail(c, loop[c].tries) \/ (At(c, {"steady"}) /\ Fail(c, 0))
    /\ UNCHANGED <<appVars, procVars, pgVars, wdVars>>

\* Mutant: a steady child is not asked.
StopUnseen(c) ==
    /\ StopAsked(c)
    /\ \/ At(c, {"probe"}) /\ Goto(c, "stop")
       \/ At(c, {"backoff"}) /\ Goto(c, "over")
    /\ UNCHANGED <<appVars, procVars, slot, pgVars, wdVars>>

\* The flag is seen wherever the task selects on it.
StopSeen(c) ==
    /\ StopAsked(c)
    /\ \/ At(c, {"probe", "steady"}) /\ Goto(c, "stop")
       \/ At(c, {"backoff"}) /\ Goto(c, "over")
    /\ UNCHANGED <<appVars, procVars, slot, pgVars, wdVars>>

\* Mutant: after the probe timed out the child is not terminated.
\* terminate: SIGTERM, the grace period, SIGKILL; the child is gone.
Terminate(c) ==
    /\ At(c, {"term", "stop"})
    /\ Ends({slot[c]})
    /\ \/ At(c, {"term"}) /\ Fail(c, loop[c].tries)
       \/ At(c, {"stop"}) /\ Goto(c, "over") /\ slot' = [slot EXCEPT ![c] = None]
    /\ UNCHANGED <<appVars, pgVars, wdVars>>

BackoffOver(c) ==
    /\ At(c, {"backoff"}) /\ Goto(c, "check")
    /\ UNCHANGED <<appVars, procVars, slot, pgVars, wdVars>>

----------------------------------------------------------------------------
(* The watchdog of postgres.                                               *)

\* Two refused connections, half a second apart.
PostgresDown ==
    /\ pgw.pc = "watch" /\ Postmasters = {}
    /\ pgw' = [pc |-> "retry", tries |-> 0]
    /\ UNCHANGED <<appVars, procVars, childVars, late, wdVars>>

PostgresRetry ==
    /\ pgw.pc = "retry"
    /\ pgw' = IF pgw.tries + 1 > MaxRetries
              THEN [pc |-> "off", tries |-> pgw.tries]
              ELSE [pc |-> "starting", tries |-> pgw.tries + 1]
    /\ UNCHANGED <<appVars, procVars, childVars, late, wdVars>>

PostgresRestart ==
    /\ pgw.pc = "starting"
    /\ \/ Postmaster(life) /\ pgw' = [pc |-> "watch", tries |-> 0]
       \/ pgw' = [pgw EXCEPT !.pc = "retry"] /\ UNCHANGED procVars
    /\ UNCHANGED <<appVars, childVars, late, wdVars>>

----------------------------------------------------------------------------
(* shutdown().                                                             *)

Shutdown ==
    /\ at = "up" /\ carry = None
    /\ at' = "stop" /\ step' = Len(Order)
    /\ feeder' = [on |-> FALSE, last |-> {}]
    /\ CutPostgresWatchdog
    /\ UNCHANGED <<life, procVars, childVars, wd, carry, stale>>

\* Mutant: the task is not waited for.
JoinNothing ==
    /\ at = "stop" /\ step > 0
    /\ step' = step - 1
    /\ UNCHANGED <<at, life, procVars, childVars, pgVars, wdVars>>

\* The task of the child asked to stop ended, or it is stuck in a blocking
\* call longer than the grace period and five seconds: then it is aborted
\* and its child killed.  The next child is asked.
JoinTask ==
    /\ at = "stop" /\ step > 0
    /\ LET c == Order[step] IN
       \/ At(c, {"over", "failed"}) /\ UNCHANGED <<procVars, childVars>>
       \/ At(c, {"check", "spawn", "verify"}) /\ Ends({slot[c]}) /\ Goto(c, "over") /\ UNCHANGED slot
    /\ step' = step - 1
    /\ UNCHANGED <<at, life, pgVars, wdVars>>

\* Mutant: postgres is left to the orphan watchdog, which bye dismisses.
StopPostgres ==
    /\ at = "stop" /\ step = 0
    /\ Ends(Postmasters)
    /\ at' = "bye"
    /\ UNCHANGED <<step, life, childVars, pgVars, wdVars>>

\* "bye": the orphan watchdog exits without killing anything.
Bye ==
    /\ at = "bye"
    /\ at' = "off" /\ step' = 0 /\ UNCHANGED life
    /\ wd' = IF Watched THEN [wd EXCEPT ![life].pc = "done"] ELSE wd
    /\ loop' = [c \in Children |-> Idle] /\ slot' = [c \in Children |-> None]
    /\ UNCHANGED <<procVars, pgVars, feeder, carry, stale>>

----------------------------------------------------------------------------
(* The orphan watchdog of life l, once its pipe is at its end.             *)

WdStep(l, pc) == wd' = [wd EXCEPT ![l].pc = pc]

\* The processes with the data directory on their command line.
pgdata_matches == Postmasters

\* SIGTERM to the pids it knows: some of them end.
WdTerm(l) ==
    /\ wd[l].pc = "term" /\ WdStep(l, "kill")
    /\ \E P \in SUBSET (wd[l].pids \cap alive) : Ends(P)
    /\ UNCHANGED <<appVars, childVars, pgVars, feeder, carry, stale>>

\* Mutant: no SIGKILL.
WdKillNothing(l) ==
    /\ wd[l].pc = "kill" /\ WdStep(l, "sweep")
    /\ UNCHANGED <<appVars, procVars, childVars, pgVars, feeder, carry, stale>>

\* The grace period is over: SIGKILL to the survivors.
WdKill(l) ==
    /\ wd[l].pc = "kill" /\ WdStep(l, "sweep")
    /\ Ends(wd[l].pids)
    /\ UNCHANGED <<appVars, childVars, pgVars, feeder, carry, stale>>

\* SIGKILL to whatever has the data directory open, up to three times.
WdSweep(l) ==
    /\ wd[l].pc = "sweep"
    /\ Ends(pgdata_matches)
    /\ IF pgdata_matches = {} \/ wd[l].pass = 3
       THEN WdStep(l, "done")
       ELSE wd' = [wd EXCEPT ![l].pass = @ + 1]
    /\ UNCHANGED <<appVars, childVars, pgVars, feeder, carry, stale>>

----------------------------------------------------------------------------

StartStep == PostgresUp \/ SpawnService \/ ServiceReady \/ Started \/ PushPids
StopStep  == JoinTask \/ StopPostgres \/ Bye
TaskStep(c) == \/ Check(c) \/ SpawnChild(c) \/ Answered(c) \/ ProbeTimeout(c) \/ Verify(c)
               \/ ChildExited(c) \/ StopSeen(c) \/ Terminate(c) \/ BackoffOver(c)
PgStep    == PostgresDown \/ PostgresRetry \/ PostgresRestart
WdLife(l) == WdTerm(l) \/ WdKill(l) \/ WdSweep(l)

Next ==
    \/ \E armed \in BOOLEAN : Launch(armed)
    \/ StartStep \/ StartFails \/ FeederTick
    \/ Shutdown \/ StopStep \/ Killed
    \/ \E p \in alive : Crash(p) \/ Bind(p)
    \/ \E c \in Children : TaskStep(c)
    \/ PgStep
    \/ \E l \in late : LatePostgres(l)
    \/ \E l \in Lives : WdLife(l)

\* Tasks run, timers elapse, calls return; nobody has to crash, to launch the
\* app or to close it.
Fairness ==
    /\ WF_vars(StartStep) /\ WF_vars(at # "up" /\ StartFails)
    /\ WF_vars(StopStep) /\ WF_vars(FeederTick)
    /\ \A c \in Children : WF_vars(TaskStep(c))
    /\ \A p \in Process : WF_vars(p \in alive /\ Bind(p))
    /\ WF_vars(PgStep)
    /\ \A l \in Lives : WF_vars(WdLife(l))

Spec == Init /\ [][Next]_vars /\ Fairness

----------------------------------------------------------------------------
(* Properties.                                                             *)

Running == at # "off"

\* A live child of the running supervisor is the one in its slot: the task
\* never has two, and the watchdogs, which read the slots, miss none.
SlotTells ==
    \A p \in Mine : Running /\ p.svc # PG => slot[p.svc] = p

\* Shutdown goes backwards: a service is stopped when everything started
\* after it is gone for good, and postgres last.
StoppedInOrder ==
    at \in Stopping => \A i \in (step + 1) .. Len(Order) : \A p \in Mine : p.svc # Order[i]

\* After an orderly shutdown nothing of that life runs, except a postgres
\* whose restart was in flight when its watchdog was aborted.
LeavesNothing ==
    at = "bye" => \A p \in Mine : p.svc = PG /\ p \notin wd[life].pids

\* A shutdown stops in order, and what it has stopped stays stopped.
Orderly == StoppedInOrder /\ LeavesNothing

\* No guarded service is reported ready while another process listens on its
\* port, provided lsof works.
NeverAdopts ==
    [][\A c \in Guarded :
        LsofWorks /\ loop'[c].pc = "steady" /\ ~At(c, {"steady"}) => holds[c] \in {slot[c], None}]_vars

\* When the feeder has nothing to send and no push is on its way, the orphan
\* watchdog knows every process of the app, unless a push that had collected
\* its pids earlier came later than the feeder's line.
CurrentSet ==
    feeder.on /\ carry = None /\ collect_child_pids = feeder.last /\ ~stale
        => Mine \subseteq wd[life].pids

\* The comment on the feeder and the protocol promise it without exception.
AlwaysCurrentSet ==
    feeder.on /\ carry = None /\ collect_child_pids = feeder.last
        => Mine \subseteq wd[life].pids

\* Every process of the app is accounted for: the app's own slots name it, the
\* orphan watchdog has been told of it as soon as the feeder is at rest, and
\* when a watchdog has finished, every process it knew of is dead.
NoOrphans ==
    /\ SlotTells
    /\ CurrentSet
    /\ \A l \in Lives : wd[l].pc = "done" => alive \cap wd[l].pids = {}

\* start() ends, and so does shutdown().
StartEnds    == at \in Starting ~> at \notin Starting
ShutdownEnds == at \in Stopping ~> at = "off"
LifeMovesOn  == StartEnds /\ ShutdownEnds
=============================================================================
