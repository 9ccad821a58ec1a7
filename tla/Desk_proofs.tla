----------------------------- MODULE Desk_proofs -----------------------------
(***************************************************************************)
(* The desktop shell, for any vaults, any number of flows that replace the *)
(* stack and any documents and menu commands under way:                    *)
(*                                                                         *)
(*   Follows   the shell's copies agree with the stack once it is settled  *)
(*   Paused    a pause asked for in the tray holds on whatever daemon runs *)
(*   Placed    what a document or a menu command writes lands where it may *)
(*                                                                         *)
(* each for the shell alone and with its windows, and for the windows      *)
(*                                                                         *)
(*   WindowsFollow   the registry, the menu, the titles and the home       *)
(*                   window tell what is on the screen and in the manifest *)
(*                                                                         *)
(* The argument for the shell: as long as nobody has taken the stack       *)
(* during the tail of another flow (raced), at most one flow is telling    *)
(* the shell of the stack, it is the one that raised it, and what it has   *)
(* told so far is right (Telling1).  A pause is followed through the same  *)
(* tail.  For the windows (TellInv): every place a title is kept in, and   *)
(* every step that the news of a rename has still to make, is related to   *)
(* the registry; the shell's own invariant says which daemon's news it is. *)
(***************************************************************************)
EXTENDS Windows, FiniteSetTheorems, SequenceTheorems, WellFoundedInduction, TLAPS

-----------------------------------------------------------------------------
(* The parts of the inductive invariant. *)

ScOK ==
  /\ {"flows", "asks", "press", "save", "sync"} \subseteq DOMAIN sc
  /\ sc.flows \in Seq(FlowKinds) /\ sc.asks \in Seq(AskKinds)
  /\ sc.press \in Nat /\ sc.save \in Nat /\ sc.sync \in BOOLEAN

\* One flow at a time has the stack down, and the stack is up otherwise.
OneDown ==
  /\ \A f, g \in Flows : flow[f].pc = "down" /\ flow[g].pc = "down" => f = g
  /\ stack.up <=> \A f \in Flows : flow[f].pc # "down"

\* Only the boot and Open Vault tell the shell.
Tellers ==
  \A f \in Flows : flow[f].pc \in Telling =>
      /\ f = 0 \/ FlowKind(f) = "menu"
      /\ flow[f].pc = "bound" => flow[f].got <= stack.gen

\* Who tells has raised the stack, and has told what it should so far.
Right(f) ==
  /\ stack.by = FlowKind(f) /\ flow[f].to = stack.vault
  /\ flow[f].pc = "bound" => flow[f].got = stack.gen
  /\ flow[f].pc = "live" => flow[f].got = stack.era
  /\ f = 0 /\ flow[f].pc \in {"bind", "bound"} =>
        live = [vault |-> stack.vault, era |-> stack.era]
  /\ f # 0 /\ flow[f].pc \in {"facts", "live"} => bridge.ctl = stack.gen
Telling1 ==
  ~raced => \A f \in Flows : flow[f].pc \in Telling =>
      /\ \A g \in Flows \ {f} : flow[g].pc \notin Telling \cup {"down"}
      /\ Right(f)

\* From the replay on, a pause that is wanted is the daemon's.
Replayed(f) == flow[f].pc = "bound" \/ (f # 0 /\ flow[f].pc \in {"facts", "live"})
PauseHeld ==
  /\ stack.up /\ stack.by \in {"boot", "menu"} /\ ~raced
  /\ \A f \in Flows : flow[f].pc \in Telling => Replayed(f)
  /\ bridge.want /\ ~late
  => stack.paused

\* Where an ask is in its course, and whose vault its snapshot names.
Courses ==
  \A a \in Asks :
      /\ ask[a].pc = "ask" => /\ sc.asks[a] \in {"dir", "zip"}
                              /\ live \in [vault : Vaults, era : Nat]
      /\ ask[a].pc \in {"copy", "swap"} => sc.asks[a] = "dir" /\ ask[a].vault \in Vaults
      /\ ask[a].pc = "call" => sc.asks[a] \in {"zip", "new"}
      /\ ask[a].pc \in {"fetch", "pick"} => sc.asks[a] = "export"
      /\ ask[a].pc = "idle" => ~ask[a].safe
      /\ ask[a].gen <= stack.gen
      /\ ask[a].safe /\ Unmoved(a) => ask[a].vault = stack.vault

\* A copy has one place, and is made once.
Copies ==
  /\ \A v \in Vaults, n \in Names : tree[v][n] # 0 => ask[tree[v][n]].pc \in {"poll", "end"}
  /\ \A v \in Vaults, n, m \in Names : tree[v][n] # 0 /\ tree[v][n] = tree[v][m] => n = m

DeskInv ==
  /\ ScOK /\ TypeOK /\ OneDown /\ Tellers /\ Telling1 /\ FactsFollow /\ PauseHeld /\ Courses /\ Copies
-----------------------------------------------------------------------------
(* The scenario, and the steps by what they are about. *)

LEMMA StaticShell ==
  ASSUME ScOK, [Next]_vars
  PROVE  /\ ScOK' /\ sc'.flows = sc.flows /\ sc'.asks = sc.asks
         /\ Flows' = Flows /\ Asks' = Asks /\ Names' = Names
         /\ \A f \in Flows : FlowKind(f)' = FlowKind(f)
<1>1. \/ sc' = sc
      \/ sc.press > 0 /\ sc' = [sc EXCEPT !.press = @ - 1]
      \/ sc.save > 0 /\ sc' = [sc EXCEPT !.save = @ - 1]
  BY DEF vars, Next, Begin, FlowStep, Picked, TakeDown, BringUp, Bind, Bound, Facts, SetLive, Running, Publish,
    Press, Save, Forward, Sync, Arrive, AskStep, Answer, Stage, Swap, Poll, Call, Fetch, SaveAs
<1>2. sc'.flows = sc.flows /\ sc'.asks = sc.asks /\ ScOK'
  BY <1>1 DEF ScOK
<1> QED
  BY <1>2 DEF Flows, Asks, Names, FlowKind

LEMMA Kinds ==
  ASSUME ScOK
  PROVE  /\ FlowKind(0) = "boot" /\ 0 \in Flows
         /\ \A f \in Flows : f # 0 => FlowKind(f) \in FlowKinds
         /\ \A a \in Asks : sc.asks[a] \in AskKinds
<1>1. \A f \in Flows : f # 0 => f \in 1 .. Len(sc.flows)
  BY DEF ScOK, Flows
<1> QED
  BY <1>1 DEF FlowKind, Flows, ScOK, Asks

\* A step of a document or of a menu command.
Asking(a) == Arrive(a) \/ AskStep(a)
Turning(f) == Begin(f) \/ FlowStep(f)

LEMMA AskingFrame ==
  ASSUME NEW a \in Asks, Asking(a)
  PROVE  UNCHANGED <<sc, stack, flow, live, bridge, shown, prefs, open, known, raced, late>>
BY DEF Asking, Arrive, AskStep, Answer, Stage, Swap, Poll, Call, Fetch, SaveAs

LEMMA TurningFrame ==
  ASSUME NEW f \in Flows, Turning(f)
  PROVE  UNCHANGED <<sc, shown, prefs, open, ask, tree, known, landed>>
BY DEF Turning, Begin, FlowStep, Picked, TakeDown, BringUp, Bind, Bound, Facts, SetLive

-----------------------------------------------------------------------------
(* The types. *)

StackOK ==
  stack \in [up : BOOLEAN, gen : Nat, vault : Vaults, era : Nat,
             paused : BOOLEAN, by : FlowKinds \cup {"boot"}]
FlowOK == flow \in [Flows -> [pc : FlowPcs, to : Vaults, got : Nat]]
LiveOK == live \in [vault : Vaults, era : Nat] \cup {None}
BridgeOK == bridge \in [want : BOOLEAN, ctl : Nat, fwd : SUBSET (0 .. stack.gen)]
FlagsOK == shown \in BOOLEAN /\ prefs \in BOOLEAN /\ raced \in BOOLEAN /\ late \in BOOLEAN
OpenOK == open \in [running : BOOLEAN, record : BOOLEAN]
AskOK ==
  ask \in [Asks -> [pc : AskPcs, vault : Vaults \cup {None}, era : Nat,
                    name : Nat, gen : Nat, calm : BOOLEAN, safe : BOOLEAN]]
TreeOK == tree \in [Vaults -> [Names -> {0} \cup Asks]]
KnownOK == known \in [Vaults -> SUBSET Names]
LandedOK == landed \in [Asks -> Vaults \cup {Outside, None}]

LEMMA ShellTypes ==
  TypeOK <=> /\ StackOK /\ FlowOK /\ LiveOK /\ BridgeOK /\ FlagsOK /\ OpenOK
             /\ AskOK /\ TreeOK /\ KnownOK /\ LandedOK
BY DEF TypeOK, StackOK, FlowOK, LiveOK, BridgeOK, FlagsOK, OpenOK, AskOK, TreeOK, KnownOK, LandedOK

LEMMA InitShell ==
  ASSUME Init
  PROVE  DeskInv
<1>1. ScOK
  BY DeskAssumption DEF Init, ScOK
<1>2. First \in Vaults
  BY DeskAssumption DEF First
<1>3. StackOK /\ LiveOK /\ OpenOK
  BY <1>2 DEF Init, StackOK, LiveOK, OpenOK
<1>4. FlowOK
  BY <1>2 DEF Init, FlowOK, Flows, FlowPcs
<1>5. BridgeOK
  BY DEF Init, BridgeOK
<1>6. FlagsOK
  BY <1>1 DEF Init, FlagsOK, ScOK
<1>7. AskOK
  BY DEF Init, AskOK, Asks, AskPcs
<1>8. TreeOK /\ KnownOK /\ LandedOK
  BY DEF Init, TreeOK, KnownOK, LandedOK, Asks, Names
<1>9. TypeOK
  BY <1>3, <1>4, <1>5, <1>6, <1>7, <1>8, ShellTypes
<1>10. \A f \in Flows : flow[f].pc = IF f = 0 THEN "down" ELSE "idle"
  BY DEF Init, Flows
<1>11. 0 \in Flows
  BY <1>1, Kinds
<1>12. OneDown
  <2>1. ~stack.up
    BY DEF Init
  <2> QED
    BY <1>10, <1>11, <2>1 DEF OneDown
<1>13. Tellers /\ Telling1
  BY <1>10 DEF Tellers, Telling1, Telling
<1>14. FactsFollow /\ PauseHeld
  BY DEF Init, FactsFollow, Settled, PauseHeld
<1>15. Courses
  BY <1>7 DEF Init, Courses, Asks
<1>16. Copies
  <2>1. \A v \in Vaults, n \in Names : tree[v][n] = 0
    BY DEF Init, Names, Asks
  <2> QED
    BY <2>1 DEF Copies
<1> QED
  BY <1>1, <1>9, <1>12, <1>13, <1>14, <1>15, <1>16 DEF DeskInv
-----------------------------------------------------------------------------
(* The names of copies. *)

\* There is a free name in every vault as long as an ask has made no copy.
LEMMA FreeNames ==
  ASSUME ScOK, TreeOK, Copies, NEW v \in Vaults,
         NEW a \in Asks, ask[a].pc \notin {"poll", "end"}
  PROVE  FreeName(v) \in Names /\ tree[v][FreeName(v)] = 0
<1> DEFINE Free == {n \in Names : tree[v][n] = 0}
           Before == {ss \in Nat \X Nat : ss[1] < ss[2]}
<1>1. Len(sc.asks) \in Nat /\ Names = 1 .. Len(sc.asks) /\ Asks = Names
  BY DEF ScOK, Names, Asks
<1>2. Free # {}
  <2> SUFFICES ASSUME Free = {}
               PROVE  FALSE
    OBVIOUS
  <2>1. \A n \in Names : tree[v][n] \in Asks \ {a}
    BY DEF TreeOK, Copies
  <2>2. IsFiniteSet(Names) /\ Cardinality(Names) \in Nat
    <3>1. IsFiniteSet(1 .. Len(sc.asks))
             /\ Cardinality(1 .. Len(sc.asks)) = IF 1 > Len(sc.asks) THEN 0 ELSE Len(sc.asks) - 1 + 1
      BY <1>1, FS_Interval
    <3> QED
      BY <1>1, <3>1
  <2>3. IsFiniteSet(Asks \ {a}) /\ Cardinality(Asks \ {a}) = Cardinality(Names) - 1
    BY <1>1, <2>2, FS_RemoveElement
  <2>4. tree[v] \in [Names -> Asks \ {a}]
    BY <2>1 DEF TreeOK
  <2>5. PICK n, m \in Names : n # m /\ tree[v][n] = tree[v][m]
    BY <2>2, <2>3, <2>4, FS_PigeonHole
  <2> QED
    BY <2>5, <2>1 DEF Copies
<1>3. \E n \in Free : \A m \in Free : ~(<<m, n>> \in Before)
  <2>1. Free \subseteq Nat
    BY <1>1
  <2>2. IsWellFoundedOn(Before, Nat)
    BY NatLessThanWellFounded DEF OpToRel
  <2> QED
    BY <1>2, <2>1, <2>2, WFMin
<1>4. PICK n \in Free : \A m \in Free : ~(<<m, n>> \in Before)
  BY <1>3
<1>5. \A m \in Names : tree[v][m] = 0 => n <= m
  <2> TAKE m \in Names
  <2> HAVE tree[v][m] = 0
  <2>1. m \in Nat /\ n \in Nat /\ m \in Free
    BY <1>1
  <2>2. <<m, n>> \in Nat \X Nat /\ ~(m < n)
    BY <2>1, <1>4
  <2> QED
    BY <2>1, <2>2
<1>6. n \in Names /\ tree[v][n] = 0
  BY <1>4
<1> QED
  BY <1>5, <1>6 DEF FreeName

-----------------------------------------------------------------------------
(* The types, step by step. *)

\* The vault a flow or the slot names, and what an ask reads of them.
LEMMA StackStep ==
  ASSUME ScOK, TypeOK, [Next]_vars
  PROVE  StackOK' /\ stack'.gen >= stack.gen
<1> StackOK /\ FlowOK /\ FlagsOK
  BY ShellTypes
<1>1. CASE UNCHANGED vars
  BY <1>1 DEF vars, StackOK
<1>2. ASSUME NEW f \in Flows, Turning(f)
      PROVE  StackOK' /\ stack'.gen >= stack.gen
  <2>1. FlowKind(f) \in FlowKinds \cup {"boot"} /\ flow[f].to \in Vaults
    BY Kinds DEF FlowOK
  <2>2. CASE TakeDown(f)
    <3> DEFINE era == IF FlowKind(f) = "reboot" THEN stack.era ELSE stack.era + 1
    <3>1. era \in Nat /\ stack' = [stack EXCEPT !.up = FALSE, !.era = era]
      BY <2>2 DEF TakeDown, StackOK
    <3> HIDE DEF era
    <3>2. StackOK'
      BY <3>1 DEF StackOK
    <3> QED
      BY <3>1, <3>2 DEF StackOK
  <2>3. CASE BringUp(f)
    <3> DEFINE p == ~prefs
               v == flow[f].to
               by == FlowKind(f)
               n == stack.gen + 1
    <3>1. p \in BOOLEAN /\ v \in Vaults /\ by \in FlowKinds \cup {"boot"} /\ n \in Nat
      BY <2>1 DEF StackOK
    <3>2. stack' = [stack EXCEPT !.up = TRUE, !.gen = n, !.vault = v, !.paused = p, !.by = by]
      BY <2>3 DEF BringUp
    <3>3. n = stack.gen + 1
      OBVIOUS
    <3> HIDE DEF p, v, by, n
    <3>4. StackOK'
      BY <3>1, <3>2 DEF StackOK
    <3> QED
      BY <3>2, <3>3, <3>4 DEF StackOK
  <2>4. CASE Bind(f)
    <3> PICK p \in BOOLEAN : stack' = [stack EXCEPT !.paused = p]
      BY <2>4 DEF Bind, StackOK
    <3> QED
      BY DEF StackOK
  <2>5. CASE UNCHANGED stack
    BY <2>5 DEF StackOK
  <2> QED
    BY <1>2, <2>2, <2>3, <2>4, <2>5 DEF Turning, Begin, FlowStep, Picked, Bound, Facts, SetLive
<1>3. CASE Press
  <2> DEFINE p == ~shown
  <2>1. p \in BOOLEAN
    OBVIOUS
  <2>2. stack' = stack \/ stack' = [stack EXCEPT !.paused = p]
    BY <1>3 DEF Press
  <2> HIDE DEF p
  <2> QED
    BY <2>1, <2>2 DEF StackOK
<1>4. CASE Save
  <2> DEFINE p == ~prefs'
  <2>1. p \in BOOLEAN
    OBVIOUS
  <2>2. stack' = stack \/ stack' = [stack EXCEPT !.paused = p]
    BY <1>4 DEF Save
  <2> HIDE DEF p
  <2> QED
    BY <2>1, <2>2 DEF StackOK
<1>5. CASE UNCHANGED stack
  BY <1>5 DEF StackOK
<1> QED
  BY <1>1, <1>2, <1>3, <1>4, <1>5, AskingFrame DEF Next, Turning, Asking, Running, Publish, Forward, Sync

LEMMA FlowTypeStep ==
  ASSUME ScOK, TypeOK, [Next]_vars
  PROVE  FlowOK'
<1> StackOK /\ FlowOK
  BY ShellTypes
<1>0. Flows' = Flows
  BY StaticShell
<1> SUFFICES flow' \in [Flows -> [pc : FlowPcs, to : Vaults, got : Nat]]
  BY <1>0 DEF FlowOK
<1>1. CASE UNCHANGED flow
  BY <1>1 DEF FlowOK
<1>2. CASE Running
  BY <1>2, Kinds DEF Running, To, FlowOK, FlowPcs
<1>3. ASSUME NEW f \in Flows, Turning(f)
      PROVE  flow' \in [Flows -> [pc : FlowPcs, to : Vaults, got : Nat]]
  <2>1. stack.vault \in Vaults /\ stack.gen \in Nat /\ stack.era \in Nat
    BY DEF StackOK
  <2>2. CASE Begin(f)
    BY <2>2 DEF Begin, To, FlowOK, FlowPcs
  <2>3. CASE Picked(f)
    BY <2>3 DEF Picked, To, FlowOK, FlowPcs
  <2>4. CASE TakeDown(f)
    BY <2>1, <2>4 DEF TakeDown, FlowOK, FlowPcs
  <2>5. CASE BringUp(f)
    <3> PICK pc \in {"facts", "bind", "end"} : flow' = [flow EXCEPT ![f].pc = pc]
      BY <2>5 DEF BringUp, To
    <3> QED
      BY DEF FlowOK, FlowPcs, Telling
  <2>6. CASE Bind(f)
    <3> PICK pc \in {"bound", "serve", "facts"}, n \in Nat :
               flow' = [flow EXCEPT ![f].pc = pc, ![f].got = n]
      BY <2>1, <2>6 DEF Bind
    <3> QED
      BY DEF FlowOK, FlowPcs, Telling
  <2>7. CASE Bound(f)
    BY <2>7 DEF Bound, To, FlowOK, FlowPcs, Telling
  <2>8. CASE Facts(f)
    BY <2>1, <2>8 DEF Facts, FlowOK, FlowPcs, Telling
  <2>9. CASE SetLive(f)
    BY <2>9 DEF SetLive, To, FlowOK, FlowPcs, Telling
  <2> QED
    BY <1>3, <2>2, <2>3, <2>4, <2>5, <2>6, <2>7, <2>8, <2>9 DEF Turning, FlowStep
<1> QED
  BY <1>1, <1>2, <1>3, AskingFrame
     DEF vars, Next, Turning, Asking, Publish, Press, Save, Forward, Sync

LEMMA SlotStep ==
  ASSUME ScOK, TypeOK, Tellers, [Next]_vars
  PROVE  LiveOK' /\ BridgeOK' /\ FlagsOK' /\ OpenOK'
<1> StackOK /\ FlowOK /\ LiveOK /\ BridgeOK /\ FlagsOK /\ OpenOK
  BY ShellTypes
<1>0. StackOK' /\ stack'.gen >= stack.gen /\ StackOK
  BY StackStep
<1>1. LiveOK'
  <2>1. CASE UNCHANGED live
    BY <2>1 DEF LiveOK
  <2>2. ASSUME NEW f \in Flows, SetLive(f)
        PROVE  LiveOK'
    BY <2>2 DEF SetLive, LiveOK, StackOK, FlowOK
  <2> QED
    BY <2>1, <2>2, AskingFrame
       DEF vars, Next, Asking, FlowStep, Begin, Picked, TakeDown, BringUp, Bind, Bound, Facts,
           Running, Publish, Press, Save, Forward, Sync
<1>2. BridgeOK'
  <2>1. CASE UNCHANGED bridge
    BY <1>0, <2>1 DEF BridgeOK, StackOK
  <2>2. ASSUME NEW f \in Flows, Bound(f)
        PROVE  BridgeOK'
    <3>1. flow[f].got <= stack.gen /\ flow[f].got \in Nat
      BY <2>2 DEF Bound, Tellers, Telling, FlowOK
    <3>2. stack' = stack /\ bridge' = [bridge EXCEPT !.ctl = flow[f].got, !.fwd = @ \cup {flow[f].got}]
      BY <2>2 DEF Bound
    <3>3. stack'.gen = stack.gen /\ stack.gen \in Nat
      BY <3>2 DEF StackOK
    <3>4. flow[f].got \in 0 .. stack.gen
      BY <3>1, <3>3
    <3> QED
      BY <3>1, <3>2, <3>3, <3>4 DEF BridgeOK
  <2>3. CASE Press
    <3> DEFINE w == ~shown
    <3>1. w \in BOOLEAN /\ bridge' = [bridge EXCEPT !.want = w]
      BY <2>3 DEF Press
    <3>2. stack'.gen = stack.gen
      BY <2>3 DEF Press, StackOK
    <3> HIDE DEF w
    <3> QED
      BY <3>1, <3>2 DEF BridgeOK
  <2> QED
    BY <2>1, <2>2, <2>3, AskingFrame
       DEF vars, Next, Asking, FlowStep, Begin, Picked, TakeDown, BringUp, Bind, SetLive, Facts,
           Running, Publish, Save, Forward, Sync
<1>3. shown' \in BOOLEAN
  <2>1. CASE UNCHANGED shown
    BY <2>1 DEF FlagsOK
  <2>2. CASE Press \/ Forward
    BY <2>2, <1>0 DEF Press, Forward, FlagsOK, StackOK
  <2> QED
    BY <2>1, <2>2, AskingFrame, TurningFrame
       DEF vars, Next, Asking, Turning, Running, Publish, Save, Sync
<1>4. prefs' \in BOOLEAN
  BY AskingFrame, TurningFrame
     DEF FlagsOK, vars, Next, Asking, Turning, Running, Publish, Press, Save, Forward, Sync
<1>5. raced' \in BOOLEAN
  <2>1. CASE UNCHANGED raced
    BY <2>1 DEF FlagsOK
  <2>2. ASSUME NEW f \in Flows, TakeDown(f)
        PROVE  raced' \in BOOLEAN
    BY <2>2 DEF TakeDown
  <2> QED
    BY <2>1, <2>2, AskingFrame
       DEF vars, Next, Asking, FlowStep, Begin, Picked, BringUp, Bind, Bound, Facts, SetLive,
           Running, Publish, Press, Save, Forward, Sync
<1>6. late' \in BOOLEAN
  <2>1. CASE UNCHANGED late
    BY <2>1 DEF FlagsOK
  <2>2. ASSUME NEW f \in Flows, Bind(f)
        PROVE  late' \in BOOLEAN
    BY <2>2 DEF Bind
  <2>3. CASE Press \/ Save
    BY <2>3 DEF Press, Save
  <2> QED
    BY <2>1, <2>2, <2>3, AskingFrame
       DEF vars, Next, Asking, FlowStep, Begin, Picked, TakeDown, BringUp, Bound, Facts, SetLive,
           Running, Publish, Forward, Sync
<1>7. OpenOK'
  <2>1. CASE UNCHANGED open
    BY <2>1 DEF OpenOK
  <2>2. CASE Running \/ Publish
    BY <2>2 DEF Running, Publish, OpenOK
  <2> QED
    BY <2>1, <2>2, AskingFrame, TurningFrame
       DEF vars, Next, Asking, Turning, Press, Save, Forward, Sync
<1> QED
  BY <1>1, <1>2, <1>3, <1>4, <1>5, <1>6, <1>7 DEF FlagsOK
-----------------------------------------------------------------------------
(* Documents and menu commands, step by step. *)

\* What an ask reads of the slot, and of the stack.
Snap(pc) ==
  [pc |-> pc, vault |-> live.vault, era |-> live.era, name |-> 0, gen |-> stack.gen,
   calm |-> ~Busy /\ ~raced, safe |-> Settled]

Filled == live \in [vault : Vaults, era : Nat]

\* The steps of an ask, by what they do to it.
LEMMA AskMoves ==
  ASSUME ScOK, TypeOK, Copies, Courses, NEW a \in Asks, Asking(a)
  PROVE  \/ /\ AskTo(a, "end") /\ UNCHANGED tree
            /\ UNCHANGED landed \/ ask[a].pc \in {"call", "pick"}
         \/ /\ ask[a].pc \in {"idle", "ask"} /\ Filled /\ UNCHANGED <<tree, landed>>
            /\ \E pc \in {"ask", "call", "fetch", "copy"} :
                  /\ ask' = [ask EXCEPT ![a] = Snap(pc)]
                  /\ pc = "ask" => sc.asks[a] \in {"dir", "zip"}
                  /\ pc = "copy" => sc.asks[a] = "dir"
                  /\ pc = "call" => sc.asks[a] \in {"zip", "new"}
                  /\ pc = "fetch" => sc.asks[a] = "export"
         \/ /\ ask[a].pc = "idle" /\ Filled /\ sc.asks[a] = "pending" /\ UNCHANGED landed
            /\ \E n \in Names :
                  /\ tree[live.vault][n] = 0
                  /\ tree' = [tree EXCEPT ![live.vault][n] = a]
                  /\ ask' = [ask EXCEPT ![a].pc = "poll", ![a].vault = live.vault, ![a].name = n]
         \/ /\ ask[a].pc = "copy" /\ UNCHANGED <<tree, landed>>
            /\ \E n \in Names : ask' = [ask EXCEPT ![a].pc = "swap", ![a].name = n]
         \/ /\ ask[a].pc = "swap" /\ AskTo(a, "poll")
            /\ tree' = [tree EXCEPT ![ask[a].vault][ask[a].name] = a]
            /\ landed' = [landed EXCEPT ![a] = ask[a].vault]
         \/ ask[a].pc = "fetch" /\ AskTo(a, "pick") /\ UNCHANGED <<tree, landed>>
<1> LiveOK /\ TreeOK /\ AskOK
  BY ShellTypes
<1>1. sc.asks[a] \in AskKinds
  BY Kinds
<1>2. CASE Arrive(a) /\ live = None
  BY <1>2 DEF Arrive, AskTo
<1>3. CASE Arrive(a) /\ live # None /\ sc.asks[a] = "pending"
  <2>1. Filled /\ live.vault \in Vaults
    BY <1>3 DEF LiveOK, Filled
  <2>2. ask[a].pc = "idle"
    BY <1>3 DEF Arrive
  <2>3. FreeName(live.vault) \in Names /\ tree[live.vault][FreeName(live.vault)] = 0
    BY <2>1, <2>2, FreeNames
  <2> QED
    BY <1>3, <2>1, <2>3 DEF Arrive
<1>4. CASE Arrive(a) /\ live # None /\ sc.asks[a] # "pending"
  <2>1. ask[a].pc = "idle" /\ UNCHANGED <<tree, landed>> /\ Filled
    BY <1>4 DEF Arrive, LiveOK, Filled
  <2>2. \/ AskTo(a, "end")
        \/ sc.asks[a] \in {"dir", "zip"} /\ ask' = [ask EXCEPT ![a] = Snap("ask")]
        \/ sc.asks[a] = "new" /\ ask' = [ask EXCEPT ![a] = Snap("call")]
        \/ sc.asks[a] = "export" /\ ask' = [ask EXCEPT ![a] = Snap("fetch")]
    BY <1>4 DEF Arrive, Snapshot, Snap
  <2>3. CASE AskTo(a, "end")
    BY <2>1, <2>3
  <2>4. CASE sc.asks[a] \in {"dir", "zip"} /\ ask' = [ask EXCEPT ![a] = Snap("ask")]
    BY <1>4, <2>1, <2>4
  <2>5. CASE sc.asks[a] = "new" /\ ask' = [ask EXCEPT ![a] = Snap("call")]
    BY <1>4, <2>1, <2>5
  <2>6. CASE sc.asks[a] = "export" /\ ask' = [ask EXCEPT ![a] = Snap("fetch")]
    BY <1>4, <2>1, <2>6
  <2> QED
    BY <2>2, <2>3, <2>4, <2>5, <2>6
<1>5. CASE Answer(a)
  <2>1. ask[a].pc = "ask" /\ sc.asks[a] \in {"dir", "zip"} /\ Filled
    BY <1>5 DEF Answer, Courses, Filled
  <2> QED
    BY <1>5, <2>1 DEF Answer, Snapshot, Snap
<1>6. CASE Stage(a)
  <2>1. ask[a].pc = "copy" /\ ask[a].vault \in Vaults
    BY <1>6 DEF Stage, Courses
  <2>2. FreeName(ask[a].vault) \in Names
    BY <2>1, FreeNames
  <2> QED
    BY <1>6, <2>1, <2>2 DEF Stage
<1>7. CASE Swap(a)
  BY <1>7 DEF Swap
<1>8. CASE Poll(a) \/ Fetch(a)
  BY <1>8 DEF Poll, Fetch
<1>9. CASE Call(a)
  BY <1>9 DEF Call
<1>10. CASE SaveAs(a)
  BY <1>10 DEF SaveAs
<1> QED
  BY <1>2, <1>3, <1>4, <1>5, <1>6, <1>7, <1>8, <1>9, <1>10 DEF Asking, AskStep

LEMMA AskTypeStep ==
  ASSUME ScOK, TypeOK, Copies, Courses, [Next]_vars
  PROVE  AskOK' /\ TreeOK' /\ KnownOK' /\ LandedOK'
<1> StackOK /\ LiveOK /\ AskOK /\ TreeOK /\ KnownOK /\ LandedOK
  BY ShellTypes
<1>0. Asks' = Asks /\ Names' = Names
  BY StaticShell
<1> DEFINE Ask == [pc : AskPcs, vault : Vaults \cup {None}, era : Nat,
                   name : Nat, gen : Nat, calm : BOOLEAN, safe : BOOLEAN]
<1>1. ASSUME NEW a \in Asks, Asking(a)
      PROVE  /\ ask' \in [Asks -> Ask]
             /\ tree' \in [Vaults -> [Names -> {0} \cup Asks]]
             /\ landed' \in [Asks -> Vaults \cup {Outside, None}]
  <2>1. Names \subseteq Nat
    BY DEF Names, Asks
  <2>2. ask' \in [Asks -> Ask]
    <3>1. CASE \E pc \in {"end", "poll", "pick"} : AskTo(a, pc)
      BY <3>1 DEF AskTo, AskOK, AskPcs
    <3>2. CASE Filled /\ \E pc \in {"ask", "call", "fetch", "copy"} : ask' = [ask EXCEPT ![a] = Snap(pc)]
      <4>1. PICK pc \in {"ask", "call", "fetch", "copy"} : ask' = [ask EXCEPT ![a] = Snap(pc)]
        BY <3>2
      <4> DEFINE calm == ~Busy /\ ~raced
                 safe == Settled
      <4>2. calm \in BOOLEAN /\ safe \in BOOLEAN
        BY DEF Settled
      <4>3. Snap(pc) = [pc |-> pc, vault |-> live.vault, era |-> live.era, name |-> 0,
                        gen |-> stack.gen, calm |-> calm, safe |-> safe]
        BY DEF Snap
      <4> HIDE DEF calm, safe
      <4>4. live.vault \in Vaults /\ live.era \in Nat /\ stack.gen \in Nat /\ pc \in AskPcs
        BY <3>2 DEF Filled, StackOK, AskPcs
      <4>5. Snap(pc) \in Ask
        BY <4>2, <4>3, <4>4
      <4> QED
        BY <4>1, <4>5 DEF AskOK
    <3>3. CASE Filled /\ \E n \in Names : ask' = [ask EXCEPT ![a].pc = "poll", ![a].vault = live.vault, ![a].name = n]
      <4>1. live.vault \in Vaults
        BY <3>3 DEF Filled
      <4>2. PICK n \in Nat : ask' = [ask EXCEPT ![a].pc = "poll", ![a].vault = live.vault, ![a].name = n]
        BY <3>3, <2>1
      <4> DEFINE r == [ask[a] EXCEPT !.pc = "poll", !.vault = live.vault, !.name = n]
      <4>3. r \in Ask
        BY <4>1 DEF AskOK, AskPcs
      <4>4. ask' = [ask EXCEPT ![a] = r]
        BY <4>2
      <4> HIDE DEF r
      <4> QED
        BY <4>3, <4>4 DEF AskOK
    <3>4. CASE \E n \in Names : ask' = [ask EXCEPT ![a].pc = "swap", ![a].name = n]
      <4>1. PICK n \in Nat : ask' = [ask EXCEPT ![a].pc = "swap", ![a].name = n]
        BY <3>4, <2>1
      <4> DEFINE r == [ask[a] EXCEPT !.pc = "swap", !.name = n]
      <4>2. r \in Ask
        BY <4>1 DEF AskOK, AskPcs
      <4>3. ask' = [ask EXCEPT ![a] = r]
        BY <4>1
      <4> HIDE DEF r
      <4> QED
        BY <4>2, <4>3 DEF AskOK
    <3> QED
      BY <1>1, <3>1, <3>2, <3>3, <3>4, AskMoves
  <2>3. tree' \in [Vaults -> [Names -> {0} \cup Asks]]
    <3>1. CASE UNCHANGED tree
      BY <3>1 DEF TreeOK
    <3>2. CASE \E v, n : tree' = [tree EXCEPT ![v][n] = a]
      <4>1. PICK v, n : tree' = [tree EXCEPT ![v][n] = a]
        BY <3>2
      <4> DEFINE row == [tree[v] EXCEPT ![n] = a]
      <4>2. v \in Vaults => row \in [Names -> {0} \cup Asks]
        BY DEF TreeOK
      <4>3. tree' = [tree EXCEPT ![v] = row]
        BY <4>1
      <4> HIDE DEF row
      <4> QED
        BY <4>2, <4>3 DEF TreeOK
    <3> QED
      BY <1>1, <3>1, <3>2, AskMoves
  <2>4. landed' \in [Asks -> Vaults \cup {Outside, None}]
    <3>1. CASE UNCHANGED landed
      BY <3>1 DEF LandedOK
    <3>2. CASE Swap(a)
      BY <3>2 DEF Swap, LandedOK, Courses
    <3>3. CASE Call(a)
      <4>1. UNCHANGED landed \/ landed' = [landed EXCEPT ![a] = stack.vault]
        BY <3>3 DEF Call
      <4> QED
        BY <4>1 DEF LandedOK, StackOK
    <3>4. CASE SaveAs(a)
      BY <3>4 DEF SaveAs, LandedOK
    <3> QED
      BY <1>1, <3>1, <3>2, <3>3, <3>4 DEF Asking, Arrive, AskStep, Answer, Stage, Poll, Fetch
  <2> QED
    BY <2>2, <2>3, <2>4
<1>2. CASE Sync
  <2>1. PICK n \in Names : known' = [known EXCEPT ![stack.vault] = known[stack.vault] \cup {n}]
    BY <1>2 DEF Sync
  <2>2. KnownOK'
    BY <1>0, <2>1 DEF KnownOK, StackOK
  <2>3. UNCHANGED <<ask, tree, landed>>
    BY <1>2 DEF Sync
  <2> QED
    BY <1>0, <2>2, <2>3 DEF AskOK, TreeOK, LandedOK
<1>3. CASE UNCHANGED <<ask, tree, known, landed>>
  BY <1>0, <1>3 DEF AskOK, TreeOK, KnownOK, LandedOK
<1>4. ASSUME NEW a \in Asks, Asking(a)
      PROVE  AskOK' /\ TreeOK' /\ KnownOK' /\ LandedOK'
  <2>1. known' = known
    BY <1>4, AskingFrame
  <2> QED
    BY <1>0, <1>1, <1>4, <2>1 DEF AskOK, TreeOK, KnownOK, LandedOK
<1> QED
  BY <1>2, <1>3, <1>4, TurningFrame
     DEF vars, Next, Turning, Asking, Running, Publish, Press, Save, Forward

\* The types, after any step.
LEMMA ShellTypesStep ==
  ASSUME ScOK, TypeOK, Tellers, Copies, Courses, [Next]_vars
  PROVE  TypeOK'
<1>1. StackOK' /\ FlowOK' /\ LiveOK' /\ BridgeOK' /\ FlagsOK' /\ OpenOK'
  BY StackStep, FlowTypeStep, SlotStep
<1>2. AskOK' /\ TreeOK' /\ KnownOK' /\ LandedOK'
  BY AskTypeStep
<1> QED
  BY <1>1, <1>2 DEF TypeOK, StackOK, FlowOK, LiveOK, BridgeOK, FlagsOK, OpenOK, AskOK, TreeOK, KnownOK, LandedOK
-----------------------------------------------------------------------------
(* What a step leaves as it is. *)

\* Only a new stack has a new number, vault or kind.
Kept == stack'.gen = stack.gen /\ stack'.vault = stack.vault /\ stack'.by = stack.by
LEMMA Keeps ==
  ASSUME ScOK, TypeOK, [Next]_vars
  PROVE  \/ Kept
         \/ \E f \in Flows : BringUp(f) /\ stack'.gen = stack.gen + 1
<1> StackOK
  BY ShellTypes
<1>1. CASE UNCHANGED stack
  BY <1>1 DEF Kept
<1>2. ASSUME NEW f \in Flows, TakeDown(f)
      PROVE  Kept
  BY <1>2 DEF TakeDown, StackOK, Kept
<1>3. ASSUME NEW f \in Flows, Bind(f)
      PROVE  Kept
  BY <1>3 DEF Bind, StackOK, Kept
<1>4. CASE Press
  BY <1>4 DEF Press, StackOK, Kept
<1>5. CASE Save
  BY <1>5 DEF Save, StackOK, Kept
<1>6. ASSUME NEW f \in Flows, BringUp(f)
      PROVE  stack'.gen = stack.gen + 1
  BY <1>6 DEF BringUp, StackOK
<1> QED
  BY <1>1, <1>2, <1>3, <1>4, <1>5, <1>6, AskingFrame
     DEF vars, Next, FlowStep, Begin, Picked, Bound, Facts, SetLive, Asking, Running, Publish, Forward, Sync

\* A flow moves alone.
LEMMA TurnsAlone ==
  ASSUME TypeOK, NEW f \in Flows, Turning(f)
  PROVE  \A g \in Flows \ {f} : flow'[g] = flow[g]
<1> FlowOK
  BY ShellTypes
<1> QED
  BY DEF FlowOK, Turning, Begin, FlowStep, Picked, TakeDown, BringUp, Bind, Bound, Facts, SetLive, To

\* Where a flow goes.
LEMMA Turns ==
  ASSUME ScOK, TypeOK, NEW f \in Flows, Turning(f)
  PROVE  \/ (Begin(f) \/ Picked(f)) /\ flow[f].pc \in {"idle", "ask"} /\ flow'[f].pc \in {"ask", "wait", "end"}
         \/ TakeDown(f) /\ flow[f].pc = "wait" /\ flow'[f].pc = "down"
         \/ /\ BringUp(f) /\ flow[f].pc = "down" /\ flow'[f].to = flow[f].to
            /\ flow'[f].pc = IF f = 0 THEN "facts" ELSE IF FlowKind(f) = "menu" THEN "bind" ELSE "end"
         \/ /\ Bind(f) /\ flow[f].pc = "bind" /\ flow'[f].to = flow[f].to
            /\ flow'[f].pc = IF stack.up THEN "bound" ELSE IF f = 0 THEN "serve" ELSE "facts"
            /\ stack.up => flow'[f].got = stack.gen
         \/ /\ Bound(f) /\ flow[f].pc = "bound" /\ flow'[f].to = flow[f].to
            /\ flow'[f].pc = IF f = 0 THEN "serve" ELSE "facts"
         \/ /\ Facts(f) /\ flow[f].pc = "facts" /\ flow'[f].to = flow[f].to
            /\ flow'[f].pc = "live" /\ (stack.up => flow'[f].got = stack.era)
         \/ /\ SetLive(f) /\ flow[f].pc = "live" /\ flow'[f].to = flow[f].to
            /\ flow'[f].pc = IF f = 0 THEN "bind" ELSE "end"
<1> FlowOK
  BY ShellTypes
<1>0. FlowKind(f) = "boot" <=> f = 0
  BY Kinds DEF FlowKinds
<1>1. CASE Begin(f)
  BY <1>1 DEF Begin, FlowOK, To
<1>2. CASE Picked(f)
  BY <1>2 DEF Picked, FlowOK, To
<1>3. CASE TakeDown(f)
  BY <1>3 DEF TakeDown, FlowOK
<1>4. CASE BringUp(f)
  <2> DEFINE pc == CASE FlowKind(f) = "boot" -> "facts" [] FlowKind(f) = "menu" -> "bind" [] OTHER -> "end"
  <2>1. pc = IF f = 0 THEN "facts" ELSE IF FlowKind(f) = "menu" THEN "bind" ELSE "end"
    BY <1>0
  <2>2. flow[f].pc = "down" /\ flow' = [flow EXCEPT ![f].pc = pc]
    BY <1>4 DEF BringUp, To
  <2> HIDE DEF pc
  <2>3. flow'[f].pc = pc /\ flow'[f].to = flow[f].to
    BY <2>2 DEF FlowOK
  <2> QED
    BY <1>4, <2>1, <2>2, <2>3
<1>5. CASE Bind(f)
  BY <1>5 DEF Bind, FlowOK
<1>6. CASE Bound(f)
  BY <1>6 DEF Bound, FlowOK, To
<1>7. CASE Facts(f)
  BY <1>7 DEF Facts, FlowOK
<1>8. CASE SetLive(f)
  BY <1>8 DEF SetLive, FlowOK, To
<1> QED
  BY <1>1, <1>2, <1>3, <1>4, <1>5, <1>6, <1>7, <1>8 DEF Turning, FlowStep

\* The other steps leave the flows alone, but for the end of the boot.
LEMMA Stays ==
  ASSUME ScOK, TypeOK, [Next]_vars
  PROVE  \/ \E f \in Flows : Turning(f)
         \/ Running /\ flow[0].pc = "serve" /\ flow'[0].pc = "end" /\ \A g \in Flows \ {0} : flow'[g] = flow[g]
         \/ UNCHANGED flow
<1> FlowOK
  BY ShellTypes
<1>1. CASE Running
  <2>1. 0 \in Flows
    BY Kinds
  <2> QED
    BY <1>1, <2>1 DEF Running, To, FlowOK
<1> QED
  BY <1>1, AskingFrame DEF vars, Next, Turning, Asking, Publish, Press, Save, Forward, Sync
-----------------------------------------------------------------------------
(* Who has the stack, and who tells of it. *)

LEMMA OneDownStep ==
  ASSUME ScOK, TypeOK, OneDown, [Next]_vars
  PROVE  OneDown'
<1> StackOK /\ FlowOK
  BY ShellTypes
<1>0. Flows' = Flows
  BY StaticShell
<1>1. CASE UNCHANGED flow /\ stack'.up = stack.up
  BY <1>0, <1>1 DEF OneDown
<1>2. ASSUME NEW f \in Flows, Turning(f)
      PROVE  OneDown'
  <2>1. \A g \in Flows \ {f} : flow'[g] = flow[g]
    BY <1>2, TurnsAlone
  <2>2. CASE TakeDown(f)
    <3>1. ~stack'.up /\ flow'[f].pc = "down" /\ \A g \in Flows : flow[g].pc # "down"
      BY <2>2 DEF TakeDown, StackOK, FlowOK
    <3> QED
      BY <1>0, <2>1, <3>1 DEF OneDown
  <2>3. CASE BringUp(f)
    <3>1. flow[f].pc = "down" /\ flow'[f].pc \in {"facts", "bind", "end"} /\ stack'.up
      BY <2>3, <1>2, Turns DEF BringUp, StackOK
    <3>2. \A g \in Flows : flow'[g].pc # "down"
      BY <2>1, <3>1 DEF OneDown
    <3> QED
      BY <1>0, <3>1, <3>2 DEF OneDown
  <2>4. CASE ~TakeDown(f) /\ ~BringUp(f)
    <3>1. flow[f].pc # "down" /\ flow'[f].pc # "down"
      BY <1>2, <2>4, Turns
    <3>2. stack'.up = stack.up
      BY <1>2, <2>4 DEF Turning, FlowStep, Begin, Picked, Bind, Bound, Facts, SetLive, StackOK
    <3> QED
      BY <1>0, <2>1, <3>1, <3>2 DEF OneDown
  <2> QED
    BY <2>2, <2>3, <2>4
<1>3. CASE Running
  <2>1. flow[0].pc = "serve" /\ flow'[0].pc = "end" /\ \A g \in Flows \ {0} : flow'[g] = flow[g]
    BY <1>3, Kinds DEF Running, To, FlowOK
  <2>2. stack' = stack
    BY <1>3 DEF Running
  <2> QED
    BY <1>0, <2>1, <2>2 DEF OneDown
<1>4. CASE Press \/ Save
  <2>1. stack'.up = stack.up /\ flow' = flow
    BY <1>4 DEF Press, Save, StackOK
  <2> QED
    BY <1>1, <2>1
<1> QED
  BY <1>1, <1>2, <1>3, <1>4, AskingFrame DEF vars, Next, Turning, Asking, Publish, Forward, Sync

LEMMA TellersStep ==
  ASSUME ScOK, TypeOK, Tellers, [Next]_vars
  PROVE  Tellers'
<1> StackOK /\ FlowOK
  BY ShellTypes
<1>0. /\ Flows' = Flows /\ \A f \in Flows : FlowKind(f)' = FlowKind(f)
      /\ stack.gen \in Nat /\ stack'.gen \in Nat /\ stack'.gen >= stack.gen
      /\ \A f \in Flows : flow[f].got \in Nat
  BY StaticShell, StackStep DEF StackOK, FlowOK
<1> SUFFICES ASSUME NEW g \in Flows, flow'[g].pc \in Telling
             PROVE  /\ g = 0 \/ FlowKind(g) = "menu"
                    /\ flow'[g].pc = "bound" => flow'[g].got <= stack'.gen
  BY <1>0 DEF Tellers
<1>1. CASE flow'[g] = flow[g]
  BY <1>0, <1>1 DEF Tellers
<1>2. ASSUME NEW f \in Flows, Turning(f), f = g
      PROVE  /\ g = 0 \/ FlowKind(g) = "menu"
             /\ flow'[g].pc = "bound" => flow'[g].got <= stack'.gen
  BY <1>0, <1>2, Turns DEF Tellers, Telling
<1>3. CASE Running /\ flow'[0].pc = "end" /\ g = 0
  BY <1>3 DEF Telling
<1> QED
  BY <1>1, <1>2, <1>3, Stays, TurnsAlone

\* A flow alone in its tail has raised the stack, and has told of it rightly.
LEMMA TellingStep ==
  ASSUME ScOK, TypeOK, OneDown, Tellers, Telling1, [Next]_vars
  PROVE  Telling1'
<1> StackOK /\ FlowOK /\ BridgeOK
  BY ShellTypes
<1>0. Flows' = Flows /\ \A f \in Flows : FlowKind(f)' = FlowKind(f)
  BY StaticShell
<1> SUFFICES ASSUME ~raced', NEW g \in Flows, flow'[g].pc \in Telling
             PROVE  /\ \A h \in Flows \ {g} : flow'[h].pc \notin Telling \cup {"down"}
                    /\ Right(g)'
  BY <1>0 DEF Telling1
<1>1. ASSUME ~raced, flow' = flow, UNCHANGED <<live, bridge.ctl>>, Kept, stack'.era = stack.era
      PROVE  /\ \A h \in Flows \ {g} : flow'[h].pc \notin Telling \cup {"down"}
             /\ Right(g)'
  BY <1>0, <1>1 DEF Telling1, Right, Kept
<1>2. ASSUME NEW f \in Flows, Turning(f)
      PROVE  /\ \A h \in Flows \ {g} : flow'[h].pc \notin Telling \cup {"down"}
             /\ Right(g)'
  <2>1. \A h \in Flows \ {f} : flow'[h] = flow[h]
    BY <1>2, TurnsAlone
  <2>2. CASE TakeDown(f)
    BY <1>2, <2>1, <2>2, Turns DEF TakeDown, Telling
  <2>3. CASE ~TakeDown(f)
    <3>1. ~raced
      BY <1>2, <2>3 DEF Turning, Begin, FlowStep, Picked, BringUp, Bind, Bound, Facts, SetLive
    <3>2. CASE Begin(f) \/ Picked(f)
      <4>1. flow'[f].pc \notin Telling \cup {"down"} /\ flow[f].pc \notin Telling \cup {"down"}
        BY <1>2, <3>2, Turns DEF Telling, Begin, Picked, TakeDown, BringUp, Bind, Bound, Facts, SetLive
      <4>2. UNCHANGED <<stack, live, bridge>>
        BY <3>2 DEF Begin, Picked
      <4>3. g # f /\ flow'[g] = flow[g] /\ Right(g) /\ \A h \in Flows \ {g} : flow[h].pc \notin Telling \cup {"down"}
        BY <2>1, <3>1, <4>1 DEF Telling1
      <4> QED
        BY <1>0, <2>1, <4>1, <4>2, <4>3 DEF Right
    <3>3. CASE BringUp(f)
      <4>1. flow[f].pc = "down"
        BY <3>3 DEF BringUp
      <4>2. \A h \in Flows \ {f} : flow'[h].pc \notin Telling \cup {"down"}
        BY <2>1, <3>1, <4>1 DEF Telling1, OneDown
      <4>3. g = f
        BY <4>2
      <4>4. stack'.by = FlowKind(f) /\ stack'.vault = flow[f].to
        BY <3>3 DEF BringUp, StackOK
      <4>5. flow'[f].to = flow[f].to /\ flow'[f].pc \in {"facts", "bind"} /\ (flow'[f].pc = "facts" <=> f = 0)
        BY <1>2, <3>3, <4>1, <4>3, Turns DEF Telling
      <4> QED
        BY <1>0, <4>2, <4>3, <4>4, <4>5 DEF Right
    <3>4. CASE flow[f].pc \in Telling /\ ~BringUp(f) /\ ~Begin(f) /\ ~Picked(f)
      <4>1. Right(f) /\ \A h \in Flows \ {f} : flow'[h].pc \notin Telling \cup {"down"}
        BY <2>1, <3>1, <3>4 DEF Telling1
      <4>2. g = f
        BY <4>1
      <4>3. stack.up
        BY <2>1, <3>4, <4>1 DEF OneDown, Telling
      <4>4. Kept /\ stack'.era = stack.era
        BY <1>2, <2>3, <3>4 DEF Turning, FlowStep, Bind, Bound, Facts, SetLive, StackOK, Kept
      <4>5. CASE Bind(f)
        <5>1. flow'[f].to = flow[f].to /\ flow'[f].pc = "bound" /\ flow'[f].got = stack.gen
          BY <4>3, <4>5 DEF Bind, FlowOK
        <5>2. live' = live /\ flow[f].pc = "bind"
          BY <4>5 DEF Bind
        <5> QED
          BY <1>0, <4>1, <4>2, <4>4, <5>1, <5>2 DEF Right, Kept
      <4>6. CASE Bound(f)
        <5>1. flow'[f].to = flow[f].to /\ flow'[f].pc = "facts" /\ f # 0 /\ flow[f].pc = "bound"
          BY <4>2, <4>6 DEF Bound, To, FlowOK, Telling
        <5>2. bridge'.ctl = flow[f].got
          BY <4>6 DEF Bound, BridgeOK
        <5> QED
          BY <1>0, <4>1, <4>2, <4>4, <5>1, <5>2 DEF Right, Kept
      <4>7. CASE Facts(f)
        <5>1. flow'[f].to = flow[f].to /\ flow'[f].pc = "live" /\ flow[f].pc = "facts" /\ flow'[f].got = stack.era
          BY <4>3, <4>7 DEF Facts, FlowOK
        <5>2. bridge' = bridge
          BY <4>7 DEF Facts
        <5> QED
          BY <1>0, <4>1, <4>2, <4>4, <5>1, <5>2 DEF Right, Kept
      <4>8. CASE SetLive(f)
        <5>1. flow'[f].to = flow[f].to /\ flow'[f].pc = "bind" /\ f = 0 /\ flow[f].pc = "live"
          BY <4>2, <4>8 DEF SetLive, To, FlowOK, Telling
        <5>2. live' = [vault |-> stack.vault, era |-> flow[f].got]
          BY <4>8, <5>1 DEF SetLive
        <5> QED
          BY <1>0, <4>1, <4>2, <4>4, <5>1, <5>2 DEF Right, Kept
      <4> QED
        BY <1>2, <2>3, <3>4, <4>5, <4>6, <4>7, <4>8 DEF Turning, FlowStep
    <3> QED
      BY <1>2, <2>3, <3>2, <3>3, <3>4, Turns DEF Telling
  <2> QED
    BY <2>2, <2>3
<1>3. CASE Running
  <2>1. flow[0].pc = "serve" /\ flow'[0].pc = "end" /\ \A h \in Flows \ {0} : flow'[h] = flow[h]
    BY <1>3, Kinds DEF Running, To, FlowOK
  <2>2. UNCHANGED <<stack, live, bridge, raced>>
    BY <1>3 DEF Running
  <2>3. g # 0 /\ flow'[g] = flow[g] /\ Right(g) /\ \A h \in Flows \ {g} : flow[h].pc \notin Telling \cup {"down"}
    BY <2>1, <2>2 DEF Telling1, Telling
  <2> QED
    BY <1>0, <2>1, <2>2, <2>3 DEF Right, Telling
<1>4. CASE Press
  BY <1>1, <1>4 DEF Press, StackOK, BridgeOK, Kept
<1>5. CASE Save
  BY <1>1, <1>5 DEF Save, StackOK, Kept
<1>6. CASE UNCHANGED <<stack, flow, live, bridge, raced>>
  BY <1>1, <1>6 DEF Kept
<1> QED
  BY <1>2, <1>3, <1>4, <1>5, <1>6, AskingFrame DEF vars, Next, Turning, Asking, Publish, Forward, Sync
-----------------------------------------------------------------------------
(* What the shell's copies and the pause are worth. *)

\* Whether the shell is settled changes with who is busy and with the stack.
LEMMA SettledSame ==
  ASSUME ScOK, TypeOK, Kept, stack'.up = stack.up, raced' = raced, NEW f \in Flows,
         Flows' = Flows, \A g \in Flows \ {f} : flow'[g] = flow[g],
         flow[f].pc \in Telling \cup {"down"} <=> flow'[f].pc \in Telling \cup {"down"}
  PROVE  Settled' <=> Settled
<1>1. Busy' <=> Busy
  BY DEF Busy
<1> QED
  BY <1>1 DEF Settled, Kept

LEMMA FactsStep ==
  ASSUME ScOK, TypeOK, OneDown, Telling1, FactsFollow, [Next]_vars
  PROVE  FactsFollow'
<1> StackOK /\ FlowOK /\ BridgeOK
  BY ShellTypes
<1>0. Flows' = Flows
  BY StaticShell
<1> SUFFICES ASSUME Settled'
             PROVE  live' = [vault |-> stack'.vault, era |-> stack'.era] /\ bridge'.ctl = stack'.gen
  BY DEF FactsFollow
<1>1. ASSUME UNCHANGED <<flow, live, raced, stack.up, stack.era, bridge.ctl>>, Kept
      PROVE  live' = [vault |-> stack'.vault, era |-> stack'.era] /\ bridge'.ctl = stack'.gen
  <2>1. Settled
    BY <1>0, <1>1 DEF Settled, Busy, Kept
  <2> QED
    BY <1>1, <2>1 DEF FactsFollow, Kept
<1>2. ASSUME NEW f \in Flows, Turning(f)
      PROVE  live' = [vault |-> stack'.vault, era |-> stack'.era] /\ bridge'.ctl = stack'.gen
  <2>1. \A h \in Flows \ {f} : flow'[h] = flow[h]
    BY <1>2, TurnsAlone
  <2>2. ~raced' /\ stack'.up /\ stack'.by \in {"boot", "menu"} /\ flow'[f].pc \notin Telling \cup {"down"}
    BY <1>0 DEF Settled, Busy
  <2>3. ~TakeDown(f)
    BY <2>2 DEF TakeDown, StackOK
  <2>4. ~BringUp(f)
    <3> SUFFICES ASSUME BringUp(f) PROVE FALSE
      OBVIOUS
    <3>1. stack'.by = FlowKind(f)
      BY DEF BringUp, StackOK
    <3>2. FlowKind(f) = "menu" \/ f = 0
      BY <2>2, <3>1, Kinds DEF FlowKinds
    <3>3. flow[f].pc = "down"
      BY DEF BringUp
    <3> QED
      BY <1>2, <2>2, <3>2, <3>3, Turns DEF Telling
  <2>5. raced' = raced
    BY <1>2, <2>3, <2>4 DEF Turning, Begin, FlowStep, Picked, Bind, Bound, Facts, SetLive
  <2>6. CASE Begin(f) \/ Picked(f)
    <3>1. UNCHANGED <<stack, live, bridge>>
      BY <2>6 DEF Begin, Picked
    <3>2. flow[f].pc \notin Telling \cup {"down"}
      BY <2>6 DEF Begin, Picked, Telling
    <3>3. Settled
      BY <1>0, <2>1, <2>2, <2>5, <3>1, <3>2, SettledSame DEF Kept
    <3> QED
      BY <3>1, <3>3 DEF FactsFollow
  <2>7. CASE flow[f].pc \in Telling /\ (Bind(f) \/ Bound(f) \/ Facts(f) \/ SetLive(f))
    <3>1. Right(f) /\ \A h \in Flows \ {f} : flow[h].pc # "down"
      BY <2>2, <2>5, <2>7 DEF Telling1
    <3>2. stack.up
      BY <3>1, <2>7 DEF OneDown, Telling
    <3>3. CASE Bind(f) \/ Facts(f)
      <4>1. flow'[f].pc \in {"bound", "live"}
        BY <3>2, <3>3 DEF Bind, Facts, FlowOK
      <4> QED
        BY <2>2, <4>1 DEF Telling
    <3>4. CASE Bound(f)
      <4>1. f = 0 /\ UNCHANGED <<stack, live>> /\ flow[f].pc = "bound" /\ bridge'.ctl = flow[f].got
        BY <2>2, <3>4 DEF Bound, To, FlowOK, BridgeOK, Telling
      <4> QED
        BY <3>1, <4>1 DEF Right
    <3>5. CASE SetLive(f)
      <4>1. f # 0 /\ UNCHANGED <<stack, bridge>> /\ flow[f].pc = "live"
        BY <2>2, <3>5 DEF SetLive, To, FlowOK, Telling
      <4>2. live' = [vault |-> flow[f].to, era |-> flow[f].got]
        BY <3>5, <4>1 DEF SetLive
      <4> QED
        BY <3>1, <4>1, <4>2 DEF Right
    <3> QED
      BY <2>7, <3>3, <3>4, <3>5
  <2> QED
    BY <1>2, <2>3, <2>4, <2>6, <2>7, Turns DEF Telling
<1>3. CASE Running
  <2>1. flow[0].pc = "serve" /\ flow'[0].pc = "end" /\ 0 \in Flows /\ \A h \in Flows \ {0} : flow'[h] = flow[h]
    BY <1>3, Kinds DEF Running, To, FlowOK
  <2>2. UNCHANGED <<stack, live, bridge, raced>>
    BY <1>3 DEF Running
  <2>3. Settled
    BY <1>0, <2>1, <2>2, SettledSame DEF Kept, Telling
  <2> QED
    BY <2>2, <2>3 DEF FactsFollow
<1>4. CASE Press
  BY <1>1, <1>4 DEF Press, StackOK, BridgeOK, Kept
<1>5. CASE Save
  BY <1>1, <1>5 DEF Save, StackOK, Kept
<1>6. CASE UNCHANGED <<stack, flow, live, bridge, raced>>
  BY <1>1, <1>6 DEF Kept
<1> QED
  BY <1>2, <1>3, <1>4, <1>5, <1>6, AskingFrame DEF vars, Next, Turning, Asking, Publish, Forward, Sync

LEMMA PauseStep ==
  ASSUME ScOK, TypeOK, OneDown, Telling1, FactsFollow, PauseHeld, [Next]_vars
  PROVE  PauseHeld'
<1> StackOK /\ FlowOK /\ BridgeOK
  BY ShellTypes
<1>0. Flows' = Flows
  BY StaticShell
<1> SUFFICES ASSUME stack'.up, stack'.by \in {"boot", "menu"}, ~raced', bridge'.want, ~late',
                    \A f \in Flows : flow'[f].pc \in Telling => Replayed(f)'
             PROVE  stack'.paused
  BY <1>0 DEF PauseHeld
<1>1. ASSUME UNCHANGED <<stack, bridge.want, raced, late>>,
             \A f \in Flows : flow[f].pc \in Telling => Replayed(f)
      PROVE  stack'.paused
  BY <1>1 DEF PauseHeld
<1>2. ASSUME NEW f \in Flows, Turning(f)
      PROVE  stack'.paused
  <2>1. \A h \in Flows \ {f} : flow'[h] = flow[h]
    BY <1>2, TurnsAlone
  <2>2. \A h \in Flows \ {f} : flow[h].pc \in Telling => Replayed(h)
    BY <1>0, <2>1 DEF Replayed
  <2>3. flow'[f].pc \in Telling => flow'[f].pc = "bound" \/ (f # 0 /\ flow'[f].pc \in {"facts", "live"})
    BY DEF Replayed
  <2>4. CASE Begin(f) \/ Picked(f)
    <3>1. UNCHANGED <<stack, bridge, raced, late>> /\ flow[f].pc \notin Telling
      BY <2>4 DEF Begin, Picked, Telling
    <3> QED
      BY <1>1, <2>2, <3>1
  <2>5. CASE TakeDown(f)
    BY <2>5 DEF TakeDown, StackOK
  <2>6. CASE BringUp(f)
    <3>1. stack'.by = FlowKind(f) /\ flow[f].pc = "down"
      BY <2>6 DEF BringUp, StackOK
    <3>2. FlowKind(f) = "menu" \/ f = 0
      BY <3>1, Kinds DEF FlowKinds
    <3>3. flow'[f].pc = IF f = 0 THEN "facts" ELSE "bind"
      BY <1>2, <2>6, <3>1, <3>2, Turns DEF Begin, Picked, TakeDown, Bind, Bound, Facts, SetLive
    <3> QED
      BY <2>3, <3>3 DEF Telling
  <2>7. CASE Bind(f)
    <3>1. flow[f].pc = "bind" /\ raced' = raced
      BY <2>7 DEF Bind
    <3>2. \A h \in Flows : flow[h].pc # "down"
      BY <3>1 DEF Telling1, Telling
    <3>3. stack.up
      BY <3>2 DEF OneDown
    <3>4. stack' = [stack EXCEPT !.paused = stack.paused \/ (stack.up /\ bridge.want)] /\ bridge' = bridge
      BY <2>7 DEF Bind
    <3>5. bridge.want
      BY <3>4
    <3> QED
      BY <3>3, <3>4, <3>5 DEF StackOK
  <2>8. CASE Bound(f)
    <3>1. UNCHANGED <<stack, raced, late>> /\ flow[f].pc = "bound" /\ bridge'.want = bridge.want
      BY <2>8 DEF Bound, BridgeOK
    <3> QED
      BY <1>1, <2>2, <3>1 DEF Replayed
  <2>9. CASE Facts(f)
    <3>1. UNCHANGED <<stack, bridge, raced, late>> /\ flow[f].pc = "facts" /\ flow'[f].pc = "live"
      BY <2>9 DEF Facts, FlowOK
    <3> QED
      BY <1>1, <2>2, <2>3, <3>1 DEF Replayed, Telling
  <2>10. CASE SetLive(f)
    <3>1. UNCHANGED <<stack, bridge, raced, late>> /\ flow[f].pc = "live" /\ (f = 0 => flow'[f].pc = "bind")
      BY <2>10 DEF SetLive, To, FlowOK
    <3> QED
      BY <1>1, <2>2, <2>3, <3>1 DEF Replayed, Telling
  <2> QED
    BY <1>2, <2>4, <2>5, <2>6, <2>7, <2>8, <2>9, <2>10 DEF Turning, FlowStep
<1>3. CASE Running
  <2>1. flow[0].pc = "serve" /\ \A h \in Flows \ {0} : flow'[h] = flow[h]
    BY <1>3, Kinds DEF Running, To, FlowOK
  <2>2. UNCHANGED <<stack, bridge, raced, late>>
    BY <1>3 DEF Running
  <2> QED
    BY <1>0, <1>1, <2>1, <2>2 DEF Telling, Replayed
<1>4. CASE Press
  <2>1. flow' = flow /\ raced' = raced /\ late' = (\E f \in Flows : flow[f].pc = "bound")
    BY <1>4 DEF Press
  <2>2. \A f \in Flows : flow[f].pc # "bound"
    BY <2>1
  <2>3. stack.up /\ stack.by \in {"boot", "menu"}
    BY <1>4 DEF Press, StackOK
  <2>4. bridge.ctl = stack.gen
    <3>1. CASE \E f \in Flows : flow[f].pc \in Telling
      <4>1. PICK f \in Flows : flow[f].pc \in Telling
        BY <3>1
      <4>2. f # 0 /\ flow[f].pc \in {"facts", "live"}
        BY <1>0, <2>1, <2>2, <4>1 DEF Replayed
      <4> QED
        BY <2>1, <4>1, <4>2 DEF Telling1, Right
    <3>2. CASE \A f \in Flows : flow[f].pc \notin Telling
      <4>1. ~Busy
        BY <2>3, <3>2 DEF Busy, OneDown
      <4> QED
        BY <2>1, <2>3, <4>1 DEF FactsFollow, Settled
    <3> QED
      BY <3>1, <3>2
  <2>5. bridge'.want = ~shown
    BY <1>4 DEF Press, BridgeOK
  <2> DEFINE p == ~shown
  <2>6. stack' = [stack EXCEPT !.paused = p] /\ p
    BY <1>4, <2>3, <2>4, <2>5 DEF Press
  <2> QED
    BY <2>6 DEF StackOK
<1>5. CASE Save
  <2>1. late' = (late \/ prefs')
    BY <1>5 DEF Save
  <2>2. ~prefs'
    BY <2>1
  <2>3. stack.up
    BY <1>5 DEF Save, StackOK
  <2> DEFINE p == ~prefs'
  <2>4. stack' = [stack EXCEPT !.paused = p] /\ p
    BY <1>5, <2>2, <2>3 DEF Save
  <2> QED
    BY <2>4 DEF StackOK
<1>6. CASE UNCHANGED <<stack, flow, bridge, raced, late>>
  BY <1>0, <1>1, <1>6 DEF Replayed
<1> QED
  BY <1>2, <1>3, <1>4, <1>5, <1>6, AskingFrame DEF vars, Next, Turning, Asking, Publish, Forward, Sync
-----------------------------------------------------------------------------
(* What is asked, and where it lands. *)

LEMMA CopiesStep ==
  ASSUME ScOK, TypeOK, Courses, Copies, [Next]_vars
  PROVE  Copies'
<1> AskOK /\ TreeOK
  BY ShellTypes
<1>0. Names' = Names /\ Asks' = Asks /\ Names = Asks
  BY StaticShell DEF Names
<1>1. CASE UNCHANGED <<ask, tree>>
  BY <1>0, <1>1 DEF Copies
<1>2. ASSUME NEW a \in Asks, Asking(a)
      PROVE  Copies'
  <2>1. CASE UNCHANGED tree
    <3>1. \A b \in Asks \ {a} : ask'[b] = ask[b]
      BY <1>2, AskMoves DEF AskOK, AskTo
    <3>2. ask[a].pc \in {"poll", "end"} => ask'[a].pc \in {"poll", "end"}
      BY <1>2, <2>1, AskMoves DEF AskOK, AskTo
    <3>3. \A v \in Vaults, n \in Names : tree[v][n] # 0 => tree[v][n] \in Asks
      BY DEF TreeOK
    <3> QED
      BY <1>0, <2>1, <3>1, <3>2, <3>3 DEF Copies
  <2>2. ASSUME ask[a].pc \in {"idle", "swap"}, ask'[a].pc = "poll",
               \A b \in Asks \ {a} : ask'[b] = ask[b],
               \E v \in Vaults : \E n : tree' = [tree EXCEPT ![v][n] = a]
        PROVE  Copies'
    <3>v. PICK v \in Vaults : \E n : tree' = [tree EXCEPT ![v][n] = a]
      BY <2>2
    <3>n. PICK n : tree' = [tree EXCEPT ![v][n] = a]
      BY <3>v
    <3>1. \A w \in Vaults, m \in Names : tree[w][m] # 0 => tree[w][m] \in Asks \ {a}
      BY <2>2 DEF Copies, TreeOK
    <3>2. \A w \in Vaults, m \in Names :
             tree'[w][m] = IF w = v /\ m = n THEN a ELSE tree[w][m]
      BY <3>n DEF TreeOK
    <3>3. \A w \in Vaults, m \in Names : tree'[w][m] # 0 => ask'[tree'[w][m]].pc \in {"poll", "end"}
      BY <2>2, <3>1, <3>2 DEF Copies
    <3>4. ASSUME NEW w \in Vaults, NEW m \in Names, NEW k \in Names,
                 tree'[w][m] # 0, tree'[w][m] = tree'[w][k]
          PROVE  m = k
      BY <3>1, <3>2, <3>4 DEF Copies
    <3> QED
      BY <1>0, <3>3, <3>4 DEF Copies
  <2>3. CASE ~UNCHANGED tree
    <3>1. CASE /\ ask[a].pc = "idle" /\ Filled
               /\ \E n \in Names :
                     /\ tree' = [tree EXCEPT ![live.vault][n] = a]
                     /\ ask' = [ask EXCEPT ![a].pc = "poll", ![a].vault = live.vault, ![a].name = n]
      <4>1. PICK n \in Names : /\ tree' = [tree EXCEPT ![live.vault][n] = a]
                               /\ ask' = [ask EXCEPT ![a].pc = "poll", ![a].vault = live.vault, ![a].name = n]
        BY <3>1
      <4>2. ask'[a].pc = "poll" /\ \A b \in Asks \ {a} : ask'[b] = ask[b]
        BY <4>1 DEF AskOK
      <4>3. live.vault \in Vaults
        BY <3>1 DEF Filled
      <4>4. \E v \in Vaults : \E m : tree' = [tree EXCEPT ![v][m] = a]
        BY <4>1, <4>3
      <4> QED
        BY <2>2, <3>1, <4>2, <4>4
    <3>2. CASE /\ ask[a].pc = "swap" /\ AskTo(a, "poll")
               /\ tree' = [tree EXCEPT ![ask[a].vault][ask[a].name] = a]
      <4>1. ask[a].vault \in Vaults
        BY <3>2 DEF Courses
      <4>2. ask'[a].pc = "poll" /\ \A b \in Asks \ {a} : ask'[b] = ask[b]
        BY <3>2 DEF AskOK, AskTo
      <4>3. \E v \in Vaults : \E m : tree' = [tree EXCEPT ![v][m] = a]
        BY <3>2, <4>1
      <4> QED
        BY <2>2, <3>2, <4>2, <4>3
    <3> QED
      BY <1>2, <2>3, <3>1, <3>2, AskMoves
  <2> QED
    BY <2>1, <2>3
<1> QED
  BY <1>1, <1>2, TurningFrame DEF vars, Next, Turning, Asking, Running, Publish, Press, Save, Forward, Sync

LEMMA CoursesStep ==
  ASSUME ScOK, TypeOK, FactsFollow, Courses, Copies, [Next]_vars
  PROVE  Courses'
<1> StackOK /\ AskOK /\ LiveOK
  BY ShellTypes
<1>0. Asks' = Asks /\ sc'.asks = sc.asks
  BY StaticShell
<1>1. stack.gen \in Nat /\ stack'.gen \in Nat /\ \A a \in Asks : ask[a].gen \in Nat
  BY StackStep DEF StackOK, AskOK
<1>2. Filled => live' \in [vault : Vaults, era : Nat]
  <2>1. ASSUME NEW f \in Flows, SetLive(f)
        PROVE  live' \in [vault : Vaults, era : Nat]
    <3>1. FlowOK
      BY ShellTypes
    <3> QED
      BY <2>1, <3>1 DEF SetLive, StackOK, FlowOK
  <2>2. CASE UNCHANGED live
    BY <2>2 DEF Filled
  <2> QED
    BY <2>1, <2>2, AskingFrame
       DEF vars, Next, FlowStep, Begin, Picked, TakeDown, BringUp, Bind, Bound, Facts, Asking,
           Running, Publish, Press, Save, Forward, Sync
<1> DEFINE Course(b) ==
             /\ ask'[b].pc = "ask" => /\ sc.asks[b] \in {"dir", "zip"}
                                      /\ live' \in [vault : Vaults, era : Nat]
             /\ ask'[b].pc \in {"copy", "swap"} => sc.asks[b] = "dir" /\ ask'[b].vault \in Vaults
             /\ ask'[b].pc = "call" => sc.asks[b] \in {"zip", "new"}
             /\ ask'[b].pc \in {"fetch", "pick"} => sc.asks[b] = "export"
             /\ ask'[b].pc = "idle" => ~ask'[b].safe
             /\ ask'[b].gen <= stack'.gen
             /\ ask'[b].safe /\ ask'[b].gen = stack'.gen => ask'[b].vault = stack'.vault
<1>3. ASSUME NEW b \in Asks, ask'[b] = ask[b]
      PROVE  Course(b)
  <2>1. \/ stack'.gen = stack.gen /\ stack'.vault = stack.vault
        \/ stack'.gen = stack.gen + 1
    BY Keeps DEF Kept
  <2>2. ask[b].gen <= stack.gen /\ (ask[b].safe /\ ask[b].gen = stack.gen => ask[b].vault = stack.vault)
    BY DEF Courses, Unmoved
  <2>3. ask[b].gen <= stack'.gen /\ (ask[b].safe /\ ask[b].gen = stack'.gen => ask[b].vault = stack'.vault)
    BY <1>1, <2>1, <2>2
  <2> QED
    BY <1>2, <1>3, <2>3 DEF Courses, Filled
<1>4. ASSUME NEW a \in Asks, Asking(a), ask'[a] # ask[a]
      PROVE  Course(a)
  <2>1. UNCHANGED <<stack, live>>
    BY <1>4, AskingFrame
  <2>2. ask[a].gen <= stack.gen /\ (ask[a].safe /\ ask[a].gen = stack.gen => ask[a].vault = stack.vault)
    BY DEF Courses, Unmoved
  <2>3. CASE AskTo(a, "end")
    BY <2>1, <2>2, <2>3 DEF AskTo, AskOK
  <2>4. CASE ask[a].pc = "swap" /\ AskTo(a, "poll")
    BY <2>1, <2>2, <2>4 DEF AskTo, AskOK
  <2>5. CASE ask[a].pc = "fetch" /\ AskTo(a, "pick")
    BY <2>1, <2>2, <2>5 DEF AskTo, AskOK, Courses
  <2>6. CASE ask[a].pc = "copy" /\ \E n \in Names : ask' = [ask EXCEPT ![a].pc = "swap", ![a].name = n]
    <3>1. PICK n \in Names : ask' = [ask EXCEPT ![a].pc = "swap", ![a].name = n]
      BY <2>6
    <3>2. /\ ask'[a].pc = "swap" /\ ask'[a].vault = ask[a].vault
          /\ ask'[a].safe = ask[a].safe /\ ask'[a].gen = ask[a].gen
      BY <3>1 DEF AskOK
    <3> QED
      BY <2>1, <2>2, <2>6, <3>2 DEF Courses
  <2>7. CASE /\ ask[a].pc = "idle"
             /\ \E n \in Names : ask' = [ask EXCEPT ![a].pc = "poll", ![a].vault = live.vault, ![a].name = n]
    <3>1. PICK n \in Names : ask' = [ask EXCEPT ![a].pc = "poll", ![a].vault = live.vault, ![a].name = n]
      BY <2>7
    <3>2. ask'[a].pc = "poll" /\ ask'[a].safe = ask[a].safe /\ ask'[a].gen = ask[a].gen
      BY <3>1 DEF AskOK
    <3>3. ~ask[a].safe
      BY <2>7 DEF Courses
    <3> QED
      BY <2>1, <2>2, <3>2, <3>3
  <2>8. CASE /\ Filled
             /\ \E pc \in {"ask", "call", "fetch", "copy"} :
                  /\ ask' = [ask EXCEPT ![a] = Snap(pc)]
                  /\ pc = "ask" => sc.asks[a] \in {"dir", "zip"}
                  /\ pc = "copy" => sc.asks[a] = "dir"
                  /\ pc = "call" => sc.asks[a] \in {"zip", "new"}
                  /\ pc = "fetch" => sc.asks[a] = "export"
    <3>1. PICK pc \in {"ask", "call", "fetch", "copy"} :
                  /\ ask' = [ask EXCEPT ![a] = Snap(pc)]
                  /\ pc = "ask" => sc.asks[a] \in {"dir", "zip"}
                  /\ pc = "copy" => sc.asks[a] = "dir"
                  /\ pc = "call" => sc.asks[a] \in {"zip", "new"}
                  /\ pc = "fetch" => sc.asks[a] = "export"
      BY <2>8
    <3>2. ask'[a] = Snap(pc)
      BY <3>1 DEF AskOK
    <3>3. ask'[a].pc = pc /\ ask'[a].vault = live.vault /\ ask'[a].gen = stack.gen /\ ask'[a].safe = Settled
      BY <3>2 DEF Snap
    <3>4. ask'[a].safe => live.vault = stack.vault
      BY <3>3 DEF FactsFollow
    <3>5. live.vault \in Vaults
      BY <2>8 DEF Filled
    <3> QED
      BY <1>1, <1>2, <2>1, <2>8, <3>1, <3>3, <3>4, <3>5
  <2> QED
    BY <1>4, <2>3, <2>4, <2>5, <2>6, <2>7, <2>8, AskMoves
<1>5. ASSUME NEW a \in Asks, Asking(a)
      PROVE  \A b \in Asks \ {a} : ask'[b] = ask[b]
  BY <1>5, AskMoves DEF AskOK, AskTo
<1>6. \/ ask' = ask
      \/ \E a \in Asks : Asking(a)
  BY TurningFrame DEF vars, Next, Turning, Asking, Running, Publish, Press, Save, Forward, Sync
<1>7. \A b \in Asks : Course(b)
  BY <1>3, <1>4, <1>5, <1>6
<1> QED
  BY <1>0, <1>7 DEF Courses, Unmoved

\* Where a write lands, by what is known of the snapshot it is made with.
LEMMA PlacedStep ==
  ASSUME ScOK, TypeOK, Courses, [Next]_vars, NEW a \in Asks, landed'[a] # landed[a]
  PROVE  CASE sc.asks[a] = "dir" -> ask[a].safe /\ Unmoved(a) => landed'[a] = stack.vault
           [] sc.asks[a] = "export" -> ask[a].safe /\ Unmoved(a) => landed'[a] # stack.vault
           [] OTHER -> landed'[a] = stack.vault
<1> LandedOK
  BY ShellTypes
<1>1. Swap(a) \/ Call(a) \/ SaveAs(a)
  <2>1. PICK b \in Asks : Asking(b)
    BY TurningFrame DEF vars, Next, Turning, Asking, Running, Publish, Press, Save, Forward, Sync
  <2>2. Swap(b) \/ Call(b) \/ SaveAs(b)
    BY <2>1 DEF Asking, AskStep, Arrive, Answer, Stage, Poll, Fetch
  <2>3. \E v : landed' = [landed EXCEPT ![b] = v]
    BY <2>2 DEF Swap, Call, SaveAs
  <2>4. b = a
    BY <2>3 DEF LandedOK
  <2> QED
    BY <2>2, <2>4
<1>2. ask[a].safe /\ Unmoved(a) => ask[a].vault = stack.vault
  BY DEF Courses
<1>3. CASE Swap(a)
  <2>1. sc.asks[a] = "dir" /\ landed'[a] = ask[a].vault
    BY <1>3 DEF Swap, Courses, LandedOK
  <2> QED
    BY <1>2, <2>1
<1>4. CASE Call(a)
  <2>1. sc.asks[a] \notin {"dir", "export"}
    BY <1>4 DEF Call, Courses
  <2>2. landed'[a] = stack.vault
    BY <1>4 DEF Call, LandedOK
  <2> QED
    BY <2>1, <2>2
<1>5. CASE SaveAs(a)
  <2>1. sc.asks[a] = "export" /\ landed'[a] # ask[a].vault
    BY <1>5 DEF SaveAs, Courses, LandedOK
  <2> QED
    BY <1>2, <2>1
<1> QED
  BY <1>1, <1>3, <1>4, <1>5

-----------------------------------------------------------------------------
(* The invariant, for the shell alone and beside its windows. *)

LEMMA DeskStep ==
  ASSUME DeskInv, [Next]_vars
  PROVE  DeskInv'
<1>1. ScOK'
  BY StaticShell DEF DeskInv
<1>2. TypeOK'
  BY ShellTypesStep DEF DeskInv
<1>3. OneDown' /\ Tellers' /\ Telling1'
  BY OneDownStep, TellersStep, TellingStep DEF DeskInv
<1>4. FactsFollow' /\ PauseHeld'
  BY FactsStep, PauseStep DEF DeskInv
<1>5. Courses' /\ Copies'
  BY CoursesStep, CopiesStep DEF DeskInv
<1> QED
  BY <1>1, <1>2, <1>3, <1>4, <1>5 DEF DeskInv

\* A step of the shell's windows is a step of the shell, or none.
LEMMA WindowsMove ==
  ASSUME [WindowsNext]_allvars
  PROVE  [Next]_vars
<1>1. CASE UNCHANGED allvars
  BY <1>1 DEF allvars
<1>2. ASSUME NEW f \in Flows, FlowSteps(f)
      PROVE  Next
  BY <1>2 DEF FlowSteps, Next, FlowStep
<1>3. ASSUME NEW a \in Asks, AskSteps(a)
      PROVE  Next
  BY <1>3 DEF AskSteps, Next, AskStep
<1>4. ASSUME Running \/ Publish \/ Press \/ Save \/ Forward \/ Sync
      PROVE  Next
  BY <1>4 DEF Next
<1>5. ASSUME NEW t, \/ ByDocument(t) \/ ByFolder(t) \/ ByRecent(t) \/ ByNew(t)
                    \/ Create(t) \/ Decide(t) \/ Build(t) \/ Insert(t)
                    \/ Record(t) \/ Export(t) \/ Draw(t) \/ SetMenu(t) \/ Load(t)
      PROVE  UNCHANGED vars
  BY <1>5 DEF ByDocument, ByFolder, ByRecent, ByNew, Beforehand, Create, Decide, Build, Insert,
              Record, Export, Draw, SetMenu, Load
<1>6. ASSUME NEW l, Focus(l) \/ Close(l) \/ Recover(l) \/ Rename(l) \/ \E r \in Routes : Navigate(l, r)
      PROVE  UNCHANGED vars
  BY <1>6 DEF Focus, Close, Recover, Rename, Navigate
<1>7. ASSUME Mirror \/ Wake \/ Retitle \/ NavigateHome \/ TogglePalette \/ OpenPreferences
      PROVE  UNCHANGED vars
  BY <1>7 DEF Mirror, Wake, Retitle, NavigateHome, TogglePalette, OpenPreferences
<1> QED
  BY <1>1, <1>2, <1>3, <1>4, <1>5, <1>6, <1>7 DEF WindowsNext
LEMMA ShellHolds == Spec => []DeskInv
<1>1. DeskInv /\ [Next]_vars => DeskInv'
  BY DeskStep
<1> QED
  BY <1>1, InitShell, PTL DEF Spec

LEMMA WindowsHold == WindowsSpec => []DeskInv
<1>1. WindowsInit => DeskInv
  BY InitShell DEF WindowsInit
<1>2. DeskInv /\ [WindowsNext]_allvars => DeskInv'
  BY WindowsMove, DeskStep
<1> QED
  BY <1>1, <1>2, PTL DEF WindowsSpec

-----------------------------------------------------------------------------
(* The windows: the parts of the inductive invariant. *)

JobPcs == {"idle", "call", "decide", "build", "insert", "draw", "set", "record", "end"}
RecentRec == [file : Files, title : Nat]
Recents == Seq(RecentRec)
Drawn == [reg : [Labels -> Nat \cup {None}], key : Labels \cup {None}, recent : Recents]
\* The scenario, as far as the windows go by it.
OpensOK ==
  /\ {"opens", "closes", "strays", "renames", "clicks"} \subseteq DOMAIN sc
  /\ sc.opens \in Seq(OpenKinds)
ScreenOK == screen \in [Labels -> Window \cup {None}]
RegOK == reg \in [Labels -> Nat \cup {None}] /\ key \in Labels \cup {None}
TaskPcs == JobPcs \cup {"load", "retitle"}
Snaps == Drawn \cup {None}
Retitles == SUBSET (Files \X Nat)
TaskRec == [pc : TaskPcs, file : Labels, title : Nat, era : Nat, due : BOOLEAN,
            gone : BOOLEAN, clean : BOOLEAN, snap : Snaps, ups : Retitles]
\* Every kind of task goes through steps of its own.
TaskOK ==
  /\ task \in [Tasks -> TaskRec]
  /\ \A t \in Jobs : task[t].pc \in JobPcs
  /\ \A t \in Tails : task[t].pc \in {"idle", "draw", "set", "load", "end"}
  /\ task[Watch].pc \in {"idle", "retitle", "draw", "set"}
RecentOK == recent \in Recents
NameOK == name \in [Files -> Nat]
NewsOK == news \in [daemon : SUBSET (0 .. stack.gen), greeted : SUBSET (0 .. stack.gen), tick : BOOLEAN]
OddOK == odd \in [ghosts : SUBSET Labels, behind : SUBSET Files, mixed : SUBSET Files, crossed : BOOLEAN]
StraysOK == strays \subseteq Labels \X Nat
WinTypes == OpensOK /\ ScreenOK /\ RegOK /\ TaskOK /\ RecentOK /\ NameOK /\ NewsOK /\ OddOK /\ StraysOK

\* A job that has begun is about a file; one that is due has its window on
\* screen from Insert to the end, unless the window was closed meanwhile.
Began == {"decide", "build", "insert", "draw", "set", "record"}
Shown == {"insert", "draw", "set", "record", "end"}

JobsOK ==
  \A t \in Jobs :
    /\ task[t].pc \in Began => task[t].file \in Files
    /\ task[t].pc \in {"idle", "call"} => ~task[t].due
    /\ task[t].pc \in Shown /\ task[t].due /\ ~task[t].gone =>
         Open(task[t].file) \/ task[t].file \in odd.ghosts
\* A window that is built and not yet registered: one job is at it, and its
\* title is the one the job will register.
BuiltOK ==
  \A t \in Jobs : task[t].pc = "insert" /\ task[t].file \notin odd.ghosts =>
    /\ Open(task[t].file)
    /\ \A u \in Jobs \ {t} : task[u].pc = "insert" => task[u].file # task[t].file
    /\ task[t].file \notin odd.mixed => screen[task[t].file].title = task[t].title
\* What is on screen and heard is registered, and under the title it shows.
ListOK ==
  /\ \A l \in Labels : Open(l) /\ Heard(l) => reg[l] # None
  /\ \A l \in Labels \ odd.ghosts : reg[l] # None => Open(l) /\ Heard(l)
  /\ key \in {None} \cup Listed
  /\ \A f \in Files : Open(f) => screen[f].page # "home"
  /\ \A f \in Files \ (odd.ghosts \cup odd.mixed) : Open(f) /\ reg[f] # None => screen[f].title = reg[f]
\* A draw that nothing has overtaken has read what the registry still says.
DrawOK ==
  /\ \A t \in Tasks : task[t].pc = "set" /\ task[t].clean => task[t].snap.reg = reg /\ task[t].snap.key = key
  /\ MenuTells
\* News of the open vault that is still on its way to the watcher.
Owed(f) == f[1] = stack.vault => news.tick \/ stack.gen \in news.daemon \/ stack.gen \notin news.greeted
\* The bridge forwards the daemon that it drives.
NewsIn ==
  /\ news.tick \/ task[Watch].pc # "idle" => Watching
  /\ bridge.ctl # 0 => bridge.ctl \in bridge.fwd
  /\ stack.up => stack.gen # 0
\* What the watcher has read is the name, or newer news is on its way.
UpsOK ==
  task[Watch].pc = "retitle" =>
    /\ \A e \in task[Watch].ups : e[2] # 0
    /\ \A d, e \in task[Watch].ups : d[1] = e[1] => d = e
    /\ \A e \in task[Watch].ups : e[2] # name[e[1]] => Owed(e[1])
\* A title that is behind: news is on its way, or the watcher is at it.
StaleOK ==
  \A f \in Files \ (odd.behind \cup odd.ghosts \cup odd.mixed) : Stale(f) =>
     Owed(f) \/ (task[Watch].pc = "retitle" /\ <<f, name[f]>> \in task[Watch].ups)
\* A flow that has raised the stack and will load the home window.
Untold(f) == flow[f].pc \in {"facts", "live"} \/ (f # 0 /\ flow[f].pc \in {"bind", "bound"})
Loading == (\E f \in Flows : Untold(f)) \/ \E t \in Tails : task[t].pc \in {"draw", "set", "load"}
HomeOK ==
  stack.up /\ stack.by \in {"boot", "menu"} /\ Open(Home) => Loading \/ screen[Home].era = stack.era

\* Windows are looked at in the scenarios with opens only.
TellInv == WinTypes /\ (Windowed => JobsOK /\ BuiltOK /\ ListOK /\ DrawOK /\ NewsIn /\ UpsOK /\ StaleOK /\ HomeOK)

-----------------------------------------------------------------------------
(* Labels and tasks. *)

LEMMA LabelFacts ==
  /\ Home \notin Files /\ Home \in Labels /\ Files \subseteq Labels
  /\ Labels' = Labels /\ Files' = Files
BY DEF Home, Files, Labels

LEMMA TaskFacts ==
  ASSUME sc'.opens = sc.opens, sc'.flows = sc.flows
  PROVE  Jobs' = Jobs /\ Tails' = Tails /\ Tasks' = Tasks /\ Windowed' = Windowed
BY DEF Jobs, Tails, Tasks, Windowed, Flows

LEMMA TaskKinds ==
  /\ Jobs \cap Tails = {} /\ Watch \notin Jobs \cup Tails
  /\ Jobs \subseteq Tasks /\ Tails \subseteq Tasks /\ Watch \in Tasks
BY DEF Jobs, Tails, Tasks, Watch

\* A step of the shell alone.
Shells == \/ \E f \in Flows : FlowSteps(f)
          \/ \E a \in Asks : AskSteps(a)
          \/ (Running /\ Beside) \/ (Publish /\ Beside) \/ (Press /\ Beside)
          \/ (Save /\ Beside)    \/ (Forward /\ Beside) \/ (Sync /\ Beside)

\* Steps of one job.
Asked(t) == ByDocument(t) \/ ByFolder(t) \/ ByRecent(t) \/ ByNew(t)

\* The rest leave the shell alone.
Besides ==
  \/ \E t \in Jobs : Asked(t) \/ Create(t) \/ Decide(t) \/ Build(t) \/ Insert(t) \/ Record(t) \/ Export(t)
  \/ \E t \in Tasks : Draw(t) \/ SetMenu(t)
  \/ \E t \in Tails : Load(t)
  \/ \E l \in Labels : Focus(l) \/ Close(l) \/ Recover(l) \/ \E r \in Routes : Navigate(l, r)
  \/ \E f \in Files : Rename(f)
  \/ Mirror \/ Wake \/ Retitle \/ NavigateHome \/ TogglePalette \/ OpenPreferences

LEMMA WindowsSteps ==
  ASSUME [WindowsNext]_allvars
  PROVE  \/ Shells /\ Beside
         \/ Besides /\ UNCHANGED vars
         \/ UNCHANGED allvars
<1>1. ASSUME Shells PROVE Beside
  BY <1>1 DEF Shells, FlowSteps, AskSteps
<1>2. ASSUME NEW t, \/ Asked(t) \/ Create(t) \/ Decide(t) \/ Build(t) \/ Insert(t)
                    \/ Record(t) \/ Export(t) \/ Draw(t) \/ SetMenu(t) \/ Load(t)
      PROVE  UNCHANGED vars
  BY <1>2 DEF Asked, ByDocument, ByFolder, ByRecent, ByNew, Beforehand, Create, Decide, Build, Insert,
              Record, Export, Draw, SetMenu, Load
<1>3. ASSUME NEW l, Focus(l) \/ Close(l) \/ Recover(l) \/ Rename(l) \/ \E r \in Routes : Navigate(l, r)
      PROVE  UNCHANGED vars
  BY <1>3 DEF Focus, Close, Recover, Rename, Navigate
<1>4. ASSUME Mirror \/ Wake \/ Retitle \/ NavigateHome \/ TogglePalette \/ OpenPreferences
      PROVE  UNCHANGED vars
  BY <1>4 DEF Mirror, Wake, Retitle, NavigateHome, TogglePalette, OpenPreferences
<1>5. Besides => UNCHANGED vars
  BY <1>2, <1>3, <1>4 DEF Besides
<1>6. WindowsNext => Shells \/ Besides
  BY DEF WindowsNext, Shells, Besides, Asked
<1> QED
  BY <1>1, <1>5, <1>6

\* The scenario's opens stay, and so do the tasks there are.
LEMMA StaticWindows ==
  ASSUME OpensOK, ScOK, [WindowsNext]_allvars
  PROVE  /\ OpensOK' /\ sc'.opens = sc.opens
         /\ Jobs' = Jobs /\ Tails' = Tails /\ Tasks' = Tasks /\ Windowed' = Windowed
         /\ Flows' = Flows
         /\ [Next]_vars
<1>0. [Next]_vars
  BY WindowsMove
<1>1. \/ sc' = sc
      \/ sc' = [sc EXCEPT !.press = @ - 1]
      \/ sc' = [sc EXCEPT !.save = @ - 1]
  BY <1>0 DEF vars, Next, Begin, FlowStep, Picked, TakeDown, BringUp, Bind, Bound, Facts, SetLive, Running, Publish,
    Press, Save, Forward, Sync, Arrive, AskStep, Answer, Stage, Swap, Poll, Call, Fetch, SaveAs
<1>2. sc'.opens = sc.opens /\ OpensOK'
  BY <1>1 DEF OpensOK
<1>3. sc'.flows = sc.flows /\ Flows' = Flows
  BY <1>0, StaticShell
<1> QED
  BY <1>0, <1>2, <1>3, TaskFacts

-----------------------------------------------------------------------------
(* The types. *)

LEMMA NoneFacts ==
  /\ None \notin Nat /\ None \notin Window /\ RecentLimit \in Nat \ {0}
BY WindowsAssumption

\* One field of one task, or of all that are about to draw.
LEMMA OvertakeFacts ==
  ASSUME task \in [Tasks -> TaskRec]
  PROVE  /\ Overtake(task) \in [Tasks -> TaskRec]
         /\ \A t \in Tasks :
              /\ Overtake(task)[t].pc = task[t].pc /\ Overtake(task)[t].file = task[t].file
              /\ Overtake(task)[t].title = task[t].title /\ Overtake(task)[t].due = task[t].due
              /\ Overtake(task)[t].gone = task[t].gone /\ Overtake(task)[t].snap = task[t].snap
              /\ Overtake(task)[t].ups = task[t].ups /\ Overtake(task)[t].era = task[t].era
              /\ task[t].pc = "set" => ~Overtake(task)[t].clean
              /\ task[t].pc # "set" => Overtake(task)[t].clean = task[t].clean
<1> DEFINE o == Overtake(task)
<1>1. DOMAIN task = Tasks /\ \A t \in Tasks : task[t] \in TaskRec
  OBVIOUS
<1>2. o = [t \in Tasks |-> IF task[t].pc = "set" THEN [task[t] EXCEPT !.clean = FALSE] ELSE task[t]]
  BY <1>1 DEF Overtake
<1>3. ASSUME NEW r \in TaskRec, NEW e, e = [r EXCEPT !.clean = FALSE]
      PROVE  /\ e \in TaskRec /\ e.pc = r.pc /\ e.file = r.file /\ e.title = r.title /\ e.due = r.due
             /\ e.gone = r.gone /\ e.snap = r.snap /\ e.ups = r.ups /\ e.era = r.era /\ ~e.clean
  <2>1. e \in TaskRec
    BY <1>3 DEF TaskRec
  <2>2. e.pc = r.pc /\ e.file = r.file /\ e.title = r.title
    BY <1>3 DEF TaskRec
  <2>3. e.due = r.due /\ e.gone = r.gone
    BY <1>3, Zenon DEF TaskRec
  <2>4. e.snap = r.snap /\ e.ups = r.ups /\ e.era = r.era
    BY <1>3 DEF TaskRec
  <2>5. ~e.clean
    BY <1>3, Zenon DEF TaskRec
  <2> QED
    BY <2>1, <2>2, <2>3, <2>4, <2>5
<1>4. \A t \in Tasks : o[t] = IF task[t].pc = "set" THEN [task[t] EXCEPT !.clean = FALSE] ELSE task[t]
  BY <1>2
<1>5. o \in [Tasks -> TaskRec]
  BY <1>1, <1>2, <1>3
<1> HIDE DEF o
<1> QED
  BY <1>1, <1>3, <1>4, <1>5 DEF o

LEMMA NowDrawn ==
  ASSUME RegOK, RecentOK
  PROVE  Now \in Drawn /\ Now.reg = reg /\ Now.key = key
BY DEF RegOK, RecentOK, Now, Drawn

LEMMA AskedTypes ==
  ASSUME WinTypes, TypeOK, NEW t \in Jobs, Asked(t)
  PROVE  /\ TaskOK'
         /\ \A u \in Tasks \ {t} : task'[u] = task[u]
         /\ task[t].pc = "idle"
         /\ task'[t].pc = "decide" => task'[t].file \in Files
         /\ task'[t].pc \in {"decide", "call", "end"}
         /\ task'[t].pc \in {"call", "end"} => task'[t].due = task[t].due
<1> task \in [Tasks -> TaskRec] /\ t \in Tasks
  BY TaskKinds DEF WinTypes, TaskOK
<1>0. task[t] \in TaskRec /\ TaskOK
  BY DEF WinTypes
<1>1. live.era \in Nat \/ live = None
  BY DEF TypeOK
<1>2. Files \subseteq Labels
  BY LabelFacts
<1>3. ASSUME NEW f \in Files, NEW n \in Nat, Request(t, f, n)
      PROVE  /\ task' \in [Tasks -> TaskRec] /\ task[t].pc = "idle"
             /\ \A u \in Tasks \ {t} : task'[u] = task[u]
             /\ task'[t].pc = "decide" /\ task'[t].file = f
  <2> DEFINE d == Settled /\ Linked
  <2>1. d \in BOOLEAN
    OBVIOUS
  <2>2. task' = [task EXCEPT ![t].pc = "decide", ![t].file = f, ![t].title = n, ![t].due = d]
    BY <1>3 DEF Request
  <2> HIDE DEF d
  <2> DEFINE r == [task[t] EXCEPT !.pc = "decide", !.file = f, !.title = n, !.due = d]
  <2>3. task' = [task EXCEPT ![t] = r]
    BY <2>2
  <2>4. r \in TaskRec
    BY <1>2, <2>1 DEF TaskRec, TaskPcs, JobPcs
  <2>5. r.pc = "decide" /\ r.file = f
    BY DEF TaskRec
  <2>6. task[t].pc = "idle"
    BY <1>3 DEF Request
  <2> HIDE DEF r
  <2> QED
    BY <2>3, <2>4, <2>5, <2>6
<1>4. ASSUME NEW p \in {"call", "end"}, Step(t, p)
      PROVE  /\ task' \in [Tasks -> TaskRec]
             /\ \A u \in Tasks \ {t} : task'[u] = task[u]
             /\ task'[t].pc = p /\ task'[t].due = task[t].due
  BY <1>4 DEF Step, TaskRec, TaskPcs, JobPcs
<1>5. ASSUME task[t].pc = "idle", Linked, task' = [task EXCEPT ![t].pc = "call", ![t].era = live.era]
      PROVE  /\ task' \in [Tasks -> TaskRec]
             /\ \A u \in Tasks \ {t} : task'[u] = task[u]
             /\ task'[t].pc = "call" /\ task'[t].due = task[t].due
  <2>1. live.era \in Nat
    BY <1>1, <1>5 DEF Linked
  <2> DEFINE r == [task[t] EXCEPT !.pc = "call", !.era = live.era]
  <2>2. task' = [task EXCEPT ![t] = r]
    BY <1>5
  <2>3. r \in TaskRec
    BY <2>1 DEF TaskRec, TaskPcs, JobPcs
  <2>4. r.pc = "call" /\ r.due = task[t].due
    BY Zenon DEF TaskRec
  <2> HIDE DEF r
  <2> QED
    BY <2>2, <2>3, <2>4
<1> DEFINE Goal == /\ task' \in [Tasks -> TaskRec]
                   /\ \A u \in Tasks \ {t} : task'[u] = task[u]
                   /\ task[t].pc = "idle"
                   /\ task'[t].pc = "decide" => task'[t].file \in Files
                   /\ task'[t].pc \in {"decide", "call", "end"}
                   /\ task'[t].pc \in {"call", "end"} => task'[t].due = task[t].due
<1>6. \A f \in Known : f \in Files /\ name[f] \in Nat
  BY DEF Known, WinTypes, NameOK
<1>7. ASSUME ByDocument(t) PROVE Goal
  BY <1>3, <1>4, <1>6, <1>7 DEF ByDocument, TooEarly
<1>8. ASSUME ByFolder(t) PROVE Goal
  BY <1>3, <1>6, <1>8 DEF ByFolder
<1>9. ASSUME ByRecent(t) PROVE Goal
  <2>1. \A i \in DOMAIN recent : recent[i].file \in Files /\ recent[i].title \in Nat
    <3>1. DOMAIN recent = 1 .. Len(recent) /\ \A i \in 1 .. Len(recent) : recent[i] \in RecentRec
      BY DEF WinTypes, RecentOK, Recents
    <3> QED
      BY <3>1 DEF RecentRec
  <2> QED
    BY <1>3, <1>9, <2>1 DEF ByRecent
<1>10. ASSUME ByNew(t) PROVE Goal
  BY <1>4, <1>5, <1>10 DEF ByNew
<1>11. Goal
  BY <1>7, <1>8, <1>9, <1>10 DEF Asked
<1> HIDE DEF Goal
<1>12. sc' = sc
  BY DEF Asked, ByDocument, ByFolder, ByRecent, ByNew, Beforehand, vars
<1>13. Jobs' = Jobs /\ Tails' = Tails /\ Tasks' = Tasks
  BY <1>12, TaskFacts
<1>14. Labels' = Labels /\ Files' = Files
  BY LabelFacts
<1>15. TaskRec' = TaskRec
  BY <1>14 DEF TaskRec, Retitles, Snaps, Drawn, Recents
<1>16. TaskOK'
  BY <1>0, <1>11, <1>13, <1>15, TaskKinds DEF TaskOK, Goal, JobPcs
<1> QED
  BY <1>11, <1>16 DEF Goal

-----------------------------------------------------------------------------
(* What the steps do to the tasks. *)

\* What is asked for, and what is in hand.
Kin(e, r) == e.file = r.file /\ e.title = r.title /\ e.due = r.due /\ e.gone = r.gone
Marks(e, r) == e.clean = r.clean /\ e.snap = r.snap /\ e.ups = r.ups
Alone(t) == \A u \in Tasks \ {t} : task'[u] = task[u]
\* The tasks go on as they were, and what is about to be drawn is overtaken.
Goes(u) == task'[u].pc = task[u].pc /\ Kin(task'[u], task[u]) /\ task'[u].ups = task[u].ups
Dirty == \A u \in Tasks : task'[u].pc = "set" => ~task'[u].clean

TailPcs == {"idle", "draw", "set", "load", "end"}
WatchPcs == {"idle", "retitle", "draw", "set"}
Fits(u, pc) ==
  (u \in Jobs /\ pc \in JobPcs) \/ (u \in Tails /\ pc \in TailPcs) \/ (u = Watch /\ pc \in WatchPcs)

LEMMA PcFacts ==
  ASSUME NEW r \in TaskRec, NEW p \in TaskPcs, NEW e, e = [r EXCEPT !.pc = p]
  PROVE  e \in TaskRec /\ e.pc = p /\ Kin(e, r) /\ Marks(e, r)
<1>1. e \in TaskRec
  BY DEF TaskRec
<1>2. e.pc = p /\ e.file = r.file /\ e.title = r.title /\ e.snap = r.snap /\ e.ups = r.ups
  BY DEF TaskRec
<1>3. e.due = r.due /\ e.gone = r.gone /\ e.clean = r.clean
  BY Zenon DEF TaskRec
<1> QED
  BY <1>1, <1>2, <1>3 DEF Kin, Marks

LEMMA TaskFits ==
  ASSUME TaskOK, task' \in [Tasks -> TaskRec], UNCHANGED vars,
         \A u \in Tasks : task'[u].pc = task[u].pc \/ Fits(u, task'[u].pc)
  PROVE  TaskOK'
<1>1. Jobs' = Jobs /\ Tails' = Tails /\ Tasks' = Tasks
  BY TaskFacts DEF vars
<1>2. TaskRec' = TaskRec
  BY LabelFacts DEF TaskRec, Retitles, Snaps, Drawn, Recents, RecentRec
<1>3. Watch' = Watch /\ JobPcs' = JobPcs
  BY DEF Watch, JobPcs
<1> QED
  BY <1>1, <1>2, <1>3, TaskKinds DEF TaskOK, Fits, TailPcs, WatchPcs

LEMMA StepTask ==
  ASSUME TaskOK, UNCHANGED vars, NEW t \in Tasks, NEW p \in TaskPcs, Fits(t, p), Step(t, p)
  PROVE  TaskOK' /\ Alone(t) /\ task'[t].pc = p /\ Kin(task'[t], task[t]) /\ Marks(task'[t], task[t])
<1> DEFINE r == [task[t] EXCEPT !.pc = p]
<1>1. task \in [Tasks -> TaskRec] /\ task[t] \in TaskRec
  BY DEF TaskOK
<1>2. r \in TaskRec /\ r.pc = p /\ Kin(r, task[t]) /\ Marks(r, task[t])
  BY <1>1, PcFacts
<1>3. task' = [task EXCEPT ![t] = r]
  BY DEF Step
<1> HIDE DEF r
<1>4. task' \in [Tasks -> TaskRec] /\ task'[t] = r /\ \A u \in Tasks \ {t} : task'[u] = task[u]
  BY <1>1, <1>2, <1>3
<1>5. TaskOK'
  BY <1>2, <1>4, TaskFits
<1> QED
  BY <1>2, <1>4, <1>5 DEF Alone

\* All draws overtaken, and one task with them.
LEMMA OvertakeTask ==
  ASSUME TaskOK, UNCHANGED vars, NEW t \in Tasks, NEW p \in TaskPcs \ {"set"}, Fits(t, p),
         task' = [Overtake(task) EXCEPT ![t].pc = p]
  PROVE  /\ TaskOK' /\ Dirty /\ \A u \in Tasks \ {t} : Goes(u)
         /\ task'[t].pc = p /\ Kin(task'[t], task[t]) /\ task'[t].ups = task[t].ups
<1> DEFINE o == Overtake(task)
<1> DEFINE r == [o[t] EXCEPT !.pc = p]
<1>1. task \in [Tasks -> TaskRec]
  BY DEF TaskOK
<1>2. /\ o \in [Tasks -> TaskRec]
      /\ \A u \in Tasks : /\ o[u].pc = task[u].pc /\ Kin(o[u], task[u]) /\ o[u].ups = task[u].ups
                          /\ o[u].pc = "set" => ~o[u].clean
  BY <1>1, OvertakeFacts DEF Kin
<1>3. task' = [o EXCEPT ![t] = r]
  OBVIOUS
<1> HIDE DEF o
<1>4. o[t] \in TaskRec
  BY <1>2
<1>5. r \in TaskRec /\ r.pc = p /\ Kin(r, o[t]) /\ Marks(r, o[t])
  BY <1>4, PcFacts
<1> HIDE DEF r
<1>6. task' \in [Tasks -> TaskRec] /\ task'[t] = r /\ \A u \in Tasks \ {t} : task'[u] = o[u]
  BY <1>2, <1>3, <1>5
<1>7. Kin(r, task[t]) /\ r.ups = task[t].ups
  BY <1>2, <1>5 DEF Kin, Marks
<1>8. TaskOK'
  BY <1>2, <1>5, <1>6, TaskFits
<1>9. Dirty
  BY <1>2, <1>5, <1>6 DEF Dirty
<1> QED
  BY <1>2, <1>5, <1>6, <1>7, <1>8, <1>9 DEF Goes

LEMMA OvertakeAll ==
  ASSUME TaskOK, UNCHANGED vars, task' = Overtake(task)
  PROVE  TaskOK' /\ Dirty /\ \A u \in Tasks : Goes(u)
<1>1. task \in [Tasks -> TaskRec]
  BY DEF TaskOK
<1>2. /\ task' \in [Tasks -> TaskRec]
      /\ \A u \in Tasks : /\ task'[u].pc = task[u].pc /\ Kin(task'[u], task[u])
                          /\ task'[u].ups = task[u].ups
                          /\ task'[u].pc = "set" => ~task'[u].clean
  BY <1>1, OvertakeFacts DEF Kin
<1>3. TaskOK'
  BY <1>2, TaskFits
<1> QED
  BY <1>2, <1>3 DEF Dirty, Goes

-----------------------------------------------------------------------------
(* The steps of one job. *)

LEMMA JobPcFits ==
  ASSUME NEW t \in Jobs, NEW p \in JobPcs
  PROVE  t \in Tasks /\ p \in TaskPcs /\ Fits(t, p) /\ Windowed
BY TaskKinds DEF Fits, TaskPcs, Jobs, Windowed

LEMMA CreateEffect ==
  ASSUME WinTypes, TypeOK, NEW t \in Jobs, Create(t)
  PROVE  /\ TaskOK' /\ Alone(t) /\ task[t].pc = "call"
         /\ \/ task'[t].pc = "end" /\ Kin(task'[t], task[t])
            \/ task'[t].pc = "decide" /\ task'[t].file \in Files
<1>0. TaskOK /\ task \in [Tasks -> TaskRec] /\ t \in Tasks /\ task[t] \in TaskRec
  BY TaskKinds DEF WinTypes, TaskOK
<1>1. UNCHANGED vars /\ task[t].pc = "call"
  BY DEF Create, vars
<1>2. CASE Step(t, "end")
  BY <1>0, <1>1, <1>2, StepTask, JobPcFits DEF JobPcs
<1>3. CASE ~Step(t, "end")
  <2> DEFINE f == <<stack.vault, 2>>
  <2> DEFINE d == Settled
  <2>1. f \in Files /\ f \in Labels
    BY LabelFacts DEF Files, TypeOK
  <2>2. d \in BOOLEAN
    BY DEF Settled, TypeOK
  <2>3. task' = [task EXCEPT ![t].pc = "decide", ![t].file = f, ![t].title = 1, ![t].due = d]
    BY <1>3 DEF Create
  <2> HIDE DEF d, f
  <2> DEFINE r == [task[t] EXCEPT !.pc = "decide", !.file = f, !.title = 1, !.due = d]
  <2>4. task' = [task EXCEPT ![t] = r]
    BY <2>3
  <2>5. r \in TaskRec
    BY <1>0, <2>1, <2>2 DEF TaskRec, TaskPcs, JobPcs
  <2>6. r.pc = "decide" /\ r.file = f
    BY <1>0 DEF TaskRec
  <2> HIDE DEF r
  <2>7. task' \in [Tasks -> TaskRec] /\ task'[t] = r /\ \A u \in Tasks \ {t} : task'[u] = task[u]
    BY <1>0, <2>4, <2>5
  <2>8. TaskOK'
    BY <1>0, <1>1, <2>6, <2>7, TaskFits, JobPcFits DEF JobPcs
  <2> QED
    BY <1>1, <2>1, <2>6, <2>7, <2>8 DEF Alone
<1> QED
  BY <1>2, <1>3

\* The window is there, or it is built; a job without a link makes no promise.
LEMMA DecideEffect ==
  ASSUME WinTypes, TypeOK, NEW t \in Jobs, Decide(t)
  PROVE  /\ TaskOK' /\ task[t].pc = "decide"
         /\ \/ /\ reg[task[t].file] # None /\ Dirty /\ \A u \in Tasks \ {t} : Goes(u)
               /\ task'[t].pc = "record" /\ Kin(task'[t], task[t])
            \/ /\ reg[task[t].file] = None /\ Alone(t) /\ UNCHANGED <<key, bar>>
               /\ task'[t].file = task[t].file /\ task'[t].title = task[t].title
               /\ task'[t].gone = task[t].gone
               /\ task'[t].pc \in {"build", "record"}
               /\ task'[t].pc = "record" => ~task'[t].due
<1>0. TaskOK /\ task \in [Tasks -> TaskRec] /\ t \in Tasks /\ task[t] \in TaskRec
  BY TaskKinds DEF WinTypes, TaskOK
<1>1. UNCHANGED vars /\ task[t].pc = "decide"
  BY DEF Decide, vars
<1>2. CASE reg[task[t].file] # None
  <2>1. task' = [Overtake(task) EXCEPT ![t].pc = "record"]
    BY <1>2 DEF Decide
  <2>2. "record" \in JobPcs /\ "record" # "set"
    BY DEF JobPcs
  <2> QED
    BY <1>0, <1>1, <1>2, <2>1, <2>2, OvertakeTask, JobPcFits
<1>3. CASE reg[task[t].file] = None
  <2> DEFINE p == IF Linked THEN "build" ELSE "record"
  <2> DEFINE e == IF Linked THEN live.era ELSE 0
  <2> DEFINE d == task[t].due /\ Linked
  <2>1. p \in JobPcs /\ p \in {"build", "record"} /\ (p = "record" => ~d)
    BY DEF JobPcs
  <2>2. e \in Nat
    BY DEF Linked, TypeOK
  <2>3. d \in BOOLEAN
    OBVIOUS
  <2>4. task' = [task EXCEPT ![t].pc = p, ![t].era = e, ![t].due = d]
    BY <1>3, Zenon DEF Decide
  <2> HIDE DEF p, e, d
  <2> DEFINE r == [task[t] EXCEPT !.pc = p, !.era = e, !.due = d]
  <2>5. task' = [task EXCEPT ![t] = r]
    BY <2>4
  <2>6. r \in TaskRec
    BY <1>0, <2>1, <2>2, <2>3 DEF TaskRec, TaskPcs
  <2>7. r.pc = p /\ r.file = task[t].file /\ r.title = task[t].title
    BY <1>0 DEF TaskRec
  <2>8. r.gone = task[t].gone /\ r.due = d
    BY <1>0, Zenon DEF TaskRec
  <2> HIDE DEF r
  <2>9. task' \in [Tasks -> TaskRec] /\ task'[t] = r /\ \A u \in Tasks \ {t} : task'[u] = task[u]
    BY <1>0, <2>5, <2>6
  <2>10. TaskOK'
    BY <1>0, <1>1, <2>1, <2>7, <2>9, TaskFits, JobPcFits
  <2>11. UNCHANGED <<key, bar>>
    BY <1>3 DEF Decide
  <2> QED
    BY <1>1, <1>3, <2>1, <2>7, <2>8, <2>9, <2>10, <2>11 DEF Alone
<1> QED
  BY <1>2, <1>3

LEMMA BuildEffect ==
  ASSUME WinTypes, NEW t \in Jobs, Build(t)
  PROVE  /\ TaskOK' /\ Alone(t) /\ task[t].pc = "build" /\ Kin(task'[t], task[t])
         /\ \/ Open(task[t].file) /\ UNCHANGED screen /\ task'[t].pc \in {"record", "end"}
            \/ ~Open(task[t].file) /\ task'[t].pc = "insert"
<1>1. UNCHANGED vars /\ task[t].pc = "build" /\ TaskOK
  BY DEF Build, vars, WinTypes
<1>2. ASSUME NEW p \in {"record", "end", "insert"}, Step(t, p)
      PROVE  TaskOK' /\ Alone(t) /\ task'[t].pc = p /\ Kin(task'[t], task[t])
  BY <1>1, <1>2, StepTask, JobPcFits DEF JobPcs
<1>3. CASE Open(task[t].file)
  <2>1. PICK p \in {"record", "end"} : Step(t, p) /\ UNCHANGED screen
    BY <1>3 DEF Build
  <2> QED
    BY <1>1, <1>2, <1>3, <2>1
<1>4. CASE ~Open(task[t].file)
  <2>1. Step(t, "insert")
    BY <1>4 DEF Build
  <2> QED
    BY <1>1, <1>2, <1>4, <2>1
<1> QED
  BY <1>3, <1>4

LEMMA InsertEffect ==
  ASSUME WinTypes, NEW t \in Jobs, Insert(t)
  PROVE  /\ TaskOK' /\ task[t].pc = "insert" /\ task'[t].pc = "draw" /\ Kin(task'[t], task[t])
         /\ Dirty /\ \A u \in Tasks \ {t} : Goes(u)
<1>1. /\ UNCHANGED vars /\ task[t].pc = "insert" /\ TaskOK
      /\ task' = [Overtake(task) EXCEPT ![t].pc = "draw"]
  BY DEF Insert, vars, WinTypes
<1>2. "draw" \in JobPcs /\ "draw" # "set"
  BY DEF JobPcs
<1> QED
  BY <1>1, <1>2, OvertakeTask, JobPcFits

LEMMA RecordEffect ==
  ASSUME WinTypes, NEW t \in Jobs, Record(t)
  PROVE  /\ TaskOK' /\ Alone(t) /\ task[t].pc = "record" /\ task'[t].pc = "end"
         /\ Kin(task'[t], task[t])
<1>1. UNCHANGED vars /\ task[t].pc = "record" /\ TaskOK /\ Step(t, "end") /\ "end" \in JobPcs
  BY DEF Record, vars, WinTypes, JobPcs
<1> QED
  BY <1>1, StepTask, JobPcFits

-----------------------------------------------------------------------------
(* The steps of the menu, of the windows and of the watcher. *)

LEMMA TaskPcFits ==
  /\ \A t \in Tasks : Fits(t, "set") /\ (t \in Tails => Fits(t, "end") /\ Fits(t, "draw"))
  /\ \A t \in Tasks : Fits(t, IF t \in Jobs THEN "record" ELSE IF t = Watch THEN "idle" ELSE "load")
BY TaskKinds DEF Tasks, Fits, JobPcs, TailPcs, WatchPcs

LEMMA DrawEffect ==
  ASSUME WinTypes, NEW t \in Tasks, Draw(t)
  PROVE  /\ TaskOK' /\ Alone(t) /\ task[t].pc = "draw" /\ task'[t].pc = "set"
         /\ Kin(task'[t], task[t]) /\ task'[t].ups = task[t].ups
         /\ task'[t].snap.reg = reg /\ task'[t].snap.key = key
<1>0. TaskOK /\ task \in [Tasks -> TaskRec] /\ task[t] \in TaskRec
  BY DEF WinTypes, TaskOK
<1>1. UNCHANGED vars /\ task[t].pc = "draw"
  BY DEF Draw, vars
<1> DEFINE n == Now
<1>2. n \in Snaps /\ n.reg = reg /\ n.key = key
  BY NowDrawn DEF Snaps, WinTypes
<1> HIDE DEF n
<1> DEFINE r == [task[t] EXCEPT !.pc = "set", !.snap = n, !.clean = TRUE]
<1>3. task' = [task EXCEPT ![t] = r]
  BY DEF Draw, n
<1>4. r \in TaskRec
  BY <1>0, <1>2 DEF TaskRec, TaskPcs, JobPcs
<1>5. r.pc = "set" /\ r.snap = n /\ r.ups = task[t].ups /\ r.file = task[t].file /\ r.title = task[t].title
  BY <1>0 DEF TaskRec
<1>6. r.due = task[t].due /\ r.gone = task[t].gone
  BY <1>0, Zenon DEF TaskRec
<1> HIDE DEF r
<1>7. task' \in [Tasks -> TaskRec] /\ task'[t] = r /\ \A u \in Tasks \ {t} : task'[u] = task[u]
  BY <1>0, <1>3, <1>4
<1>8. TaskOK'
  BY <1>0, <1>1, <1>5, <1>7, TaskFits, TaskPcFits
<1> QED
  BY <1>1, <1>2, <1>5, <1>6, <1>7, <1>8 DEF Alone, Kin

LEMMA SetEffect ==
  ASSUME WinTypes, NEW t \in Tasks, SetMenu(t)
  PROVE  /\ TaskOK' /\ Alone(t) /\ task[t].pc = "set" /\ Kin(task'[t], task[t])
         /\ task'[t].ups = task[t].ups
         /\ task'[t].pc = IF t \in Jobs THEN "record" ELSE IF t = Watch THEN "idle" ELSE "load"
<1>0. TaskOK /\ task \in [Tasks -> TaskRec] /\ task[t] \in TaskRec
  BY DEF WinTypes, TaskOK
<1>1. UNCHANGED vars /\ task[t].pc = "set"
  BY DEF SetMenu, vars
<1> DEFINE p == IF t \in Jobs THEN "record" ELSE IF t = Watch THEN "idle" ELSE "load"
<1>2. Fits(t, p) /\ p \in TaskPcs
  BY TaskPcFits DEF TaskPcs, JobPcs
<1>3. task' = [task EXCEPT ![t].snap = None, ![t].pc = p]
  BY DEF SetMenu
<1> SUFFICES /\ TaskOK' /\ Alone(t) /\ Kin(task'[t], task[t])
             /\ task'[t].ups = task[t].ups /\ task'[t].pc = p
  BY <1>1
<1> HIDE DEF p
<1> DEFINE r == [task[t] EXCEPT !.snap = None, !.pc = p]
<1>4. task' = [task EXCEPT ![t] = r]
  BY <1>3
<1>5. r \in TaskRec
  BY <1>0, <1>2 DEF TaskRec, Snaps
<1>6. r.pc = p /\ r.ups = task[t].ups /\ r.file = task[t].file /\ r.title = task[t].title
  BY <1>0 DEF TaskRec
<1>7. r.due = task[t].due /\ r.gone = task[t].gone
  BY <1>0, Zenon DEF TaskRec
<1> HIDE DEF r
<1>8. task' \in [Tasks -> TaskRec] /\ task'[t] = r /\ \A u \in Tasks \ {t} : task'[u] = task[u]
  BY <1>0, <1>4, <1>5
<1>9. TaskOK'
  BY <1>0, <1>1, <1>2, <1>6, <1>8, TaskFits
<1> QED
  BY <1>6, <1>7, <1>8, <1>9 DEF Alone, Kin

LEMMA LoadEffect ==
  ASSUME WinTypes, NEW t \in Tails, Load(t)
  PROVE  /\ TaskOK' /\ Alone(t) /\ task'[t].pc = "end" /\ t \in Tasks /\ Kin(task'[t], task[t])
         /\ task[t].pc = "load"
<1>1. UNCHANGED vars /\ Step(t, "end") /\ TaskOK /\ task[t].pc = "load"
  BY DEF Load, vars, WinTypes
<1>2. t \in Tasks /\ Fits(t, "end") /\ "end" \in TaskPcs
  BY TaskKinds, TaskPcFits DEF TaskPcs, JobPcs
<1> QED
  BY <1>1, <1>2, StepTask

LEMMA CloseEffect ==
  ASSUME WinTypes, NEW l \in Labels, Close(l)
  PROVE  /\ TaskOK' /\ Dirty
         /\ \A u \in Tasks :
              /\ task'[u].pc = task[u].pc /\ task'[u].file = task[u].file
              /\ task'[u].title = task[u].title /\ task'[u].due = task[u].due
              /\ task'[u].ups = task[u].ups
              /\ ~task'[u].gone => ~task[u].gone /\ task[u].file # l
<1> DEFINE o == Overtake(task)
<1>0. TaskOK /\ task \in [Tasks -> TaskRec] /\ UNCHANGED vars
  BY DEF WinTypes, TaskOK, Close, vars
<1>1. /\ o \in [Tasks -> TaskRec]
      /\ \A u \in Tasks : /\ o[u].pc = task[u].pc /\ Kin(o[u], task[u]) /\ o[u].ups = task[u].ups
                          /\ o[u].pc = "set" => ~o[u].clean
  BY <1>0, OvertakeFacts DEF Kin
<1>2. task' = [u \in Tasks |-> [o[u] EXCEPT !.gone = @ \/ task[u].file = l]]
  BY DEF Close
<1> HIDE DEF o
<1>3. ASSUME NEW r \in TaskRec, NEW h \in BOOLEAN, NEW e, e = [r EXCEPT !.gone = h]
      PROVE  /\ e \in TaskRec /\ e.pc = r.pc /\ e.file = r.file /\ e.title = r.title
             /\ e.due = r.due /\ e.ups = r.ups /\ e.clean = r.clean /\ e.gone = h
  <2>1. e \in TaskRec
    BY <1>3 DEF TaskRec
  <2>2. e.pc = r.pc /\ e.file = r.file /\ e.title = r.title /\ e.ups = r.ups
    BY <1>3 DEF TaskRec
  <2>3. e.due = r.due /\ e.clean = r.clean /\ e.gone = h
    BY <1>3, Zenon DEF TaskRec
  <2> QED
    BY <2>1, <2>2, <2>3
<1>4. ASSUME NEW u \in Tasks
      PROVE  /\ task'[u] \in TaskRec /\ task'[u].pc = o[u].pc /\ task'[u].file = o[u].file
             /\ task'[u].title = o[u].title /\ task'[u].due = o[u].due /\ task'[u].ups = o[u].ups
             /\ task'[u].clean = o[u].clean /\ (~task'[u].gone => ~o[u].gone /\ task[u].file # l)
  <2> DEFINE h == o[u].gone \/ task[u].file = l
  <2> DEFINE e == [o[u] EXCEPT !.gone = h]
  <2>1. task'[u] = e
    BY <1>2
  <2>2. h \in BOOLEAN
    OBVIOUS
  <2>3. o[u] \in TaskRec
    BY <1>1
  <2> HIDE DEF h
  <2>4. /\ e \in TaskRec /\ e.pc = o[u].pc /\ e.file = o[u].file /\ e.title = o[u].title
        /\ e.due = o[u].due /\ e.ups = o[u].ups /\ e.clean = o[u].clean /\ e.gone = h
    BY <1>3, <2>2, <2>3
  <2>5. ~h => ~o[u].gone /\ task[u].file # l
    BY DEF h
  <2> HIDE DEF e
  <2> QED
    BY <2>1, <2>4, <2>5
<1>5. task' \in [Tasks -> TaskRec]
  BY <1>2, <1>4
<1>6. \A u \in Tasks : task'[u].pc = task[u].pc
  BY <1>1, <1>4
<1>7. TaskOK'
  BY <1>0, <1>5, <1>6, TaskFits
<1>8. Dirty
  BY <1>1, <1>4 DEF Dirty
<1> QED
  BY <1>1, <1>4, <1>7, <1>8 DEF Kin

LEMMA WakeEffect ==
  ASSUME WinTypes, TypeOK, Wake
  PROVE  /\ TaskOK' /\ Alone(Watch) /\ Kin(task'[Watch], task[Watch])
         /\ task[Watch].pc = "idle" /\ task'[Watch].pc \in {"idle", "retitle"}
         /\ \A e \in task'[Watch].ups : e[1] \in Files /\ e[2] = name[e[1]] /\ e = <<e[1], e[2]>> /\ Stale(e[1])
         /\ \A f \in Files \ odd'.behind : Stale(f) =>
              task'[Watch].pc = "retitle" /\ <<f, name[f]>> \in task'[Watch].ups
<1>0. /\ TaskOK /\ task \in [Tasks -> TaskRec] /\ Watch \in Tasks /\ task[Watch] \in TaskRec
      /\ UNCHANGED vars /\ task[Watch].pc = "idle" /\ name \in [Files -> Nat] /\ OddOK
  BY TaskKinds DEF WinTypes, TaskOK, Wake, vars, NameOK
<1> DEFINE mine == {f \in Files : live # None /\ f[1] = live.vault}
<1> DEFINE ups == {<<f, name[f]>> : f \in {g \in mine : Stale(g)}}
<1> DEFINE p == IF ups = {} THEN "idle" ELSE "retitle"
<1>1. task' = [task EXCEPT ![Watch].pc = p, ![Watch].ups = ups]
  BY DEF Wake
<1>2. odd'.behind = {f \in (Files \ mine) : f \in odd.behind \/ Stale(f)}
  BY <1>0 DEF Wake, OddOK
<1>3. \A e \in ups : e[1] \in Files /\ e[2] = name[e[1]] /\ e = <<e[1], e[2]>> /\ Stale(e[1])
  OBVIOUS
<1>4. ups \in Retitles
  BY <1>0 DEF Retitles
<1>5. ASSUME NEW f \in Files, Stale(f), f \notin odd'.behind
      PROVE  p = "retitle" /\ <<f, name[f]>> \in ups
  <2>1. f \in mine
    BY <1>2, <1>5
  <2>2. <<f, name[f]>> \in ups
    BY <2>1, <1>5
  <2> QED
    BY <2>2
<1>6. p \in {"idle", "retitle"} /\ p \in TaskPcs /\ Fits(Watch, p)
  BY DEF TaskPcs, JobPcs, Fits, WatchPcs
<1> HIDE DEF mine, ups, p
<1> DEFINE r == [task[Watch] EXCEPT !.pc = p, !.ups = ups]
<1>7. task' = [task EXCEPT ![Watch] = r]
  BY <1>1
<1>8. r \in TaskRec
  BY <1>0, <1>4, <1>6 DEF TaskRec
<1>9. r.pc = p /\ r.ups = ups /\ r.file = task[Watch].file /\ r.title = task[Watch].title
  BY <1>0 DEF TaskRec
<1>10. r.due = task[Watch].due /\ r.gone = task[Watch].gone
  BY <1>0, Zenon DEF TaskRec
<1> HIDE DEF r
<1>11. task' \in [Tasks -> TaskRec] /\ task'[Watch] = r /\ \A u \in Tasks \ {Watch} : task'[u] = task[u]
  BY <1>0, <1>7, <1>8
<1>12. TaskOK'
  BY <1>0, <1>6, <1>9, <1>11, TaskFits
<1> QED
  BY <1>0, <1>3, <1>5, <1>6, <1>9, <1>10, <1>11, <1>12 DEF Alone, Kin

LEMMA RetitleEffect ==
  ASSUME WinTypes, Retitle
  PROVE  /\ TaskOK' /\ Dirty /\ \A u \in Tasks \ {Watch} : Goes(u)
         /\ task[Watch].pc = "retitle" /\ task'[Watch].pc = "draw" /\ Kin(task'[Watch], task[Watch])
<1>0. /\ TaskOK /\ task \in [Tasks -> TaskRec] /\ Watch \in Tasks
      /\ UNCHANGED vars /\ task[Watch].pc = "retitle"
      /\ task' = [Overtake(task) EXCEPT ![Watch].pc = "draw", ![Watch].ups = {}]
  BY TaskKinds DEF WinTypes, TaskOK, Retitle, vars
<1> DEFINE o == Overtake(task)
<1>1. /\ o \in [Tasks -> TaskRec]
      /\ \A u \in Tasks : /\ o[u].pc = task[u].pc /\ Kin(o[u], task[u]) /\ o[u].ups = task[u].ups
                          /\ o[u].pc = "set" => ~o[u].clean
  BY <1>0, OvertakeFacts DEF Kin
<1>2. task' = [o EXCEPT ![Watch].pc = "draw", ![Watch].ups = {}]
  BY <1>0
<1> HIDE DEF o
<1> DEFINE r == [o[Watch] EXCEPT !.pc = "draw", !.ups = {}]
<1>3. task' = [o EXCEPT ![Watch] = r]
  BY <1>2
<1>4. o[Watch] \in TaskRec
  BY <1>0, <1>1
<1>5. r \in TaskRec
  BY <1>4 DEF TaskRec, TaskPcs, JobPcs, Retitles
<1>6. r.pc = "draw" /\ r.file = o[Watch].file /\ r.title = o[Watch].title
  BY <1>4 DEF TaskRec
<1>7. r.due = o[Watch].due /\ r.gone = o[Watch].gone
  BY <1>4, Zenon DEF TaskRec
<1> HIDE DEF r
<1>8. task' \in [Tasks -> TaskRec] /\ task'[Watch] = r /\ \A u \in Tasks \ {Watch} : task'[u] = o[u]
  BY <1>0, <1>1, <1>3, <1>5
<1>9. Fits(Watch, "draw")
  BY DEF Fits, WatchPcs
<1>10. TaskOK'
  BY <1>0, <1>1, <1>6, <1>8, <1>9, TaskFits
<1>11. Kin(r, task[Watch])
  BY <1>0, <1>1, <1>6, <1>7 DEF Kin
<1>12. Dirty
  BY <1>1, <1>6, <1>8 DEF Dirty
<1> QED
  BY <1>0, <1>1, <1>6, <1>8, <1>10, <1>11, <1>12 DEF Goes

\* The shell's own step draws the menu after the facts, and nothing else.
LEMMA BesideEffect ==
  ASSUME WinTypes, ScOK, Beside, [WindowsNext]_allvars
  PROVE  /\ TaskOK'
         /\ \A u \in Tasks : \/ task'[u] = task[u]
                             \/ u \in Tails /\ task'[u].pc = "draw" /\ Kin(task'[u], task[u])
         /\ \A f \in Flows : Windowed /\ flow[f].pc = "live" /\ flow'[f].pc # "live" =>
              <<"flow", f>> \in Tails /\ task'[<<"flow", f>>].pc = "draw"
<1>0. TaskOK /\ task \in [Tasks -> TaskRec]
  BY DEF WinTypes, TaskOK
<1>1. Jobs' = Jobs /\ Tails' = Tails /\ Tasks' = Tasks
  BY StaticWindows DEF WinTypes
<1>2. TaskRec' = TaskRec
  BY LabelFacts DEF TaskRec, Retitles, Snaps, Drawn, Recents, RecentRec
<1> DEFINE hit(u) == Windowed /\ u \in Tails /\ flow[u[2]].pc = "live" /\ flow'[u[2]].pc # "live"
<1>3. task' = [u \in Tasks |-> IF hit(u) THEN [task[u] EXCEPT !.pc = "draw"] ELSE task[u]]
  BY DEF Beside
<1>4. \A u \in Tasks : hit(u) => u \in Tails
  OBVIOUS
<1>5. ASSUME NEW f \in Flows, Windowed, flow[f].pc = "live", flow'[f].pc # "live"
      PROVE  <<"flow", f>> \in Tails /\ hit(<<"flow", f>>)
  BY <1>5 DEF Tails
<1> HIDE DEF hit
<1>6. "draw" \in TaskPcs
  BY DEF TaskPcs, JobPcs
<1>7. ASSUME NEW u \in Tasks
      PROVE  /\ task'[u] \in TaskRec
             /\ ~hit(u) => task'[u] = task[u]
             /\ hit(u) => task'[u].pc = "draw" /\ Kin(task'[u], task[u])
  <2>1. task[u] \in TaskRec
    BY <1>0
  <2>2. CASE hit(u)
    <3>1. task'[u] = [task[u] EXCEPT !.pc = "draw"]
      BY <1>3, <2>2
    <3> QED
      BY <1>6, <2>1, <2>2, <3>1, PcFacts
  <2>3. CASE ~hit(u)
    BY <1>3, <2>1, <2>3
  <2> QED
    BY <2>2, <2>3
<1>8. task' \in [Tasks -> TaskRec]
  BY <1>3, <1>7
<1>9. \A u \in Tasks : \/ task'[u] = task[u]
                       \/ u \in Tails /\ task'[u].pc = "draw" /\ Kin(task'[u], task[u])
  BY <1>4, <1>7
<1>10. Watch' = Watch /\ JobPcs' = JobPcs
  BY DEF Watch, JobPcs
<1>11. TaskOK'
  BY <1>0, <1>1, <1>2, <1>8, <1>9, <1>10, TaskKinds DEF TaskOK
<1> QED
  BY <1>5, <1>7, <1>9, <1>11, TaskKinds

-----------------------------------------------------------------------------
(* What the steps do to the screen, the registry and what is remembered. *)

\* What an open window may become without being closed or retitled.
Remains(l) == Open(l)' /\ screen'[l].title = screen[l].title

LEMMA HomeShown ==
  ASSUME ScreenOK, NEW e \in Nat, screen' = HomeAt(e)
  PROVE  /\ ScreenOK' /\ \A l \in Labels : (Open(l) => Remains(l)) /\ (Open(l)' => Open(l))
         /\ \A l \in Labels \ {Home} : screen'[l] = screen[l]
         /\ Open(Home) => screen'[Home].era = e
<1>1. CASE ~Open(Home)
  <2>1. screen' = screen
    BY <1>1 DEF HomeAt
  <2> QED
    BY <1>1, <2>1 DEF ScreenOK, Remains, Open, Labels, Files, Home, Window
<1>2. CASE Open(Home)
  <2> DEFINE v == [screen[Home] EXCEPT !.page = "home", !.era = e]
  <2>1. screen[Home] \in Window
    BY <1>2, LabelFacts DEF ScreenOK, Open
  <2>2. v \in Window /\ v.title = screen[Home].title /\ v.era = e /\ v # None
    BY <2>1, NoneFacts DEF Window
  <2>3. screen' = [screen EXCEPT ![Home] = v]
    BY <1>2 DEF HomeAt
  <2> HIDE DEF v
  <2>4. screen' \in [Labels -> Window \cup {None}]
    BY <2>2, <2>3 DEF ScreenOK
  <2>5. screen'[Home] = v /\ \A l \in Labels \ {Home} : screen'[l] = screen[l]
    BY <2>3, LabelFacts DEF ScreenOK
  <2>6. ScreenOK'
    BY <2>4, LabelFacts DEF ScreenOK, Window
  <2> QED
    BY <1>2, <2>2, <2>5, <2>6 DEF Open, Remains
<1> QED
  BY <1>1, <1>2

LEMMA ServedFact == TypeOK => ServedEra \in Nat
BY DEF TypeOK, ServedEra

LEMMA BuildShown ==
  ASSUME WinTypes, NEW t \in Jobs, Build(t), ~Open(task[t].file)
  PROVE  /\ ScreenOK' /\ \A l \in Labels \ {task[t].file} : screen'[l] = screen[l]
         /\ Open(task[t].file)' /\ screen'[task[t].file].title = task[t].title
         /\ screen'[task[t].file].page = "file"
<1> DEFINE v == [title |-> task[t].title, era |-> task[t].era, page |-> "file"]
<1>1. task[t] \in TaskRec
  BY TaskKinds DEF WinTypes, TaskOK
<1>2. task[t].file \in Labels /\ v \in Window
  BY <1>1 DEF TaskRec, Window
<1>3. screen' = [screen EXCEPT ![task[t].file] = v]
  BY DEF Build
<1>4. v # None
  BY <1>2, NoneFacts
<1>5. v.title = task[t].title /\ v.page = "file"
  OBVIOUS
<1> HIDE DEF v
<1>6. screen' \in [Labels -> Window \cup {None}] /\ screen'[task[t].file] = v
      /\ \A l \in Labels \ {task[t].file} : screen'[l] = screen[l]
  BY <1>2, <1>3 DEF WinTypes, ScreenOK
<1>7. ScreenOK'
  BY <1>6, LabelFacts DEF ScreenOK, Window
<1>8. Open(task[t].file)' /\ screen'[task[t].file].title = task[t].title
      /\ screen'[task[t].file].page = "file"
  <2>1. task'[t].file = task[t].file
    BY BuildEffect DEF Kin
  <2> QED
    BY <1>4, <1>5, <1>6, <2>1 DEF Open
<1> QED
  BY <1>6, <1>7, <1>8

LEMMA InsertShown ==
  ASSUME WinTypes, NEW t \in Jobs, Insert(t), task[t].file \in Files
  PROVE  /\ RegOK' /\ UNCHANGED screen /\ OddOK' /\ key' = task[t].file
         /\ reg'[task[t].file] = task[t].title /\ task[t].title # None
         /\ \A l \in Labels \ {task[t].file} : reg'[l] = reg[l]
         /\ UNCHANGED <<odd.ghosts, odd.mixed, odd.crossed>>
         /\ odd'.behind = IF name[task[t].file] \in {0, task[t].title}
                          THEN odd.behind \ {task[t].file} ELSE odd.behind \cup {task[t].file}
<1>1. task[t] \in TaskRec /\ reg \in [Labels -> Nat \cup {None}]
  BY TaskKinds DEF WinTypes, TaskOK, RegOK
<1>2. task[t].file \in Labels /\ task[t].title \in Nat
  BY <1>1 DEF TaskRec
<1>3. reg' = [reg EXCEPT ![task[t].file] = task[t].title] /\ key' = task[t].file /\ UNCHANGED screen
  BY DEF Insert
<1>4. RegOK'
  BY <1>1, <1>2, <1>3, LabelFacts DEF RegOK
<1> DEFINE b == IF name[task[t].file] \in {0, task[t].title}
                THEN odd.behind \ {task[t].file} ELSE odd.behind \cup {task[t].file}
<1>5. odd' = [odd EXCEPT !.behind = b]
  BY DEF Insert
<1>6. odd \in [ghosts : SUBSET Labels, behind : SUBSET Files, mixed : SUBSET Files, crossed : BOOLEAN]
  BY DEF WinTypes, OddOK
<1>7. b \in SUBSET Files
  BY <1>6
<1> HIDE DEF b
<1>8. odd' \in [ghosts : SUBSET Labels, behind : SUBSET Files, mixed : SUBSET Files, crossed : BOOLEAN]
  BY <1>5, <1>6, <1>7
<1>9. UNCHANGED <<odd.ghosts, odd.mixed>> /\ odd'.behind = b
  BY <1>5, <1>6
<1>10. UNCHANGED odd.crossed
  BY <1>5, <1>6, Zenon
<1>11. OddOK'
  BY <1>8, LabelFacts DEF OddOK
<1>12. task[t].title # None
  BY <1>2, NoneFacts
<1> QED
  BY <1>1, <1>2, <1>3, <1>4, <1>9, <1>10, <1>11, <1>12 DEF b

LEMMA RecoverShown ==
  ASSUME WinTypes, NEW l \in Labels, Recover(l)
  PROVE  /\ ScreenOK' /\ StraysOK' /\ \A m \in Labels : (Open(m) => Remains(m)) /\ (Open(m)' => Open(m))
         /\ \A m \in Labels \ {l} : screen'[m] = screen[m]
         /\ Open(l) => screen'[l].page = RecoveryPage(l)
         /\ Open(Home) => screen'[Home].era = screen[Home].era
<1>1. PICK s \in strays : /\ s[1] = l /\ strays' = strays \ {s}
                          /\ screen' = IF Open(l) THEN [screen EXCEPT ![l].page = RecoveryPage(l),
                                                                     ![l].era = IF l = Home THEN @ ELSE s[2]]
                                       ELSE screen
  BY DEF Recover
<1>2. StraysOK' /\ s[2] \in Nat
  BY <1>1 DEF WinTypes, StraysOK, Labels, Home, Files
<1>3. ScreenOK
  BY DEF WinTypes
<1>4. CASE ~Open(l)
  <2>1. screen' = screen
    BY <1>1, <1>4
  <2> QED
    BY <1>2, <1>3, <1>4, <2>1 DEF ScreenOK, Remains, Open, Labels, Files, Home, Window
<1>5. CASE Open(l)
  <2> DEFINE e == IF l = Home THEN screen[l].era ELSE s[2]
  <2> DEFINE p == RecoveryPage(l)
  <2> DEFINE v == [screen[l] EXCEPT !.page = p, !.era = e]
  <2>1. screen[l] \in Window
    BY <1>3, <1>5, LabelFacts DEF ScreenOK, Open
  <2>2. e \in Nat /\ p \in {"home", "file", "view"}
    BY <1>2, <2>1 DEF Window, RecoveryPage
  <2>3. screen' = [screen EXCEPT ![l] = v]
    BY <1>1, <1>5
  <2>4. l = Home => e = screen[l].era
    OBVIOUS
  <2> HIDE DEF e, p
  <2>5. v \in Window /\ v.title = screen[l].title /\ v.page = p /\ v.era = e /\ v # None
    BY <2>1, <2>2, NoneFacts DEF Window
  <2> HIDE DEF v
  <2>6. screen' \in [Labels -> Window \cup {None}]
    BY <1>3, <2>3, <2>5 DEF ScreenOK
  <2>7. screen'[l] = v /\ \A m \in Labels \ {l} : screen'[m] = screen[m]
    BY <1>3, <2>3 DEF ScreenOK
  <2>8. ScreenOK'
    BY <2>6, LabelFacts DEF ScreenOK, Window
  <2>9. \A m \in Labels : (Open(m) => Remains(m)) /\ (Open(m)' => Open(m))
    BY <1>5, <2>5, <2>7 DEF Open, Remains
  <2>10. Open(Home) => screen'[Home].era = screen[Home].era
    BY <2>4, <2>5, <2>7, LabelFacts
  <2> QED
    BY <1>2, <2>5, <2>7, <2>8, <2>9, <2>10 DEF p
<1> QED
  BY <1>4, <1>5

LEMMA NavigateShown ==
  ASSUME WinTypes, NEW l \in Labels, NEW r \in Routes, Navigate(l, r)
  PROVE  /\ ScreenOK' /\ StraysOK' /\ \A m \in Labels : (Open(m) => Remains(m)) /\ (Open(m)' => Open(m))
         /\ \A m \in Labels \ {l} : screen'[m] = screen[m]
         /\ Open(l) => screen'[l].page \in {screen[l].page, "file", "view"}
         /\ Open(Home) => screen'[Home].era = screen[Home].era
<1>1. ScreenOK /\ Open(l)
  BY DEF WinTypes, Navigate
<1>2. screen[l] \in Window
  BY <1>1 DEF ScreenOK, Open
<1>3. StraysOK'
  BY <1>2 DEF Navigate, WinTypes, StraysOK, Labels, Home, Files, Window
<1>4. CASE screen' = screen
  BY <1>1, <1>3, <1>4 DEF ScreenOK, Remains, Open, Labels, Files, Home, Window
<1>5. CASE screen' # screen
  <2> DEFINE v == [screen[l] EXCEPT !.page = r]
  <2>1. r \in {"file", "view"} /\ screen' = [screen EXCEPT ![l] = v]
    BY <1>5 DEF Navigate, Routes
  <2>2. v \in Window /\ v.title = screen[l].title /\ v.page = r /\ v.era = screen[l].era /\ v # None
    BY <1>2, <2>1, NoneFacts DEF Window
  <2> HIDE DEF v
  <2>3. screen' \in [Labels -> Window \cup {None}]
    BY <1>1, <2>1, <2>2 DEF ScreenOK
  <2>4. screen'[l] = v /\ \A m \in Labels \ {l} : screen'[m] = screen[m]
    BY <1>1, <2>1 DEF ScreenOK
  <2>5. ScreenOK'
    BY <2>3, LabelFacts DEF ScreenOK, Window
  <2>6. \A m \in Labels : (Open(m) => Remains(m)) /\ (Open(m)' => Open(m))
    BY <1>1, <2>2, <2>4 DEF Open, Remains
  <2> QED
    BY <1>3, <2>1, <2>2, <2>4, <2>5, <2>6, LabelFacts
<1> QED
  BY <1>4, <1>5

LEMMA CloseShown ==
  ASSUME WinTypes, NEW l \in Labels, Close(l)
  PROVE  /\ ScreenOK' /\ RegOK' /\ OddOK' /\ ~Open(l)'
         /\ \A m \in Labels \ {l} : screen'[m] = screen[m] /\ reg'[m] = reg[m]
         /\ Heard(l) => /\ reg'[l] = None /\ bar'.reg = reg' /\ bar'.key = key'
                        /\ key' = (IF key = l THEN None ELSE key)
                        /\ odd'.ghosts = odd.ghosts /\ odd'.mixed = odd.mixed \ {l}
         /\ ~Heard(l) => /\ UNCHANGED <<reg, key, bar>> /\ odd'.ghosts = odd.ghosts \cup {l}
                         /\ odd'.mixed = odd.mixed /\ odd'.crossed = odd.crossed
         /\ odd'.behind = odd.behind
<1>1. /\ ScreenOK /\ RegOK
      /\ odd \in [ghosts : SUBSET Labels, behind : SUBSET Files, mixed : SUBSET Files, crossed : BOOLEAN]
  BY DEF WinTypes, OddOK
<1>2. screen' = [screen EXCEPT ![l] = None] /\ ScreenOK'
  <2>1. screen' = [screen EXCEPT ![l] = None]
    BY DEF Close
  <2>2. screen' \in [Labels -> Window \cup {None}]
    BY <1>1, <2>1 DEF ScreenOK
  <2> QED
    BY <2>1, <2>2, LabelFacts DEF ScreenOK, Window
<1> DEFINE h == Heard(l)
<1> DEFINE gs == IF h THEN odd.ghosts ELSE odd.ghosts \cup {l}
<1> DEFINE ms == IF h THEN odd.mixed \ {l} ELSE odd.mixed
<1> DEFINE c == odd.crossed /\ ~h
<1>3. odd' = [odd EXCEPT !.crossed = c, !.ghosts = gs, !.mixed = ms]
  BY DEF Close
<1>4. gs \in SUBSET Labels /\ ms \in SUBSET Files /\ c \in BOOLEAN
  BY <1>1
<1>5. ~h => c = odd.crossed
  BY <1>1
<1> HIDE DEF gs, ms, c
<1>6. odd' \in [ghosts : SUBSET Labels, behind : SUBSET Files, mixed : SUBSET Files, crossed : BOOLEAN]
  BY <1>1, <1>3, <1>4
<1>7. odd'.ghosts = gs /\ odd'.mixed = ms /\ odd'.behind = odd.behind
  BY <1>1, <1>3
<1>8. odd'.crossed = c
  BY <1>1, <1>3, Zenon
<1>9. OddOK'
  BY <1>6, LabelFacts DEF OddOK
<1>10. /\ reg' = IF h THEN [reg EXCEPT ![l] = None] ELSE reg
       /\ key' = IF h /\ key = l THEN None ELSE key
       /\ bar' = IF h THEN [Now EXCEPT !.reg = reg', !.key = key'] ELSE bar
  BY DEF Close, Forgets
<1>11. RegOK'
  BY <1>1, <1>10, LabelFacts DEF RegOK
<1>12. h => bar'.reg = reg' /\ bar'.key = key'
  BY <1>10 DEF Now
<1>13. \A m \in Labels \ {l} : screen'[m] = screen[m] /\ reg'[m] = reg[m]
  BY <1>1, <1>2, <1>10 DEF ScreenOK, RegOK
<1>14. ~Open(l)' /\ (h => reg'[l] = None)
  BY <1>1, <1>2, <1>10 DEF ScreenOK, RegOK, Open
<1> QED
  BY <1>2, <1>5, <1>7, <1>8, <1>9, <1>10, <1>11, <1>12, <1>13, <1>14 DEF gs, ms

LEMMA TitleFacts ==
  ASSUME NEW ups \in Retitles, NEW f \in {e[1] : e \in ups}
  PROVE  f \in Files /\ NewTitle(ups, f) \in Nat /\ <<f, NewTitle(ups, f)>> \in ups
<1>1. PICK e \in ups : e[1] = f
  OBVIOUS
<1> DEFINE c == CHOOSE d \in ups : d[1] = f
<1>2. c \in ups /\ c[1] = f
  BY <1>1
<1>3. NewTitle(ups, f) = c[2]
  BY DEF NewTitle
<1> HIDE DEF c
<1>4. ups \subseteq Files \X Nat
  BY DEF Retitles
<1>5. c = <<c[1], c[2]>> /\ c[1] \in Files /\ c[2] \in Nat
  BY <1>2, <1>4
<1> QED
  BY <1>2, <1>3, <1>5

Due == {e[1] : e \in task[Watch].ups}
LEMMA RetitleShown ==
  ASSUME WinTypes, Retitle
  PROVE  /\ ScreenOK' /\ RegOK' /\ OddOK' /\ task[Watch].ups \in Retitles /\ Due \subseteq Files
         /\ \A l \in Labels \ Due : screen'[l] = screen[l] /\ reg'[l] = reg[l]
         /\ \A l \in Labels : /\ Open(l)' <=> Open(l)
                              /\ Open(l) => screen'[l].page = screen[l].page
                              /\ reg[l] # None => reg'[l] # None
         /\ \A l \in Due : LET n == NewTitle(task[Watch].ups, l)
                           IN  /\ Open(l) => screen'[l].title = n
                               /\ reg'[l] = n \/ (reg[l] = None /\ reg'[l] = None)
                               /\ reg[l] = None /\ reg'[l] # None => l \in odd'.ghosts
                               /\ reg[l] = None /\ Open(l) => l \in odd'.mixed
         /\ odd.ghosts \subseteq odd'.ghosts /\ odd.mixed \subseteq odd'.mixed
         /\ odd'.behind = odd.behind /\ odd'.crossed = odd.crossed
<1> DEFINE ups == task[Watch].ups
<1>1. /\ ScreenOK /\ RegOK
      /\ odd \in [ghosts : SUBSET Labels, behind : SUBSET Files, mixed : SUBSET Files, crossed : BOOLEAN]
      /\ ups \in Retitles
  BY TaskKinds DEF WinTypes, OddOK, TaskOK, TaskRec
<1>2. \A f \in Due : f \in Files /\ f \in Labels /\ NewTitle(ups, f) \in Nat /\ NewTitle(ups, f) # None
  <2>1. Due = {e[1] : e \in ups}
    BY DEF Due
  <2> HIDE DEF ups
  <2>2. ASSUME NEW f \in {e[1] : e \in ups} PROVE f \in Files /\ NewTitle(ups, f) \in Nat
    BY <1>1, TitleFacts
  <2> QED
    BY <2>1, <2>2, LabelFacts, NoneFacts
<1>3. PICK gone \in SUBSET (Due \ Listed) :
        /\ reg' = [l \in Labels |-> IF l \in (Due \cap Listed) \cup gone THEN NewTitle(ups, l) ELSE reg[l]]
        /\ odd' = [odd EXCEPT !.ghosts = @ \cup gone, !.mixed = @ \cup {f \in Due \ Listed : Open(f)}]
  BY DEF Retitle, Due
<1>4. screen' = [l \in Labels |-> IF l \in Due /\ Open(l)
                                  THEN [screen[l] EXCEPT !.title = NewTitle(ups, l)] ELSE screen[l]]
  BY DEF Retitle, Due
<1> HIDE DEF ups
<1>5. ASSUME NEW l \in Labels
      PROVE  /\ screen'[l] \in Window \cup {None}
             /\ l \notin Due => screen'[l] = screen[l]
             /\ Open(l)' <=> Open(l)
             /\ Open(l) => screen'[l].page = screen[l].page
             /\ l \in Due /\ Open(l) => screen'[l].title = NewTitle(ups, l)
  <2>1. CASE l \in Due /\ Open(l)
    <3> DEFINE n == NewTitle(ups, l)
    <3> DEFINE v == [screen[l] EXCEPT !.title = n]
    <3>1. screen[l] \in Window /\ n \in Nat
      BY <1>1, <1>2, <2>1 DEF ScreenOK, Open
    <3>2. screen'[l] = v
      BY <1>4, <2>1
    <3> HIDE DEF n
    <3>3. v \in Window /\ v.title = n /\ v.page = screen[l].page /\ v # None
      BY <3>1, NoneFacts DEF Window
    <3> HIDE DEF v
    <3> QED
      BY <2>1, <3>2, <3>3 DEF Open, n
  <2>2. CASE ~(l \in Due /\ Open(l))
    <3>1. screen'[l] = screen[l]
      BY <1>4, <2>2
    <3> QED
      BY <1>1, <2>2, <3>1 DEF ScreenOK, Open
  <2> QED
    BY <2>1, <2>2
<1>6. ScreenOK'
  <2>1. screen' \in [Labels -> Window \cup {None}]
    BY <1>4, <1>5
  <2> QED
    BY <2>1, LabelFacts DEF ScreenOK, Window
<1>7. ASSUME NEW l \in Labels
      PROVE  /\ reg'[l] \in Nat \cup {None}
             /\ l \notin Due => reg'[l] = reg[l]
             /\ reg[l] # None => reg'[l] # None
             /\ l \in Due => reg'[l] = NewTitle(ups, l) \/ (reg[l] = None /\ reg'[l] = None)
             /\ l \in Due /\ reg[l] = None /\ reg'[l] # None => l \in gone
  BY <1>1, <1>2, <1>3 DEF RegOK, Listed
<1>8. RegOK'
  <2>1. reg' \in [Labels -> Nat \cup {None}]
    BY <1>3, <1>7
  <2>2. key' = key
    BY DEF Retitle
  <2> QED
    BY <1>1, <2>1, <2>2, LabelFacts DEF RegOK
<1> DEFINE gs == odd.ghosts \cup gone
<1> DEFINE ms == odd.mixed \cup {f \in Due \ Listed : Open(f)}
<1>9. odd' = [odd EXCEPT !.ghosts = gs, !.mixed = ms]
  BY <1>3
<1>10. gs \in SUBSET Labels /\ ms \in SUBSET Files
  BY <1>1, <1>2
<1>11. odd.ghosts \subseteq gs /\ odd.mixed \subseteq ms /\ gone \subseteq gs
       /\ \A l \in Due : reg[l] = None /\ Open(l) => l \in ms
  BY DEF Listed
<1> HIDE DEF gs, ms
<1>12. odd' \in [ghosts : SUBSET Labels, behind : SUBSET Files, mixed : SUBSET Files, crossed : BOOLEAN]
  BY <1>1, <1>9, <1>10
<1>13. odd'.ghosts = gs /\ odd'.mixed = ms /\ odd'.behind = odd.behind
  BY <1>1, <1>9
<1>14. odd'.crossed = odd.crossed
  BY <1>1, <1>9, Zenon
<1>15. OddOK'
  BY <1>12, LabelFacts DEF OddOK
<1>16. \A l \in Due : l \in Labels
  BY <1>2
<1>17. Due \subseteq Files
  BY <1>2
<1> QED
  BY <1>1, <1>5, <1>6, <1>7, <1>8, <1>11, <1>13, <1>14, <1>15, <1>16, <1>17 DEF ups

-----------------------------------------------------------------------------
(* The types, step by step. *)

LEMMA SameTypes ==
  ASSUME WinTypes
  PROVE  /\ screen' = screen => ScreenOK'
         /\ reg' = reg /\ key' = key => RegOK'
         /\ recent' = recent => RecentOK'
         /\ name' = name => NameOK'
         /\ odd' = odd => OddOK'
         /\ strays' = strays => StraysOK'
         /\ UNCHANGED vars => OpensOK'
         /\ UNCHANGED vars /\ news' = news => NewsOK'
<1>1. screen' = screen => ScreenOK'
  BY LabelFacts DEF WinTypes, ScreenOK, Window
<1>2. reg' = reg /\ key' = key => RegOK'
  BY LabelFacts DEF WinTypes, RegOK
<1>3. recent' = recent => RecentOK'
  BY LabelFacts DEF WinTypes, RecentOK, Recents, RecentRec
<1>4. name' = name => NameOK'
  BY LabelFacts DEF WinTypes, NameOK
<1>5. odd' = odd => OddOK'
  BY LabelFacts DEF WinTypes, OddOK
<1>6. strays' = strays => StraysOK'
  BY LabelFacts DEF WinTypes, StraysOK
<1>7. UNCHANGED vars => OpensOK'
  BY DEF vars, WinTypes, OpensOK, OpenKinds
<1>8. UNCHANGED vars /\ news' = news => NewsOK'
  BY DEF vars, WinTypes, NewsOK
<1> QED
  BY <1>1, <1>2, <1>3, <1>4, <1>5, <1>6, <1>7, <1>8

LEMMA RecordTypes ==
  ASSUME RecentOK, NEW f \in Files, NEW n \in Nat
  PROVE  RecordOpen(recent, f, n) \in Recents
<1>1. recent \in Seq(RecentRec)
  BY DEF RecentOK, Recents
<1>2. Without(recent, f) \in Seq(RecentRec)
  <2>1. CASE ~\E i \in DOMAIN recent : recent[i].file = f
    BY <1>1, <2>1 DEF Without
  <2>2. CASE \E i \in DOMAIN recent : recent[i].file = f
    <3> DEFINE i == CHOOSE j \in DOMAIN recent : recent[j].file = f
    <3>1. i \in DOMAIN recent
      BY <2>2
    <3>2. Without(recent, f) = SubSeq(recent, 1, i - 1) \o SubSeq(recent, i + 1, Len(recent))
      BY <2>2 DEF Without
    <3> HIDE DEF i
    <3>3. i \in 1 .. Len(recent) /\ Len(recent) \in Nat
      BY <1>1, <3>1
    <3>4. SubSeq(recent, 1, i - 1) \in Seq(RecentRec) /\ SubSeq(recent, i + 1, Len(recent)) \in Seq(RecentRec)
      BY <1>1, <3>3, SubSeqProperties
    <3> QED
      BY <3>2, <3>4, ConcatProperties
  <2> QED
    BY <2>1, <2>2
<1> DEFINE one == <<[file |-> f, title |-> n]>>
<1> DEFINE all == one \o Without(recent, f)
<1>3. one \in Seq(RecentRec)
  BY DEF RecentRec
<1>4. all \in Seq(RecentRec)
  BY <1>2, <1>3, ConcatProperties
<1>5. RecordOpen(recent, f, n) = IF Len(all) > RecentLimit THEN SubSeq(all, 1, RecentLimit) ELSE all
  BY DEF RecordOpen
<1> HIDE DEF all
<1>6. Len(all) > RecentLimit => SubSeq(all, 1, RecentLimit) \in Seq(RecentRec)
  <2>1. Len(all) \in Nat /\ RecentLimit \in Nat
    BY <1>4, NoneFacts
  <2> QED
    BY <1>4, <2>1, SubSeqProperties
<1> QED
  BY <1>4, <1>5, <1>6 DEF Recents

LEMMA NamedTypes ==
  ASSUME WinTypes, TypeOK, NEW f \in Files, NEW n \in Nat, Named(f, n), UNCHANGED vars
  PROVE  /\ NameOK' /\ NewsOK'
         /\ name'[f] = n /\ \A g \in Files \ {f} : name'[g] = name[g]
         /\ news'.daemon = news.daemon \cup {stack.gen} /\ news'.greeted = news.greeted
         /\ news'.tick = news.tick
<1>1. name \in [Files -> Nat] /\ name' = [name EXCEPT ![f] = n]
  BY DEF Named, WinTypes, NameOK
<1>2. /\ news \in [daemon : SUBSET (0 .. stack.gen), greeted : SUBSET (0 .. stack.gen), tick : BOOLEAN]
      /\ stack.gen \in Nat /\ UNCHANGED stack
  BY DEF WinTypes, NewsOK, TypeOK, vars
<1> DEFINE d == news.daemon \cup {stack.gen}
<1>3. news' = [news EXCEPT !.daemon = d]
  BY DEF Named
<1>4. d \in SUBSET (0 .. stack.gen)
  BY <1>2
<1> HIDE DEF d
<1>5. news' \in [daemon : SUBSET (0 .. stack.gen), greeted : SUBSET (0 .. stack.gen), tick : BOOLEAN]
  BY <1>2, <1>3, <1>4
<1>6. news'.daemon = d /\ news'.greeted = news.greeted
  BY <1>2, <1>3
<1>7. news'.tick = news.tick
  BY <1>2, <1>3, Zenon
<1>8. NewsOK'
  BY <1>2, <1>5 DEF NewsOK
<1>9. NameOK' /\ name'[f] = n /\ \A g \in Files \ {f} : name'[g] = name[g]
  BY <1>1, LabelFacts DEF NameOK
<1> QED
  BY <1>6, <1>7, <1>8, <1>9 DEF d

LEMMA ExportEffect ==
  ASSUME WinTypes, TypeOK, NEW t \in Jobs, Export(t)
  PROVE  \E n \in Nat \ {0} : /\ task[t].file \in Files /\ Named(task[t].file, n)
                              /\ task[t].file[1] = stack.vault
<1>1. task[t].file \in Files
  <2>1. task[t] \in TaskRec
    BY TaskKinds DEF WinTypes, TaskOK
  <2> QED
    BY <2>1 DEF TaskRec, Labels, Export
<1> QED
  BY <1>1 DEF Export

LEMMA JobTypes ==
  ASSUME WinTypes, TypeOK, JobsOK, NEW t \in Jobs,
         \/ Asked(t) \/ Create(t) \/ Decide(t) \/ Build(t) \/ Insert(t) \/ Record(t) \/ Export(t)
  PROVE  WinTypes'
<1>1. CASE Asked(t)
  <2>1. UNCHANGED Beforehand /\ TaskOK'
    BY <1>1, AskedTypes DEF Asked, ByDocument, ByFolder, ByRecent, ByNew
  <2> QED
    BY <2>1, SameTypes DEF WinTypes, Beforehand
<1>2. CASE Create(t)
  BY <1>2, CreateEffect, SameTypes DEF WinTypes, Create
<1>3. CASE Decide(t)
  <2>1. TaskOK' /\ UNCHANGED <<vars, screen, reg, recent, name, news, strays, odd>>
    BY <1>3, DecideEffect DEF Decide
  <2>2. key' \in {key, task[t].file}
    BY <1>3 DEF Decide
  <2>3. task[t].file \in Labels
    BY TaskKinds DEF WinTypes, TaskOK, TaskRec
  <2>4. RegOK'
    BY <2>1, <2>2, <2>3, LabelFacts DEF WinTypes, RegOK
  <2> QED
    BY <2>1, <2>4, SameTypes DEF WinTypes
<1>4. CASE Build(t)
  <2>1. TaskOK' /\ UNCHANGED <<vars, reg, key, recent, name, news, strays, odd>>
    BY <1>4, BuildEffect DEF Build
  <2>2. ScreenOK'
    BY <1>4, BuildEffect, BuildShown, SameTypes
  <2> QED
    BY <2>1, <2>2, SameTypes DEF WinTypes
<1>5. CASE Insert(t)
  <2>1. TaskOK' /\ UNCHANGED <<vars, screen, recent, name, news, strays>>
    BY <1>5, InsertEffect DEF Insert
  <2>2. task[t].file \in Files
    BY <1>5 DEF JobsOK, Began, Insert
  <2>3. RegOK' /\ OddOK'
    BY <1>5, <2>2, InsertShown
  <2> QED
    BY <2>1, <2>3, SameTypes DEF WinTypes
<1>6. CASE Record(t)
  <2>1. TaskOK' /\ UNCHANGED <<vars, screen, reg, key, name, news, strays, odd>>
    BY <1>6, RecordEffect DEF Record
  <2>2. task[t].file \in Files /\ task[t].title \in Nat
    <3>1. task[t] \in TaskRec
      BY TaskKinds DEF WinTypes, TaskOK
    <3> QED
      BY <1>6, <3>1 DEF JobsOK, Began, Record, TaskRec
  <2>3. recent' \in Recents
    BY <1>6, <2>2, RecordTypes DEF Record, WinTypes, RecentOK
  <2>4. RecentOK'
    BY <2>3, LabelFacts DEF RecentOK, Recents, RecentRec
  <2> QED
    BY <2>1, <2>4, SameTypes DEF WinTypes
<1>7. CASE Export(t)
  <2>1. UNCHANGED <<vars, task, screen, reg, key, recent, strays, odd>>
    BY <1>7 DEF Export
  <2>2. NameOK' /\ NewsOK'
    <3>1. PICK n \in Nat : task[t].file \in Files /\ Named(task[t].file, n)
      BY <1>7, ExportEffect
    <3> QED
      BY <2>1, <3>1, NamedTypes
  <2>3. TaskOK'
    BY <2>1, TaskFits DEF WinTypes, TaskOK
  <2> QED
    BY <2>1, <2>2, <2>3, SameTypes DEF WinTypes
<1> QED
  BY <1>1, <1>2, <1>3, <1>4, <1>5, <1>6, <1>7

LEMMA SameTasks ==
  ASSUME WinTypes, UNCHANGED vars, task' = task
  PROVE  TaskOK'
BY TaskFits DEF WinTypes, TaskOK

LEMMA MenuTypes ==
  ASSUME WinTypes, TypeOK, NEW t \in Tasks, Draw(t) \/ SetMenu(t) \/ (t \in Tails /\ Load(t))
  PROVE  WinTypes'
<1>1. CASE Draw(t)
  BY <1>1, DrawEffect, SameTypes DEF WinTypes, Draw
<1>2. CASE SetMenu(t)
  <2>1. TaskOK' /\ UNCHANGED <<vars, screen, reg, key, recent, name, news, strays>>
    BY <1>2, SetEffect DEF SetMenu
  <2>2. OddOK'
    <3> DEFINE c == ~task[t].clean
    <3>1. odd' = [odd EXCEPT !.crossed = c] /\ c \in BOOLEAN
      BY <1>2 DEF SetMenu
    <3> HIDE DEF c
    <3>2. odd' \in [ghosts : SUBSET Labels, behind : SUBSET Files, mixed : SUBSET Files, crossed : BOOLEAN]
      BY <3>1 DEF WinTypes, OddOK
    <3> QED
      BY <3>2, LabelFacts DEF OddOK
  <2> QED
    BY <2>1, <2>2, SameTypes DEF WinTypes
<1>3. CASE t \in Tails /\ Load(t)
  <2>1. TaskOK' /\ UNCHANGED <<vars, reg, key, recent, name, news, strays, odd>>
    BY <1>3, LoadEffect DEF Load
  <2>2. ScreenOK'
    BY <1>3, HomeShown, ServedFact DEF Load, WinTypes
  <2> QED
    BY <2>1, <2>2, SameTypes DEF WinTypes
<1> QED
  BY <1>1, <1>2, <1>3

\* The last draw is no longer the one that had been overtaken.
LEMMA CrossedNot ==
  ASSUME WinTypes, odd' = [odd EXCEPT !.crossed = FALSE]
  PROVE  /\ OddOK' /\ odd'.ghosts = odd.ghosts /\ odd'.mixed = odd.mixed /\ odd'.behind = odd.behind
<1>1. odd \in [ghosts : SUBSET Labels, behind : SUBSET Files, mixed : SUBSET Files, crossed : BOOLEAN]
  BY DEF WinTypes, OddOK
<1>2. odd' \in [ghosts : SUBSET Labels, behind : SUBSET Files, mixed : SUBSET Files, crossed : BOOLEAN]
  BY <1>1
<1>3. odd'.ghosts = odd.ghosts /\ odd'.mixed = odd.mixed /\ odd'.behind = odd.behind
  BY <1>1
<1> QED
  BY <1>2, <1>3, LabelFacts DEF OddOK

LEMMA ShownTypes ==
  ASSUME WinTypes, TypeOK, NEW l \in Labels,
         Focus(l) \/ Close(l) \/ Recover(l) \/ (\E r \in Routes : Navigate(l, r)) \/ NavigateHome
  PROVE  WinTypes'
<1>1. CASE Focus(l)
  <2>1. UNCHANGED <<vars, screen, reg, recent, name, news, strays>> /\ key' = l /\ task' = Overtake(task)
        /\ odd' = [odd EXCEPT !.crossed = FALSE]
    BY <1>1 DEF Focus
  <2>2. RegOK'
    BY <2>1, LabelFacts DEF WinTypes, RegOK
  <2>3. TaskOK'
    BY <2>1, OvertakeAll DEF WinTypes
  <2> QED
    BY <2>1, <2>2, <2>3, SameTypes, CrossedNot DEF WinTypes
<1>2. CASE Close(l)
  <2>1. UNCHANGED <<vars, recent, name, news, strays>>
    BY <1>2 DEF Close
  <2> QED
    BY <1>2, <2>1, CloseEffect, CloseShown, SameTypes DEF WinTypes
<1>3. CASE Recover(l)
  <2>1. UNCHANGED <<vars, task, reg, key, recent, name, news, odd>>
    BY <1>3 DEF Recover
  <2> QED
    BY <1>3, <2>1, RecoverShown, SameTypes, SameTasks DEF WinTypes
<1>4. CASE \E r \in Routes : Navigate(l, r)
  <2>1. PICK r \in Routes : Navigate(l, r)
    BY <1>4
  <2>2. UNCHANGED <<vars, task, reg, key, recent, name, news, odd>>
    BY <2>1 DEF Navigate
  <2> QED
    BY <2>1, <2>2, NavigateShown, SameTypes, SameTasks DEF WinTypes
<1>5. CASE NavigateHome
  <2>1. /\ UNCHANGED <<vars, reg, recent, name, news, strays>> /\ key' = Home
        /\ task' = Overtake(task) /\ screen' = HomeAt(ServedEra)
        /\ odd' = [odd EXCEPT !.crossed = FALSE]
    BY <1>5 DEF NavigateHome
  <2>2. RegOK'
    BY <2>1, LabelFacts DEF WinTypes, RegOK
  <2>3. TaskOK'
    BY <2>1, OvertakeAll DEF WinTypes
  <2>4. ScreenOK'
    BY <2>1, HomeShown, ServedFact DEF WinTypes
  <2> QED
    BY <2>1, <2>2, <2>3, <2>4, SameTypes, CrossedNot DEF WinTypes
<1> QED
  BY <1>1, <1>2, <1>3, <1>4, <1>5

LEMMA MirrorEffect ==
  ASSUME WinTypes, TypeOK, Mirror
  PROVE  /\ NewsOK' /\ OddOK' /\ (news'.tick <=> Watching)
         /\ odd'.ghosts = odd.ghosts /\ odd'.mixed = odd.mixed /\ odd'.crossed = odd.crossed
         /\ odd'.behind = IF Watching THEN odd.behind ELSE odd.behind \cup {f \in Files : Stale(f)}
         /\ UNCHANGED <<vars, screen, reg, key, bar, recent, task, name, strays>>
<1>1. PICK g \in bridge.fwd :
        /\ news' = [daemon |-> news.daemon \ {g}, greeted |-> news.greeted \cup {g}, tick |-> Watching]
        /\ odd' = [odd EXCEPT !.behind = IF Watching THEN @ ELSE @ \cup {f \in Files : Stale(f)}]
        /\ UNCHANGED <<vars, screen, reg, key, bar, recent, task, name, pop, strays, left>>
  BY DEF Mirror
<1>2. /\ news \in [daemon : SUBSET (0 .. stack.gen), greeted : SUBSET (0 .. stack.gen), tick : BOOLEAN]
      /\ bridge.fwd \subseteq 0 .. stack.gen /\ UNCHANGED stack
  BY <1>1 DEF WinTypes, NewsOK, TypeOK, vars
<1> DEFINE w == Watching
<1>3. w \in BOOLEAN
  BY DEF Watching
<1>4. news' = [daemon |-> news.daemon \ {g}, greeted |-> news.greeted \cup {g}, tick |-> w]
  BY <1>1
<1> DEFINE b == IF Watching THEN odd.behind ELSE odd.behind \cup {f \in Files : Stale(f)}
<1>5. odd' = [odd EXCEPT !.behind = b]
  BY <1>1
<1>6. odd \in [ghosts : SUBSET Labels, behind : SUBSET Files, mixed : SUBSET Files, crossed : BOOLEAN]
  BY DEF WinTypes, OddOK
<1>7. b \in SUBSET Files
  BY <1>6
<1> HIDE DEF w, b
<1>8. news' \in [daemon : SUBSET (0 .. stack.gen), greeted : SUBSET (0 .. stack.gen), tick : BOOLEAN]
  BY <1>2, <1>3, <1>4
<1>9. NewsOK'
  BY <1>2, <1>8 DEF NewsOK
<1>10. news'.tick = w
  BY <1>4
<1>11. odd' \in [ghosts : SUBSET Labels, behind : SUBSET Files, mixed : SUBSET Files, crossed : BOOLEAN]
  BY <1>5, <1>6, <1>7
<1>12. odd'.ghosts = odd.ghosts /\ odd'.mixed = odd.mixed /\ odd'.behind = b
  BY <1>5, <1>6
<1>13. odd'.crossed = odd.crossed
  BY <1>5, <1>6, Zenon
<1>14. OddOK'
  BY <1>11, LabelFacts DEF OddOK
<1> QED
  BY <1>1, <1>9, <1>10, <1>12, <1>13, <1>14 DEF w, b

LEMMA WakeTypes ==
  ASSUME WinTypes, Wake
  PROVE  /\ NewsOK' /\ OddOK'
         /\ odd'.ghosts = odd.ghosts /\ odd'.mixed = odd.mixed /\ odd'.crossed = odd.crossed
<1> DEFINE mine == {f \in Files : live # None /\ f[1] = live.vault}
<1> DEFINE b == {f \in (Files \ mine) : f \in odd.behind \/ Stale(f)}
<1>1. odd' = [odd EXCEPT !.behind = b] /\ news' = [news EXCEPT !.tick = FALSE] /\ UNCHANGED stack
  BY DEF Wake, vars
<1>2. b \in SUBSET Files
  OBVIOUS
<1> HIDE DEF b
<1>3. odd \in [ghosts : SUBSET Labels, behind : SUBSET Files, mixed : SUBSET Files, crossed : BOOLEAN]
  BY DEF WinTypes, OddOK
<1>4. odd' \in [ghosts : SUBSET Labels, behind : SUBSET Files, mixed : SUBSET Files, crossed : BOOLEAN]
  BY <1>1, <1>2, <1>3
<1>5. odd'.ghosts = odd.ghosts /\ odd'.mixed = odd.mixed
  BY <1>1, <1>3
<1>6. odd'.crossed = odd.crossed
  BY <1>1, <1>3, Zenon
<1>7. NewsOK'
  BY <1>1 DEF WinTypes, NewsOK
<1>8. OddOK'
  BY <1>4, LabelFacts DEF OddOK
<1> QED
  BY <1>5, <1>6, <1>7, <1>8

LEMMA WatcherTypes ==
  ASSUME WinTypes, TypeOK, Mirror \/ Wake \/ Retitle \/ TogglePalette \/ OpenPreferences \/ \E f \in Files : Rename(f)
  PROVE  WinTypes'
<1>1. CASE Mirror
  BY <1>1, MirrorEffect, SameTypes, SameTasks DEF WinTypes
<1>2. CASE Wake
  <2>1. UNCHANGED <<vars, screen, reg, key, recent, name, strays>>
    BY <1>2 DEF Wake
  <2> QED
    BY <1>2, <2>1, WakeEffect, WakeTypes, SameTypes DEF WinTypes
<1>3. CASE Retitle
  <2>1. UNCHANGED <<vars, recent, name, news, strays>>
    BY <1>3 DEF Retitle
  <2> QED
    BY <1>3, <2>1, RetitleEffect, RetitleShown, SameTypes DEF WinTypes
<1>4. CASE TogglePalette \/ OpenPreferences
  <2>1. UNCHANGED <<vars, screen, reg, key, recent, task, name, news, strays, odd>>
    BY <1>4 DEF TogglePalette, OpenPreferences
  <2> QED
    BY <2>1, SameTypes, SameTasks DEF WinTypes
<1>5. ASSUME NEW f \in Files, Rename(f)
      PROVE  WinTypes'
  <2>1. UNCHANGED <<vars, screen, reg, key, recent, task, strays, odd>> /\ Named(f, name[f] + 1)
    BY <1>5 DEF Rename
  <2>2. name[f] + 1 \in Nat
    BY DEF WinTypes, NameOK
  <2> QED
    BY <2>1, <2>2, NamedTypes, SameTypes, SameTasks DEF WinTypes
<1> QED
  BY <1>1, <1>2, <1>3, <1>4, <1>5

LEMMA ShellTypesOn ==
  ASSUME WinTypes, TypeOK, ScOK, Beside, [WindowsNext]_allvars
  PROVE  WinTypes'
<1>1. UNCHANGED <<screen, reg, key, recent, name, news, strays, odd>>
  BY DEF Beside
<1>2. TaskOK' /\ OpensOK'
  BY BesideEffect, StaticWindows DEF WinTypes
<1>3. NewsOK'
  <2>1. stack'.gen >= stack.gen /\ stack.gen \in Nat /\ stack'.gen \in Nat
    <3>1. [Next]_vars
      BY WindowsMove
    <3> QED
      BY <3>1, StackStep DEF TypeOK, StackOK
  <2>2. 0 .. stack.gen \subseteq 0 .. stack'.gen
    BY <2>1
  <2> QED
    BY <1>1, <2>2 DEF WinTypes, NewsOK
<1> QED
  BY <1>1, <1>2, <1>3, SameTypes DEF WinTypes

LEMMA WinTypesStep ==
  ASSUME WinTypes, TypeOK, ScOK, JobsOK, [WindowsNext]_allvars
  PROVE  WinTypes'
<1>1. CASE Shells /\ Beside
  BY <1>1, ShellTypesOn
<1>2. CASE Besides
  <2>1. ASSUME NEW l \in Labels, Focus(l) \/ Close(l) \/ Recover(l) \/ \E r \in Routes : Navigate(l, r)
        PROVE  WinTypes'
    BY <2>1, ShownTypes
  <2>2. NavigateHome => WinTypes'
    BY ShownTypes, LabelFacts
  <2> QED
    BY <1>2, <2>1, <2>2, JobTypes, MenuTypes, WatcherTypes, TaskKinds DEF Besides
<1>3. CASE UNCHANGED allvars
  BY <1>3, SameTypes, SameTasks DEF WinTypes, allvars, wvars
<1> QED
  BY <1>1, <1>2, <1>3, WindowsSteps

-----------------------------------------------------------------------------
(* The steps that neither open nor close a window. *)

Quiet ==
  /\ \A u \in Jobs : task'[u].pc = task[u].pc /\ Kin(task'[u], task[u])
  /\ \A l \in Labels : Open(l)' <=> Open(l)
  /\ odd.ghosts \subseteq odd'.ghosts /\ odd.mixed \subseteq odd'.mixed
  /\ \A f \in Files : Open(f) /\ screen[f].page # "home" => screen'[f].page # "home"
  /\ key' = key \/ \E l \in Labels : key' = l /\ Open(l) /\ Heard(l)
  /\ Retitle \/ (reg' = reg /\ \A l \in Labels : Open(l) => screen'[l].title = screen[l].title)

Moves(t) ==
  \/ Asked(t) \/ Create(t) \/ Decide(t) \/ Build(t) \/ Insert(t) \/ Record(t) \/ Draw(t) \/ SetMenu(t)

LEMMA QuietTasks ==
  ASSUME WinTypes, \A u \in Jobs : task'[u] = task[u] \/ Goes(u),
         UNCHANGED <<screen, reg>>, odd'.ghosts = odd.ghosts, odd'.mixed = odd.mixed,
         key' = key \/ \E l \in Labels : key' = l /\ Open(l) /\ Heard(l)
  PROVE  Quiet
<1>1. \A u \in Jobs : task'[u].pc = task[u].pc /\ Kin(task'[u], task[u])
  BY DEF Goes, Kin
<1>2. /\ \A l \in Labels : Open(l)' <=> Open(l)
      /\ \A f \in Files : Open(f) /\ screen[f].page # "home" => screen'[f].page # "home"
      /\ reg' = reg /\ \A l \in Labels : Open(l) => screen'[l].title = screen[l].title
  BY DEF Open
<1> QED
  BY <1>1, <1>2 DEF Quiet

LEMMA HeardHome ==
  ASSUME JobsOK
  PROVE  Heard(Home)
BY LabelFacts DEF JobsOK, Began, Heard

\* The shell, the draws of the others, the watcher, and what is clicked.
LEMMA QuietSteps ==
  ASSUME WinTypes, TypeOK, ScOK, JobsOK, [WindowsNext]_allvars
  PROVE  \/ Quiet
         \/ \E t \in Jobs : Moves(t)
         \/ \E l \in Labels : Close(l)
<1>1. CASE Shells /\ Beside
  <2>1. UNCHANGED <<screen, reg, key, odd>>
    BY <1>1 DEF Beside
  <2>2. \A u \in Jobs : task'[u] = task[u]
    BY <1>1, BesideEffect, TaskKinds
  <2> QED
    BY <2>1, <2>2, QuietTasks
<1>2. CASE Besides
  <2>1. ASSUME NEW t \in Jobs, Export(t)
        PROVE  Quiet
    BY <2>1, QuietTasks DEF Export
  <2>2. ASSUME NEW t \in Tasks \ Jobs, Draw(t)
        PROVE  Quiet
    BY <2>2, DrawEffect, QuietTasks, TaskKinds DEF Draw, Alone
  <2>3. ASSUME NEW t \in Tasks \ Jobs, SetMenu(t)
        PROVE  Quiet
    <3>1. UNCHANGED <<screen, reg, key>>
      BY <2>3 DEF SetMenu
    <3>2. odd'.ghosts = odd.ghosts /\ odd'.mixed = odd.mixed
      BY <2>3 DEF SetMenu, WinTypes, OddOK
    <3>3. \A u \in Jobs : task'[u] = task[u]
      BY <2>3, SetEffect, TaskKinds DEF Alone
    <3> QED
      BY <3>1, <3>2, <3>3, QuietTasks
  <2>4. ASSUME NEW t \in Tails, Load(t)
        PROVE  Quiet
    <3>1. \A u \in Jobs : task'[u] = task[u]
      BY <2>4, LoadEffect, TaskKinds DEF Alone
    <3>2. /\ \A l \in Labels : (Open(l) => Remains(l)) /\ (Open(l)' => Open(l))
          /\ \A l \in Labels \ {Home} : screen'[l] = screen[l]
      BY <2>4, HomeShown, ServedFact DEF Load, WinTypes
    <3>3. UNCHANGED <<reg, key, odd>>
      BY <2>4 DEF Load
    <3> QED
      BY <3>1, <3>2, <3>3, LabelFacts DEF Quiet, Remains, Kin
  <2>5. ASSUME NEW l \in Labels, Focus(l)
        PROVE  Quiet
    <3>1. UNCHANGED <<vars, screen, reg>> /\ key' = l /\ task' = Overtake(task) /\ Open(l) /\ Heard(l)
          /\ odd' = [odd EXCEPT !.crossed = FALSE]
      BY <2>5 DEF Focus
    <3>2. \A u \in Jobs : Goes(u)
      BY <3>1, OvertakeAll, TaskKinds DEF WinTypes
    <3> QED
      BY <3>1, <3>2, CrossedNot, QuietTasks
  <2>6. ASSUME NEW l \in Labels, Recover(l) \/ \E r \in Routes : Navigate(l, r)
        PROVE  Quiet
    <3>1. UNCHANGED <<reg, key, odd, task>>
      BY <2>6 DEF Recover, Navigate
    <3>2. \A m \in Labels : (Open(m) => Remains(m)) /\ (Open(m)' => Open(m))
      BY <2>6, RecoverShown, NavigateShown
    <3>3. \A f \in Files : Open(f) /\ screen[f].page # "home" => screen'[f].page # "home"
      BY <2>6, RecoverShown, NavigateShown, LabelFacts DEF RecoveryPage
    <3> QED
      BY <3>1, <3>2, <3>3 DEF Quiet, Remains, Kin
  <2>7. CASE NavigateHome
    <3>1. UNCHANGED <<vars, reg>> /\ key' = Home /\ task' = Overtake(task) /\ Open(Home)
          /\ odd' = [odd EXCEPT !.crossed = FALSE] /\ screen' = HomeAt(ServedEra)
      BY <2>7 DEF NavigateHome
    <3>2. \A u \in Jobs : Goes(u)
      BY <3>1, OvertakeAll, TaskKinds DEF WinTypes
    <3>3. /\ \A l \in Labels : (Open(l) => Remains(l)) /\ (Open(l)' => Open(l))
          /\ \A l \in Labels \ {Home} : screen'[l] = screen[l]
      BY <3>1, HomeShown, ServedFact DEF WinTypes
    <3>4. odd'.ghosts = odd.ghosts /\ odd'.mixed = odd.mixed
      BY <3>1, CrossedNot
    <3> QED
      BY <3>1, <3>2, <3>3, <3>4, LabelFacts, HeardHome DEF Quiet, Remains, Goes
  <2>8. CASE Mirror
    BY <2>8, MirrorEffect, QuietTasks
  <2>9. CASE Wake
    <3>1. UNCHANGED <<screen, reg, key>>
      BY <2>9 DEF Wake
    <3>2. \A u \in Jobs : task'[u] = task[u]
      BY <2>9, WakeEffect, TaskKinds DEF Alone
    <3> QED
      BY <2>9, <3>1, <3>2, WakeTypes, QuietTasks
  <2>10. CASE Retitle
    <3>1. \A u \in Jobs : Goes(u)
      BY <2>10, RetitleEffect, TaskKinds
    <3>2. key' = key
      BY <2>10 DEF Retitle
    <3> QED
      BY <2>10, <3>1, <3>2, RetitleShown, LabelFacts DEF Quiet, Goes
  <2>11. CASE TogglePalette \/ OpenPreferences \/ \E f \in Files : Rename(f)
    <3>1. UNCHANGED <<task, screen, reg, key, odd>>
      BY <2>11 DEF TogglePalette, OpenPreferences, Rename
    <3> QED
      BY <3>1, QuietTasks
  <2> QED
    BY <1>2, <2>1, <2>2, <2>3, <2>4, <2>5, <2>6, <2>7, <2>8, <2>9, <2>10, <2>11 DEF Besides, Moves
<1>3. CASE UNCHANGED allvars
  BY <1>3, QuietTasks DEF allvars, wvars
<1> QED
  BY <1>1, <1>2, <1>3, WindowsSteps

-----------------------------------------------------------------------------
(* The jobs, and the windows they build. *)

LEMMA MovesFrame ==
  ASSUME WinTypes, TypeOK, JobsOK, NEW t \in Jobs, Moves(t)
  PROVE  /\ t \in Tasks /\ task[t].file \in Labels /\ task[t].title \in Nat
         /\ \A u \in Jobs \ {t} : task'[u].pc = task[u].pc /\ Kin(task'[u], task[u])
         /\ odd'.ghosts = odd.ghosts /\ odd'.mixed = odd.mixed
         /\ \A l \in Labels : (Build(t) /\ ~Open(task[t].file) /\ l = task[t].file) \/ screen'[l] = screen[l]
         /\ \A l \in Labels : (Insert(t) /\ l = task[t].file) \/ reg'[l] = reg[l]
<1>0. t \in Tasks /\ task[t].file \in Labels /\ task[t].title \in Nat
  BY TaskKinds DEF WinTypes, TaskOK, TaskRec
<1>1. CASE Asked(t)
  <2>1. UNCHANGED <<screen, reg, odd>>
    BY <1>1 DEF Asked, ByDocument, ByFolder, ByRecent, ByNew, Beforehand
  <2> QED
    BY <1>0, <1>1, <2>1, AskedTypes, TaskKinds DEF Kin
<1>2. CASE Create(t)
  BY <1>0, <1>2, CreateEffect, TaskKinds DEF Create, Alone, Kin
<1>3. CASE Decide(t)
  BY <1>0, <1>3, DecideEffect, TaskKinds DEF Decide, Alone, Kin, Goes
<1>4. CASE Build(t)
  <2>1. UNCHANGED <<reg, odd>>
    BY <1>4 DEF Build
  <2> QED
    BY <1>0, <1>4, <2>1, BuildEffect, BuildShown, TaskKinds DEF Alone, Kin
<1>5. CASE Insert(t)
  <2>1. task[t].file \in Files
    BY <1>5 DEF JobsOK, Began, Insert
  <2> QED
    BY <1>0, <1>5, <2>1, InsertEffect, InsertShown, TaskKinds DEF Goes
<1>6. CASE Record(t)
  BY <1>0, <1>6, RecordEffect, TaskKinds DEF Record, Alone, Kin
<1>7. CASE Draw(t)
  BY <1>0, <1>7, DrawEffect, TaskKinds DEF Draw, Alone, Kin
<1>8. CASE SetMenu(t)
  <2>1. odd'.ghosts = odd.ghosts /\ odd'.mixed = odd.mixed
    BY <1>8 DEF SetMenu, WinTypes, OddOK
  <2> QED
    BY <1>0, <1>8, <2>1, SetEffect, TaskKinds DEF SetMenu, Alone, Kin
<1> QED
  BY <1>1, <1>2, <1>3, <1>4, <1>5, <1>6, <1>7, <1>8 DEF Moves

\* Where a job goes, and what it takes along.
LEMMA MovesOn ==
  ASSUME WinTypes, TypeOK, JobsOK, ListOK, NEW t \in Jobs, Moves(t)
  PROVE  \/ task[t].pc = "idle" /\ task'[t].pc = "decide" /\ task'[t].file \in Files
         \/ task[t].pc = "idle" /\ task'[t].pc \in {"call", "end"} /\ ~task'[t].due
         \/ task[t].pc = "call" /\ task'[t].pc = "decide" /\ task'[t].file \in Files
         \/ task[t].pc = "call" /\ task'[t].pc = "end" /\ ~task'[t].due
         \/ /\ task[t].pc = "decide" /\ task'[t].pc = "record" /\ Kin(task'[t], task[t])
            /\ Open(task[t].file) \/ task[t].file \in odd.ghosts
         \/ /\ task[t].pc = "decide" /\ task'[t].pc \in {"build", "record"}
            /\ task'[t].file = task[t].file /\ (task'[t].pc = "record" => ~task'[t].due)
         \/ task[t].pc = "build" /\ task'[t].pc \in {"record", "end"} /\ Open(task[t].file) /\ Kin(task'[t], task[t])
         \/ task[t].pc = "build" /\ task'[t].pc = "insert" /\ Build(t) /\ ~Open(task[t].file) /\ Kin(task'[t], task[t])
         \/ task[t].pc = "insert" /\ task'[t].pc = "draw" /\ Insert(t) /\ Kin(task'[t], task[t])
         \/ task[t].pc = "draw" /\ task'[t].pc = "set" /\ Kin(task'[t], task[t])
         \/ task[t].pc = "set" /\ task'[t].pc = "record" /\ Kin(task'[t], task[t])
         \/ task[t].pc = "record" /\ task'[t].pc = "end" /\ Kin(task'[t], task[t])
<1>0. t \in Tasks /\ task[t].file \in Labels
  BY MovesFrame
<1>1. CASE Asked(t)
  BY <1>1, AskedTypes DEF JobsOK
<1>2. CASE Create(t)
  BY <1>2, CreateEffect DEF JobsOK, Kin
<1>3. CASE Decide(t)
  <2>1. reg[task[t].file] # None => Open(task[t].file) \/ task[t].file \in odd.ghosts
    BY <1>0 DEF ListOK
  <2> QED
    BY <1>3, <2>1, DecideEffect
<1>4. CASE Build(t)
  BY <1>4, BuildEffect
<1>5. CASE Insert(t)
  BY <1>5, InsertEffect
<1>6. CASE Record(t)
  BY <1>6, RecordEffect
<1>7. CASE Draw(t)
  BY <1>0, <1>7, DrawEffect
<1>8. CASE SetMenu(t)
  BY <1>0, <1>8, SetEffect
<1> QED
  BY <1>1, <1>2, <1>3, <1>4, <1>5, <1>6, <1>7, <1>8 DEF Moves

LEMMA JobsStep ==
  ASSUME WinTypes, TypeOK, ScOK, JobsOK, ListOK, [WindowsNext]_allvars
  PROVE  JobsOK'
<1>0. Jobs' = Jobs /\ Files' = Files /\ \A t \in Jobs : task[t].file \in Labels /\ t \in Tasks
  BY StaticWindows, TaskKinds, LabelFacts DEF WinTypes, TaskOK, TaskRec
<1> DEFINE seen(t) == screen'[task'[t].file] # None \/ task'[t].file \in odd'.ghosts
<1> DEFINE fine(t) == /\ task'[t].pc \in Began => task'[t].file \in Files
                      /\ task'[t].pc \in {"idle", "call"} => ~task'[t].due
                      /\ task'[t].pc \in Shown /\ task'[t].due /\ ~task'[t].gone => seen(t)
<1> SUFFICES ASSUME NEW u \in Jobs PROVE fine(u)
  BY <1>0 DEF JobsOK, Open, Began, Shown
<1>1. CASE Quiet
  <2>1. task'[u].pc = task[u].pc /\ Kin(task'[u], task[u])
    BY <1>1 DEF Quiet
  <2>2. \A l \in Labels : screen'[l] # None <=> screen[l] # None
    BY <1>1 DEF Quiet, Open
  <2> QED
    BY <1>0, <1>1, <2>1, <2>2 DEF Quiet, JobsOK, Kin, Open
<1>2. ASSUME NEW l \in Labels, Close(l)
      PROVE  fine(u)
  <2>1. /\ task'[u].pc = task[u].pc /\ task'[u].file = task[u].file /\ task'[u].due = task[u].due
        /\ ~task'[u].gone => ~task[u].gone /\ task[u].file # l
    BY <1>0, <1>2, CloseEffect
  <2>2. odd.ghosts \subseteq odd'.ghosts /\ \A m \in Labels \ {l} : screen'[m] = screen[m]
    BY <1>2, CloseShown
  <2> QED
    BY <1>0, <2>1, <2>2 DEF JobsOK, Open
<1>3. ASSUME NEW t \in Jobs, Moves(t)
      PROVE  fine(u)
  <2>1. odd'.ghosts = odd.ghosts /\ \A l \in Labels : screen[l] # None => screen'[l] # None
    BY <1>3, MovesFrame DEF Open
  <2>2. CASE u # t
    <3>1. task'[u].pc = task[u].pc /\ Kin(task'[u], task[u])
      BY <1>3, <2>2, MovesFrame
    <3> QED
      BY <1>0, <2>1, <3>1 DEF JobsOK, Kin, Open
  <2>3. CASE u = t
    <3>1. Build(t) /\ ~Open(task[t].file) => screen'[task[t].file] # None
      BY <1>3, BuildShown, BuildEffect DEF Open, Kin
    <3> QED
      BY <1>0, <1>3, <2>1, <2>3, <3>1, MovesOn DEF JobsOK, Kin, Open, Began, Shown
  <2> QED
    BY <2>2, <2>3
<1> QED
  BY <1>1, <1>2, <1>3, QuietSteps

LEMMA BuiltStep ==
  ASSUME WinTypes, TypeOK, ScOK, JobsOK, BuiltOK, ListOK, [WindowsNext]_allvars
  PROVE  BuiltOK'
<1>0. Jobs' = Jobs /\ Files' = Files /\ \A t \in Jobs : task[t].file \in Labels /\ t \in Tasks
  BY StaticWindows, TaskKinds, LabelFacts DEF WinTypes, TaskOK, TaskRec
<1> DEFINE good(t) == /\ screen'[task'[t].file] # None
                      /\ \A u \in Jobs \ {t} : task'[u].pc = "insert" => task'[u].file # task'[t].file
                      /\ task'[t].file \notin odd'.mixed => screen'[task'[t].file].title = task'[t].title
<1> SUFFICES ASSUME NEW t \in Jobs, task'[t].pc = "insert", task'[t].file \notin odd'.ghosts
             PROVE  good(t)
  BY <1>0 DEF BuiltOK, Open
<1> DEFINE f == task[t].file
<1>1. ASSUME task[t].pc = "insert"
      PROVE  f \in Files /\ f \in Labels /\ ~Heard(f)
  BY <1>0, <1>1 DEF JobsOK, Began, Heard
<1>2. CASE Quiet
  <2>1. \A u \in Jobs : task'[u].pc = task[u].pc /\ task'[u].file = task[u].file /\ task'[u].title = task[u].title
    BY <1>2 DEF Quiet, Kin
  <2>2. f \notin odd.ghosts /\ task[t].pc = "insert" /\ (f \notin odd'.mixed => f \notin odd.mixed)
    BY <1>2, <2>1 DEF Quiet
  <2>3. /\ Open(f) /\ \A u \in Jobs \ {t} : task[u].pc = "insert" => task[u].file # f
        /\ f \notin odd.mixed => screen[f].title = task[t].title
    BY <2>2 DEF BuiltOK
  <2>4. screen'[f] # None
    BY <1>1, <1>2, <2>2, <2>3 DEF Quiet, Open
  <2>5. f \notin odd'.mixed => screen'[f].title = screen[f].title
    <3>1. CASE ~Retitle
      BY <1>1, <1>2, <2>2, <2>3, <3>1 DEF Quiet
    <3>2. CASE Retitle
      <4>1. reg[f] = None
        BY <1>1, <2>2 DEF ListOK
      <4>2. f \notin Due => screen'[f] = screen[f]
        BY <1>1, <2>2, <3>2, RetitleShown
      <4>3. f \in Due => f \in odd'.mixed
        BY <2>3, <3>2, <4>1, RetitleShown
      <4> QED
        BY <4>2, <4>3
    <3> QED
      BY <3>1, <3>2
  <2> HIDE DEF f
  <2>6. task'[t].file = f
    BY <2>1 DEF f
  <2> QED
    BY <2>1, <2>2, <2>3, <2>4, <2>5, <2>6
<1>3. ASSUME NEW l \in Labels, Close(l)
      PROVE  good(t)
  <2>1. \A u \in Jobs : task'[u].pc = task[u].pc /\ task'[u].file = task[u].file /\ task'[u].title = task[u].title
    BY <1>0, <1>3, CloseEffect
  <2>2. task[t].pc = "insert" /\ ~Heard(f) /\ f \in Labels
    BY <1>1, <2>1
  <2>3. f # l
    BY <1>3, <2>1, <2>2, CloseShown
  <2>4. f \notin odd.ghosts /\ (f \notin odd'.mixed => f \notin odd.mixed) /\ screen'[f] = screen[f]
    BY <1>3, <2>1, <2>2, <2>3, CloseShown
  <2>5. /\ Open(f) /\ \A u \in Jobs \ {t} : task[u].pc = "insert" => task[u].file # f
        /\ f \notin odd.mixed => screen[f].title = task[t].title
    BY <2>2, <2>4 DEF BuiltOK
  <2> HIDE DEF f
  <2>6. task'[t].file = f
    BY <2>1 DEF f
  <2> QED
    BY <2>1, <2>2, <2>4, <2>5, <2>6 DEF Open
<1>4. ASSUME NEW j \in Jobs, Moves(j)
      PROVE  good(t)
  <2>1. /\ odd'.ghosts = odd.ghosts /\ odd'.mixed = odd.mixed
        /\ \A u \in Jobs \ {j} : task'[u].pc = task[u].pc /\ Kin(task'[u], task[u])
    BY <1>4, MovesFrame
  <2>2. task'[j].pc = "insert" => /\ Build(j) /\ ~Open(task[j].file) /\ Kin(task'[j], task[j])
    BY <1>4, MovesOn
  <2>3. CASE t = j
    <3>1. Build(t) /\ ~Open(f) /\ task'[t].file = f /\ task'[t].title = task[t].title
      BY <2>2, <2>3 DEF Kin
    <3>2. screen'[f] # None /\ screen'[f].title = task[t].title
      BY <3>1, BuildShown DEF Open
    <3>3. ASSUME NEW u \in Jobs \ {t}, task'[u].pc = "insert"
          PROVE  task'[u].file # f
      <4>1. task[u].pc = "insert" /\ task'[u].file = task[u].file
        BY <2>1, <2>3, <3>3 DEF Kin
      <4>2. f \notin odd.ghosts
        BY <2>1, <3>1
      <4> QED
        BY <3>1, <4>1, <4>2 DEF BuiltOK
    <3> QED
      BY <3>1, <3>2, <3>3
  <2>4. CASE t # j
    <3>1. task[t].pc = "insert" /\ task'[t].file = f /\ task'[t].title = task[t].title /\ f \notin odd.ghosts
      BY <2>1, <2>4 DEF Kin
    <3>2. /\ Open(f) /\ \A u \in Jobs \ {t} : task[u].pc = "insert" => task[u].file # f
          /\ f \notin odd.mixed => screen[f].title = task[t].title
      BY <3>1 DEF BuiltOK
    <3>3. screen'[f] = screen[f]
      BY <1>0, <1>4, <3>2, MovesFrame
    <3>4. ASSUME NEW u \in Jobs \ {t}, task'[u].pc = "insert"
          PROVE  task'[u].file # f
      <4>1. CASE u = j
        BY <2>2, <3>2, <3>4, <4>1 DEF Kin
      <4>2. CASE u # j
        BY <2>1, <3>2, <3>4, <4>2 DEF Kin
      <4> QED
        BY <4>1, <4>2
    <3> QED
      BY <2>1, <3>1, <3>2, <3>3, <3>4 DEF Open
  <2> QED
    BY <2>3, <2>4
<1> QED
  BY <1>2, <1>3, <1>4, QuietSteps

-----------------------------------------------------------------------------
(* The registry against the screen. *)

LEMMA HeardSame ==
  ASSUME Jobs' = Jobs, \A u \in Jobs : task'[u].pc = task[u].pc /\ task'[u].file = task[u].file, NEW l
  PROVE  Heard(l)' <=> Heard(l)
BY DEF Heard

\* Only a job that builds or registers a window changes who is heard.
LEMMA HeardMoves ==
  ASSUME WinTypes, TypeOK, JobsOK, BuiltOK, ListOK, Jobs' = Jobs, NEW t \in Jobs, Moves(t), NEW l \in Labels
  PROVE  /\ l # task[t].file => (Heard(l)' <=> Heard(l))
         /\ ~Insert(t) => (Heard(l)' => Heard(l))
         /\ ~Build(t) \/ Open(task[t].file) => (Heard(l) => Heard(l)')
         /\ Insert(t) /\ l \notin odd.ghosts /\ l = task[t].file => Heard(l)'
<1>1. \A u \in Jobs \ {t} : task'[u].pc = task[u].pc /\ task'[u].file = task[u].file
  BY MovesFrame DEF Kin
<1>2. task'[t].pc = "insert" => Build(t) /\ ~Open(task[t].file) /\ task'[t].file = task[t].file
  BY MovesOn DEF Kin
<1>3. task[t].pc = "insert" => Insert(t) /\ task'[t].pc = "draw"
  BY MovesOn
<1>4. ASSUME Insert(t), l \notin odd.ghosts, l = task[t].file
      PROVE  Heard(l)'
  <2>1. task[t].pc = "insert"
    BY <1>4 DEF Insert
  <2>2. \A u \in Jobs \ {t} : task[u].pc = "insert" => task[u].file # l
    BY <1>4, <2>1 DEF BuiltOK
  <2>3. task'[t].pc # "insert"
    BY <1>3, <2>1
  <2> QED
    BY <1>1, <2>2, <2>3 DEF Heard
<1> QED
  BY <1>1, <1>2, <1>3, <1>4 DEF Heard

\* The five parts of the registry's account, of one label.
ListFine(l) ==
  /\ Open(l)' /\ Heard(l)' => reg'[l] # None
  /\ l \notin odd'.ghosts /\ reg'[l] # None => Open(l)' /\ Heard(l)'
  /\ l \in Files /\ Open(l)' => screen'[l].page # "home"
  /\ l \in Files /\ l \notin odd'.ghosts \cup odd'.mixed /\ Open(l)' /\ reg'[l] # None =>
       screen'[l].title = reg'[l]

LEMMA ListWas ==
  ASSUME ListOK, NEW l \in Labels
  PROVE  /\ Open(l) /\ Heard(l) => reg[l] # None
         /\ l \notin odd.ghosts /\ reg[l] # None => Open(l) /\ Heard(l)
         /\ l \in Files /\ Open(l) => screen[l].page # "home"
         /\ l \in Files /\ l \notin odd.ghosts \cup odd.mixed /\ Open(l) /\ reg[l] # None =>
              screen[l].title = reg[l]
BY DEF ListOK

LEMMA ListNow ==
  ASSUME \A l \in Labels : ListFine(l), key' = None \/ (key' \in Labels /\ reg'[key'] # None)
  PROVE  ListOK'
<1>1. /\ \A l \in Labels : Open(l)' /\ Heard(l)' => reg'[l] # None
      /\ \A l \in Labels : l \notin odd'.ghosts /\ reg'[l] # None => Open(l)' /\ Heard(l)'
      /\ \A l \in Files : Open(l)' => screen'[l].page # "home"
      /\ \A l \in Files : l \notin odd'.ghosts \cup odd'.mixed /\ Open(l)' /\ reg'[l] # None =>
            screen'[l].title = reg'[l]
  BY LabelFacts DEF ListFine
<1>2. Labels' = Labels /\ Files' = Files
  BY LabelFacts
<1> QED
  BY <1>1, <1>2 DEF ListOK, Listed

LEMMA ListQuiet ==
  ASSUME WinTypes, TypeOK, JobsOK, ListOK, Jobs' = Jobs, Quiet, NEW l \in Labels
  PROVE  ListFine(l) /\ (reg[l] # None => reg'[l] # None)
<1>1. (Heard(l)' <=> Heard(l)) /\ (Open(l)' <=> Open(l))
  BY HeardSame DEF Quiet, Kin
<1>2. /\ l \notin odd'.ghosts => l \notin odd.ghosts
      /\ l \notin odd'.mixed => l \notin odd.mixed
      /\ l \in Files /\ Open(l) /\ screen[l].page # "home" => screen'[l].page # "home"
  BY DEF Quiet
<1>3. CASE ~Retitle
  <2>1. reg'[l] = reg[l] /\ (Open(l) => screen'[l].title = screen[l].title)
    BY <1>3 DEF Quiet
  <2> QED
    BY <1>1, <1>2, <2>1, ListWas DEF ListFine
<1>4. CASE Retitle
  <2>1. CASE l \notin Due
    <3>1. reg'[l] = reg[l] /\ screen'[l] = screen[l]
      BY <1>4, <2>1, RetitleShown
    <3> QED
      BY <1>1, <1>2, <3>1, ListWas DEF ListFine
  <2>2. CASE l \in Due
    <3> DEFINE n == NewTitle(task[Watch].ups, l)
    <3>1. /\ Open(l) => screen'[l].title = n
          /\ reg'[l] = n \/ (reg[l] = None /\ reg'[l] = None)
          /\ reg[l] = None /\ reg'[l] # None => l \in odd'.ghosts
          /\ reg[l] # None => reg'[l] # None
      BY <1>4, <2>2, RetitleShown
    <3> HIDE DEF n
    <3> QED
      BY <1>1, <1>2, <3>1, ListWas DEF ListFine
  <2> QED
    BY <2>1, <2>2
<1> QED
  BY <1>3, <1>4

LEMMA ListClose ==
  ASSUME WinTypes, ListOK, Jobs' = Jobs, NEW m \in Labels, Close(m), NEW l \in Labels
  PROVE  ListFine(l)
<1>1. Heard(l)' <=> Heard(l)
  BY CloseEffect, HeardSame, TaskKinds
<1>2. CASE l # m
  <2>1. screen'[l] = screen[l] /\ reg'[l] = reg[l] /\ (l \notin odd'.ghosts => l \notin odd.ghosts)
        /\ (l \notin odd'.mixed => l \notin odd.mixed)
    BY <1>2, CloseShown
  <2>2. Open(l)' <=> Open(l)
    BY <2>1 DEF Open
  <2> QED
    BY <1>1, <2>1, <2>2, ListWas DEF ListFine
<1>3. CASE l = m
  BY <1>1, <1>3, CloseShown, ListWas DEF ListFine
<1> QED
  BY <1>2, <1>3

LEMMA ListMoves ==
  ASSUME WinTypes, TypeOK, JobsOK, BuiltOK, ListOK, Jobs' = Jobs, NEW t \in Jobs, Moves(t), NEW l \in Labels
  PROVE  ListFine(l)
<1>0. odd'.ghosts = odd.ghosts /\ odd'.mixed = odd.mixed
  BY MovesFrame
<1>1. CASE Build(t) /\ ~Open(task[t].file) /\ l = task[t].file
  <2>1. Open(l)' /\ screen'[l].page = "file" /\ ~Heard(l)' /\ ~Insert(t)
    <3>1. task'[t].pc = "insert" /\ task'[t].file = l
      BY <1>1, BuildEffect DEF Kin
    <3>2. screen'[l] # None /\ screen'[l].page = "file"
      BY <1>1, <3>1, BuildShown DEF Open
    <3>3. ~Insert(t)
      BY <1>1 DEF Build, Insert
    <3> QED
      BY <3>1, <3>2, <3>3 DEF Open, Heard
  <2>2. reg'[l] = reg[l]
    BY <2>1, MovesFrame
  <2> QED
    BY <1>0, <1>1, <2>1, <2>2, ListWas DEF ListFine
<1>2. CASE Insert(t) /\ l = task[t].file
  <2>1. task[t].pc = "insert" /\ l \in Files
    BY <1>2 DEF Insert, JobsOK, Began
  <2>2. reg'[l] # None /\ reg'[l] = task[t].title /\ screen' = screen
    BY <1>2, <2>1, InsertShown
  <2>3. l \notin odd.ghosts => Open(l) /\ (l \notin odd.mixed => screen[l].title = task[t].title)
    BY <1>2, <2>1 DEF BuiltOK
  <2>4. l \notin odd.ghosts => Heard(l)'
    BY <1>2, HeardMoves
  <2>5. Open(l)' <=> Open(l)
    BY <2>2 DEF Open
  <2> QED
    BY <1>0, <2>1, <2>2, <2>3, <2>4, <2>5, ListWas DEF ListFine
<1>3. CASE ~(Build(t) /\ ~Open(task[t].file) /\ l = task[t].file) /\ ~(Insert(t) /\ l = task[t].file)
  <2>1. screen'[l] = screen[l] /\ reg'[l] = reg[l]
    BY <1>3, MovesFrame
  <2>2. Heard(l)' <=> Heard(l)
    BY <1>3, HeardMoves
  <2>3. Open(l)' <=> Open(l)
    BY <2>1 DEF Open
  <2> QED
    BY <1>0, <2>1, <2>2, <2>3, ListWas DEF ListFine
<1> QED
  BY <1>1, <1>2, <1>3

LEMMA ListStep ==
  ASSUME WinTypes, TypeOK, ScOK, JobsOK, BuiltOK, ListOK, [WindowsNext]_allvars
  PROVE  ListOK'
<1>0. Jobs' = Jobs
  BY StaticWindows DEF WinTypes
<1>1. key = None \/ (key \in Labels /\ reg[key] # None)
  BY DEF ListOK, Listed
<1>2. CASE Quiet
  <2>1. \A l \in Labels : ListFine(l) /\ (reg[l] # None => reg'[l] # None)
    BY <1>0, <1>2, ListQuiet
  <2>2. key' = key \/ \E l \in Labels : key' = l /\ reg[l] # None
    BY <1>2, ListWas DEF Quiet
  <2> QED
    BY <1>1, <2>1, <2>2, ListNow
<1>3. ASSUME NEW m \in Labels, Close(m)
      PROVE  ListOK'
  <2>1. \A l \in Labels : ListFine(l)
    BY <1>0, <1>3, ListClose
  <2>2. key' = None \/ (key' \in Labels /\ reg'[key'] # None)
    BY <1>1, <1>3, CloseShown
  <2> QED
    BY <2>1, <2>2, ListNow
<1>4. ASSUME NEW t \in Jobs, Moves(t)
      PROVE  ListOK'
  <2>1. \A l \in Labels : ListFine(l)
    BY <1>0, <1>4, ListMoves
  <2>2. \A l \in Labels : reg[l] # None => reg'[l] # None
    <3>1. Insert(t) => task[t].file \in Files /\ reg'[task[t].file] # None
      BY InsertShown DEF Insert, JobsOK, Began
    <3> QED
      BY <1>4, <3>1, MovesFrame
  <2>3. key' = key \/ (key' \in Labels /\ reg'[key'] # None)
    <3>1. CASE Insert(t)
      <4>1. task[t].file \in Files
        BY <3>1 DEF Insert, JobsOK, Began
      <4>2. key' = task[t].file /\ reg'[task[t].file] = task[t].title /\ task[t].title # None
        BY <3>1, <4>1, InsertShown
      <4> QED
        BY <4>1, <4>2, LabelFacts
    <3>2. CASE Decide(t)
      <4>1. key' = key \/ (key' = task[t].file /\ reg[task[t].file] # None)
        BY <3>2 DEF Decide
      <4> QED
        BY <1>4, <2>2, <4>1, MovesFrame
    <3>3. CASE ~Insert(t) /\ ~Decide(t)
      BY <1>4, <3>3 DEF Moves, Asked, ByDocument, ByFolder, ByRecent, ByNew, Beforehand, Create, Build,
                        Record, Draw, SetMenu
    <3> QED
      BY <3>1, <3>2, <3>3
  <2> QED
    BY <1>1, <2>1, <2>2, <2>3, ListNow
<1> QED
  BY <1>2, <1>3, <1>4, QuietSteps

-----------------------------------------------------------------------------
(* The menu on display against the registry. *)

\* A task that has read the registry was there before, and no draw ends.
Undrawn(u) ==
  /\ task'[u].pc = "set" /\ task'[u].clean => task[u].pc = "set" /\ task[u].clean /\ task'[u].snap = task[u].snap
  /\ Drawing(u) => task'[u].pc \in {"draw", "set"}

LEMMA DrawStill ==
  ASSUME DrawOK, Tasks' = Tasks, UNCHANGED <<reg, key, bar>>, odd'.crossed = odd.crossed,
         \A u \in Tasks : Undrawn(u)
  PROVE  DrawOK'
<1>1. \A t \in Tasks : task'[t].pc = "set" /\ task'[t].clean => task'[t].snap.reg = reg' /\ task'[t].snap.key = key'
  BY DEF DrawOK, Undrawn
<1>2. (\A t \in Tasks : ~Drawing(t)') /\ ~odd'.crossed => bar'.reg = reg' /\ bar'.key = key'
  BY DEF DrawOK, MenuTells, Undrawn, Drawing
<1> QED
  BY <1>1, <1>2 DEF DrawOK, MenuTells

\* The same tasks, but for one that neither draws nor ends a draw.
LEMMA DrawAlone ==
  ASSUME DrawOK, Tasks' = Tasks, UNCHANGED <<reg, key, bar>>, odd'.crossed = odd.crossed,
         NEW t \in Tasks, \A u \in Tasks \ {t} : task'[u] = task[u],
         ~Drawing(t), task'[t].pc # "set"
  PROVE  DrawOK'
<1>1. \A u \in Tasks : Undrawn(u)
  BY DEF Undrawn, Drawing
<1> QED
  BY <1>1, DrawStill

\* All that has read the registry is overtaken.
LEMMA DrawDirty ==
  ASSUME DrawOK, Tasks' = Tasks, Dirty,
         \/ \E t \in Tasks : task'[t].pc = "draw"
         \/ bar'.reg = reg' /\ bar'.key = key'
         \/ /\ UNCHANGED <<reg, key, bar>> /\ odd'.crossed = odd.crossed
            /\ \A u \in Tasks : Drawing(u) => task'[u].pc \in {"draw", "set"}
  PROVE  DrawOK'
<1>1. \A t \in Tasks : task'[t].pc = "set" /\ task'[t].clean => task'[t].snap.reg = reg' /\ task'[t].snap.key = key'
  BY DEF Dirty
<1>2. (\A t \in Tasks : ~Drawing(t)') /\ ~odd'.crossed => bar'.reg = reg' /\ bar'.key = key'
  BY DEF DrawOK, MenuTells, Drawing
<1> QED
  BY <1>1, <1>2 DEF DrawOK, MenuTells

LEMMA DrawStep ==
  ASSUME WinTypes, TypeOK, ScOK, JobsOK, DrawOK, [WindowsNext]_allvars
  PROVE  DrawOK'
<1>0. Tasks' = Tasks /\ Jobs \subseteq Tasks /\ Tails \subseteq Tasks /\ Watch \in Tasks
  BY StaticWindows, TaskKinds DEF WinTypes
<1>1. CASE Shells /\ Beside
  <2>1. UNCHANGED <<reg, key, bar, odd>>
    BY <1>1 DEF Beside
  <2>2. \A u \in Tasks : task'[u] = task[u] \/ task'[u].pc = "draw"
    BY <1>1, BesideEffect
  <2>3. \A u \in Tasks : Undrawn(u)
    BY <2>2 DEF Undrawn, Drawing
  <2> QED
    BY <1>0, <2>1, <2>3, DrawStill
<1>2. CASE UNCHANGED <<task, reg, key, bar>> /\ odd'.crossed = odd.crossed
  <2>1. \A u \in Tasks : Undrawn(u)
    BY <1>2 DEF Undrawn, Drawing
  <2> QED
    BY <1>0, <1>2, <2>1, DrawStill
<1>3. ASSUME NEW t \in Jobs, Asked(t) \/ Create(t) \/ Build(t) \/ Record(t) \/ (Decide(t) /\ reg[task[t].file] = None)
      PROVE  DrawOK'
  <2>1. UNCHANGED <<reg, key, bar>> /\ odd' = odd
    BY <1>3 DEF Asked, ByDocument, ByFolder, ByRecent, ByNew, Beforehand, Create, Build, Record, Decide
  <2>2. \A u \in Tasks \ {t} : task'[u] = task[u]
    BY <1>3, AskedTypes, CreateEffect, BuildEffect, RecordEffect, DecideEffect DEF Alone
  <2>3. task[t].pc \in {"idle", "call", "build", "record", "decide"} /\ task'[t].pc # "set"
    BY <1>3, AskedTypes, CreateEffect, BuildEffect, RecordEffect, DecideEffect
  <2> QED
    BY <1>0, <2>1, <2>2, <2>3, DrawAlone DEF Drawing
<1>4. ASSUME NEW t \in Jobs, Decide(t), reg[task[t].file] # None
      PROVE  DrawOK'
  <2>1. Dirty /\ (\A u \in Tasks \ {t} : Goes(u)) /\ task[t].pc = "decide"
    BY <1>4, DecideEffect
  <2>2. \A u \in Tasks : Drawing(u) => task'[u].pc \in {"draw", "set"}
    BY <2>1 DEF Goes, Drawing
  <2>3. reg' = reg /\ odd' = odd
    BY <1>4 DEF Decide
  <2>4. (bar'.reg = reg' /\ bar'.key = key') \/ UNCHANGED <<key, bar>>
    BY <1>4, <2>3 DEF Decide, Now
  <2> QED
    BY <1>0, <2>1, <2>2, <2>3, <2>4, DrawDirty
<1>5. ASSUME NEW t \in Jobs, Insert(t)
      PROVE  DrawOK'
  BY <1>0, <1>5, InsertEffect, DrawDirty
<1>6. ASSUME NEW t \in Tasks, Draw(t)
      PROVE  DrawOK'
  <2>1. UNCHANGED <<reg, key, bar>> /\ odd' = odd
    BY <1>6 DEF Draw
  <2>2. /\ \A u \in Tasks \ {t} : task'[u] = task[u]
        /\ task'[t].pc = "set" /\ task'[t].snap.reg = reg /\ task'[t].snap.key = key
    BY <1>6, DrawEffect DEF Alone
  <2>3. \A u \in Tasks : task'[u].pc = "set" /\ task'[u].clean => task'[u].snap.reg = reg' /\ task'[u].snap.key = key'
    BY <2>1, <2>2 DEF DrawOK
  <2>4. Drawing(t)'
    BY <2>2 DEF Drawing
  <2> QED
    BY <1>0, <2>3, <2>4 DEF DrawOK, MenuTells
<1>7. ASSUME NEW t \in Tasks, SetMenu(t)
      PROVE  DrawOK'
  <2>1. UNCHANGED <<reg, key>> /\ bar' = task[t].snap
    BY <1>7 DEF SetMenu
  <2>2. odd'.crossed = ~task[t].clean
    BY <1>7, Zenon DEF SetMenu, WinTypes, OddOK
  <2>3. /\ \A u \in Tasks \ {t} : task'[u] = task[u]
        /\ task[t].pc = "set" /\ task'[t].pc # "set"
    BY <1>7, SetEffect DEF Alone
  <2>4. task[t].clean => bar'.reg = reg' /\ bar'.key = key'
    BY <1>7, <2>1, <2>3 DEF DrawOK
  <2>5. \A u \in Tasks : task'[u].pc = "set" /\ task'[u].clean => task'[u].snap.reg = reg' /\ task'[u].snap.key = key'
    BY <2>1, <2>3 DEF DrawOK
  <2> QED
    BY <1>0, <2>2, <2>4, <2>5 DEF DrawOK, MenuTells
<1>8. ASSUME NEW t \in Tails, Load(t)
      PROVE  DrawOK'
  <2>1. UNCHANGED <<reg, key, bar, odd>>
    BY <1>8 DEF Load
  <2> QED
    BY <1>0, <1>8, <2>1, LoadEffect, DrawAlone DEF Alone, Drawing
<1>9. ASSUME NEW l \in Labels, Focus(l)
      PROVE  DrawOK'
  <2>1. UNCHANGED <<vars, reg>> /\ key' = l /\ bar' = [Now EXCEPT !.key = l] /\ task' = Overtake(task)
    BY <1>9 DEF Focus
  <2>2. Dirty
    BY <2>1, OvertakeAll DEF WinTypes
  <2>3. bar'.reg = reg' /\ bar'.key = key'
    BY <2>1 DEF Now
  <2> QED
    BY <1>0, <2>2, <2>3, DrawDirty
<1>10. ASSUME NEW l \in Labels, Close(l)
      PROVE  DrawOK'
  <2>1. Dirty /\ \A u \in Tasks : Drawing(u) => task'[u].pc \in {"draw", "set"}
    BY <1>10, CloseEffect DEF Drawing
  <2> QED
    BY <1>0, <1>10, <2>1, CloseShown, DrawDirty
<1>11. CASE NavigateHome
  <2>1. UNCHANGED <<vars, reg>> /\ key' = Home /\ bar' = [Now EXCEPT !.key = Home] /\ task' = Overtake(task)
    BY <1>11 DEF NavigateHome
  <2>2. Dirty
    BY <2>1, OvertakeAll DEF WinTypes
  <2>3. bar'.reg = reg' /\ bar'.key = key'
    BY <2>1 DEF Now
  <2> QED
    BY <1>0, <2>2, <2>3, DrawDirty
<1>12. CASE Wake
  <2>1. UNCHANGED <<reg, key, bar>>
    BY <1>12 DEF Wake
  <2> QED
    BY <1>0, <1>12, <2>1, WakeEffect, WakeTypes, DrawAlone DEF Alone, Drawing
<1>13. CASE Retitle
  BY <1>0, <1>13, RetitleEffect, DrawDirty
<1>14. CASE Besides
  <2>1. ASSUME NEW l \in Labels, Recover(l) \/ \E r \in Routes : Navigate(l, r)
        PROVE  UNCHANGED <<task, reg, key, bar>> /\ odd'.crossed = odd.crossed
    BY <2>1 DEF Recover, Navigate
  <2>2. ASSUME NEW f, Rename(f) \/ Export(f)
        PROVE  UNCHANGED <<task, reg, key, bar>> /\ odd'.crossed = odd.crossed
    BY <2>2 DEF Rename, Export
  <2>3. TogglePalette \/ OpenPreferences => UNCHANGED <<task, reg, key, bar>> /\ odd'.crossed = odd.crossed
    BY DEF TogglePalette, OpenPreferences
  <2>4. Mirror => UNCHANGED <<task, reg, key, bar>> /\ odd'.crossed = odd.crossed
    BY MirrorEffect
  <2> QED
    BY <1>2, <1>3, <1>4, <1>5, <1>6, <1>7, <1>8, <1>9, <1>10, <1>11, <1>12, <1>13, <1>14,
       <2>1, <2>2, <2>3, <2>4 DEF Besides
<1>15. CASE UNCHANGED allvars
  BY <1>2, <1>15 DEF allvars, wvars
<1> QED
  BY <1>1, <1>14, <1>15, WindowsSteps

-----------------------------------------------------------------------------
(* The watcher, and what it is owed. *)

LEMMA WatchingKept ==
  ASSUME ScOK, TypeOK, [Next]_vars, Watching
  PROVE  Watching'
<1>1. flow[0].pc = "end" /\ flow[0].got # 0 /\ 0 \in Flows
  BY Kinds DEF Watching
<1>2. flow'[0] = flow[0]
  <2>1. ASSUME NEW f \in Flows, Turning(f)
        PROVE  flow'[0] = flow[0]
    <3>1. f # 0
      BY <1>1, <2>1, Turns
    <3> QED
      BY <1>1, <2>1, <3>1, TurnsAlone
  <2> QED
    BY <1>1, <2>1, Stays
<1> QED
  BY <1>1, <1>2 DEF Watching

\* The stack between a step that takes it down and one that raises it.
LEMMA StackSteps ==
  ASSUME ScOK, TypeOK, [Next]_vars
  PROVE  \/ \E f \in Flows : BringUp(f)
         \/ ~stack'.up
         \/ stack'.up = stack.up /\ stack'.gen = stack.gen /\ stack'.era = stack.era /\ stack'.by = stack.by
<1>1. stack' = stack \/ Press \/ Save \/ \E f \in Flows : TakeDown(f) \/ BringUp(f) \/ Bind(f)
  BY DEF vars, Next, Begin, FlowStep, Picked, Bound, Facts, SetLive, Running, Publish,
    Forward, Sync, Arrive, AskStep, Answer, Stage, Swap, Poll, Call, Fetch, SaveAs
<1>2. stack \in [up : BOOLEAN, gen : Nat, vault : Vaults, era : Nat, paused : BOOLEAN, by : FlowKinds \cup {"boot"}]
  BY DEF TypeOK
<1>3. ASSUME NEW p \in BOOLEAN, stack' = [stack EXCEPT !.paused = p]
      PROVE  stack'.up = stack.up /\ stack'.gen = stack.gen /\ stack'.era = stack.era /\ stack'.by = stack.by
  <2>1. stack'.gen = stack.gen /\ stack'.era = stack.era /\ stack'.by = stack.by
    BY <1>2, <1>3
  <2>2. stack'.up = stack.up
    BY <1>2, <1>3, Zenon
  <2> QED
    BY <2>1, <2>2
<1>4. Press => stack' = stack \/ \E p \in BOOLEAN : stack' = [stack EXCEPT !.paused = p]
  BY DEF Press
<1>5. Save => stack' = stack \/ \E p \in BOOLEAN : stack' = [stack EXCEPT !.paused = p]
  BY DEF Save
<1>6. ASSUME NEW f \in Flows, Bind(f)
      PROVE  \E p \in BOOLEAN : stack' = [stack EXCEPT !.paused = p]
  <2> DEFINE p == stack.paused \/ (stack.up /\ bridge.want)
  <2>1. stack' = [stack EXCEPT !.paused = p]
    BY <1>6 DEF Bind
  <2>2. p \in BOOLEAN
    OBVIOUS
  <2> HIDE DEF p
  <2> QED
    BY <2>1, <2>2
<1>7. ASSUME NEW f \in Flows, TakeDown(f)
      PROVE  ~stack'.up
  <2> DEFINE e == IF FlowKind(f) = "reboot" THEN stack.era ELSE stack.era + 1
  <2>1. stack' = [stack EXCEPT !.up = FALSE, !.era = e]
    BY <1>7 DEF TakeDown
  <2> HIDE DEF e
  <2> QED
    BY <1>2, <2>1, Zenon
<1> QED
  BY <1>1, <1>3, <1>4, <1>5, <1>6, <1>7

LEMMA BridgeIn ==
  ASSUME ScOK, TypeOK, [Next]_vars, bridge.ctl # 0 => bridge.ctl \in bridge.fwd, stack.up => stack.gen # 0
  PROVE  /\ bridge'.ctl # 0 => bridge'.ctl \in bridge'.fwd
         /\ stack'.up => stack'.gen # 0
<1>1. bridge' = bridge \/ Press \/ \E f \in Flows : Bound(f)
  BY DEF vars, Next, Begin, FlowStep, Picked, TakeDown, BringUp, Bind, Facts, SetLive, Running, Publish,
    Save, Forward, Sync, Arrive, AskStep, Answer, Stage, Swap, Poll, Call, Fetch, SaveAs
<1>2. bridge \in [want : BOOLEAN, ctl : Nat, fwd : SUBSET (0 .. stack.gen)] /\ stack.gen \in Nat
  BY DEF TypeOK
<1>3. Press => bridge'.ctl = bridge.ctl /\ bridge'.fwd = bridge.fwd
  <2> DEFINE w == ~shown
  <2>1. Press => bridge' = [bridge EXCEPT !.want = w]
    BY DEF Press
  <2> HIDE DEF w
  <2> QED
    BY <1>2, <2>1
<1>4. ASSUME NEW f \in Flows, Bound(f)
      PROVE  bridge'.ctl = flow[f].got /\ flow[f].got \in bridge'.fwd
  BY <1>2, <1>4 DEF Bound
<1>5. ASSUME NEW f \in Flows, BringUp(f)
      PROVE  stack'.gen # 0
  <2>1. stack'.gen = stack.gen + 1
    BY <1>5 DEF BringUp, TypeOK
  <2> QED
    BY <1>2, <2>1
<1> QED
  BY <1>1, <1>3, <1>4, <1>5, StackSteps

\* Only the daemon that runs gets news, of a file of its vault.
NamesOne == \E f \in Files, n \in Nat : Named(f, n) /\ f[1] = stack.vault /\ UNCHANGED vars

LEMMA NewsSteps ==
  ASSUME WinTypes, TypeOK, [WindowsNext]_allvars
  PROVE  \/ UNCHANGED <<news, name>>
         \/ (Wake \/ Mirror) /\ UNCHANGED name
         \/ NamesOne
<1>1. CASE Shells /\ Beside
  BY <1>1 DEF Beside
<1>2. ASSUME NEW t \in Jobs, Export(t)
      PROVE  NamesOne
  BY <1>2, ExportEffect DEF Export, NamesOne
<1>3. ASSUME NEW f \in Files, Rename(f)
      PROVE  NamesOne
  <2>1. name[f] + 1 \in Nat
    BY DEF WinTypes, NameOK
  <2> QED
    BY <1>3, <2>1 DEF Rename, NamesOne
<1>4. ASSUME NEW t, \/ Asked(t) \/ Create(t) \/ Decide(t) \/ Build(t) \/ Insert(t) \/ Record(t)
                    \/ Draw(t) \/ SetMenu(t) \/ Load(t)
      PROVE  UNCHANGED <<news, name>>
  BY <1>4 DEF Asked, ByDocument, ByFolder, ByRecent, ByNew, Beforehand, Create, Decide, Build, Insert,
              Record, Draw, SetMenu, Load
<1>5. ASSUME NEW l, Focus(l) \/ Close(l) \/ Recover(l) \/ \E r \in Routes : Navigate(l, r)
      PROVE  UNCHANGED <<news, name>>
  BY <1>5 DEF Focus, Close, Recover, Navigate
<1>6. Retitle \/ NavigateHome \/ TogglePalette \/ OpenPreferences => UNCHANGED <<news, name>>
  BY DEF Retitle, NavigateHome, TogglePalette, OpenPreferences
<1>7. Wake \/ Mirror => name' = name
  BY DEF Wake, Mirror
<1>8. UNCHANGED allvars => UNCHANGED <<news, name>>
  BY DEF allvars, wvars
<1> QED
  BY <1>1, <1>2, <1>3, <1>4, <1>5, <1>6, <1>7, <1>8, WindowsSteps DEF Besides

\* The watcher works on by its own steps.
LEMMA WatchSteps ==
  ASSUME WinTypes, TypeOK, ScOK, [WindowsNext]_allvars
  PROVE  \/ Wake \/ Retitle \/ Draw(Watch) \/ SetMenu(Watch)
         \/ task'[Watch].pc = task[Watch].pc /\ task'[Watch].ups = task[Watch].ups
<1> DEFINE Same == task'[Watch].pc = task[Watch].pc /\ task'[Watch].ups = task[Watch].ups
<1>0. Watch \in Tasks /\ Watch \notin Jobs /\ Watch \notin Tails
  BY TaskKinds
<1>1. CASE Shells /\ Beside
  BY <1>0, <1>1, BesideEffect
<1>2. ASSUME NEW t \in Jobs, \/ Asked(t) \/ Create(t) \/ Decide(t) \/ Build(t) \/ Record(t)
      PROVE  Same
  BY <1>0, <1>2, AskedTypes, CreateEffect, DecideEffect, BuildEffect, RecordEffect DEF Alone, Goes
<1>3. ASSUME NEW t \in Jobs, Insert(t)
      PROVE  Same
  BY <1>0, <1>3, InsertEffect DEF Goes
<1>4. ASSUME NEW t \in Tasks \ {Watch}, Draw(t) \/ SetMenu(t) \/ (t \in Tails /\ Load(t))
      PROVE  Same
  BY <1>0, <1>4, DrawEffect, SetEffect, LoadEffect DEF Alone
<1>5. ASSUME NEW l \in Labels, Focus(l) \/ NavigateHome
      PROVE  Same
  <2>1. task' = Overtake(task) /\ UNCHANGED vars
    BY <1>5 DEF Focus, NavigateHome
  <2> QED
    BY <1>0, <2>1, OvertakeAll DEF WinTypes, Goes
<1>6. ASSUME NEW l \in Labels, Close(l)
      PROVE  Same
  BY <1>0, <1>6, CloseEffect
<1>7. ASSUME NEW l, Recover(l) \/ (\E r \in Routes : Navigate(l, r)) \/ Rename(l) \/ Export(l)
      PROVE  task' = task
  BY <1>7 DEF Recover, Navigate, Rename, Export
<1>8. Mirror \/ TogglePalette \/ OpenPreferences => task' = task
  BY DEF Mirror, TogglePalette, OpenPreferences
<1>9. UNCHANGED allvars => task' = task
  BY DEF allvars, wvars
<1>10. NavigateHome => Same
  BY <1>5, LabelFacts
<1>11. Besides => Same \/ Wake \/ Retitle \/ Draw(Watch) \/ SetMenu(Watch)
  BY <1>0, <1>2, <1>3, <1>4, <1>5, <1>6, <1>7, <1>8, <1>10, TaskKinds DEF Besides
<1> QED
  BY <1>1, <1>9, <1>11, WindowsSteps

LEMMA NewsStep ==
  ASSUME WinTypes, TypeOK, ScOK, NewsIn, [WindowsNext]_allvars
  PROVE  NewsIn'
<1>0. [Next]_vars
  BY WindowsMove
<1>1. Watching => Watching'
  BY <1>0, WatchingKept
<1>2. UNCHANGED vars => (Watching' <=> Watching)
  BY DEF vars, Watching
<1>3. (bridge'.ctl # 0 => bridge'.ctl \in bridge'.fwd) /\ (stack'.up => stack'.gen # 0)
  BY <1>0, BridgeIn DEF NewsIn
<1>4. ASSUME news'.tick, ~news.tick
      PROVE  Watching'
  <2>1. CASE Mirror
    BY <1>2, <1>4, <2>1, MirrorEffect
  <2>2. ASSUME NEW f \in Files, NEW n \in Nat, Named(f, n), UNCHANGED vars
        PROVE  FALSE
    BY <1>4, <2>2, NamedTypes
  <2>3. ~Wake
    BY <1>4 DEF Wake
  <2> QED
    BY <1>4, <2>1, <2>2, <2>3, NewsSteps DEF NamesOne
<1>5. ASSUME task'[Watch].pc # "idle", task[Watch].pc = "idle"
      PROVE  Wake
  BY <1>5, WatchSteps DEF Retitle, Draw, SetMenu
<1>6. Wake => Watching
  BY DEF Wake, NewsIn
<1>7. Watch' = Watch
  BY DEF Watch
<1>8. news'.tick \/ task'[Watch].pc # "idle" => Watching'
  BY <1>1, <1>4, <1>5, <1>6 DEF NewsIn
<1> QED
  BY <1>3, <1>7, <1>8 DEF NewsIn

\* What is owed stays so until the watcher wakes; a new daemon owes it all.
LEMMA OwedKept ==
  ASSUME WinTypes, TypeOK, ScOK, NewsIn, [WindowsNext]_allvars, ~Wake, Mirror => Watching,
         NEW f \in Files, Owed(f)
  PROVE  Owed(f)'
<1>1. [Next]_vars
  BY WindowsMove
<1>2. news.greeted \subseteq 0 .. stack.gen /\ stack.gen \in Nat
  BY DEF WinTypes, NewsOK, TypeOK
<1>3. CASE NamesOne
  <2>1. PICK g \in Files, n \in Nat : Named(g, n) /\ UNCHANGED vars
    BY <1>3 DEF NamesOne
  <2>2. /\ news'.daemon = news.daemon \cup {stack.gen} /\ news'.greeted = news.greeted
        /\ news'.tick = news.tick /\ stack' = stack
    BY <2>1, NamedTypes DEF vars
  <2> QED
    BY <2>2 DEF Owed
<1>4. CASE Mirror
  BY <1>4, MirrorEffect DEF Owed
<1>5. CASE news' = news
  <2>1. CASE Kept
    BY <1>5, <2>1 DEF Kept, Owed
  <2>2. CASE ~Kept
    <3>1. stack'.gen = stack.gen + 1
      BY <1>1, <2>2, Keeps
    <3>2. stack'.gen \notin news'.greeted
      BY <1>2, <1>5, <3>1
    <3> QED
      BY <3>2 DEF Owed
  <2> QED
    BY <2>1, <2>2
<1> QED
  BY <1>3, <1>4, <1>5, NewsSteps

\* News of a file is owed to the watcher from the start.
LEMMA NamedOwed ==
  ASSUME WinTypes, TypeOK, NEW f \in Files, NEW n \in Nat, Named(f, n), UNCHANGED vars, f[1] = stack.vault
  PROVE  Owed(f)'
<1>1. news'.daemon = news.daemon \cup {stack.gen} /\ stack' = stack
  BY NamedTypes DEF vars
<1> QED
  BY <1>1 DEF Owed

LEMMA UpsStep ==
  ASSUME WinTypes, TypeOK, ScOK, NewsIn, UpsOK, [WindowsNext]_allvars
  PROVE  UpsOK'
<1>0. Watch' = Watch
  BY DEF Watch
<1> DEFINE ups == task'[Watch].ups
<1> SUFFICES ASSUME task'[Watch].pc = "retitle"
             PROVE  /\ \A e \in ups : e[2] # 0
                    /\ \A d, e \in ups : d[1] = e[1] => d = e
                    /\ \A e \in ups : e[2] # name'[e[1]] => Owed(e[1])'
  BY <1>0 DEF UpsOK, Owed
<1>1. CASE Wake
  <2>1. \A e \in ups : e[1] \in Files /\ e[2] = name[e[1]] /\ e = <<e[1], e[2]>> /\ Stale(e[1])
    BY <1>1, WakeEffect
  <2>2. name' = name
    BY <1>1 DEF Wake
  <2>3. \A e \in ups : e[2] # 0
    BY <2>1 DEF Stale
  <2> HIDE DEF ups
  <2>4. \A d, e \in ups : d[1] = e[1] => d = e
    BY <2>1
  <2> QED
    BY <2>1, <2>2, <2>3, <2>4
<1>2. CASE ~Wake
  <2>1. task[Watch].pc = "retitle" /\ ups = task[Watch].ups
    <3>1. ~Draw(Watch) /\ ~SetMenu(Watch) /\ ~Retitle
      BY TaskKinds, DrawEffect, SetEffect, RetitleEffect
    <3> QED
      BY <1>2, <3>1, WatchSteps
  <2>2. /\ \A e \in ups : e[2] # 0
        /\ \A d, e \in ups : d[1] = e[1] => d = e
        /\ \A e \in ups : e[2] # name[e[1]] => Owed(e[1])
    BY <2>1 DEF UpsOK
  <2>3. \A e \in ups : e[1] \in Files
    <3>1. ups \in Retitles
      BY <2>1, TaskKinds DEF WinTypes, TaskOK, TaskRec
    <3> QED
      BY <3>1 DEF Retitles
  <2>4. Watching
    BY <2>1 DEF NewsIn
  <2> HIDE DEF ups
  <2>5. ASSUME NEW e \in ups, e[2] # name'[e[1]]
        PROVE  Owed(e[1])'
    <3> DEFINE f == e[1]
    <3>1. f \in Files
      BY <2>3
    <3>2. CASE name'[f] = name[f]
      <4>1. Owed(f)
        BY <2>2, <2>5, <3>2
      <4> HIDE DEF f
      <4>2. Owed(f)'
        BY <1>2, <2>4, <3>1, <4>1, OwedKept
      <4> QED
        BY <4>2 DEF f
    <3>3. CASE name'[f] # name[f]
      <4>1. NamesOne
        BY <3>3, NewsSteps
      <4>2. PICK g \in Files, n \in Nat : Named(g, n) /\ g[1] = stack.vault /\ UNCHANGED vars
        BY <4>1 DEF NamesOne
      <4>3. f = g
        BY <3>1, <3>3, <4>2, NamedTypes
      <4>4. Owed(g)'
        BY <4>2, NamedOwed
      <4> QED
        BY <4>3, <4>4
    <3> QED
      BY <3>2, <3>3
  <2> QED
    BY <2>2, <2>5
<1> QED
  BY <1>1, <1>2

LEMMA BehindSteps ==
  ASSUME WinTypes, TypeOK, ScOK, [WindowsNext]_allvars
  PROVE  odd'.behind = odd.behind \/ Wake \/ Mirror \/ \E t \in Jobs : Insert(t)
<1>1. CASE Shells /\ Beside
  BY <1>1 DEF Beside
<1>2. ASSUME NEW t, \/ Asked(t) \/ Create(t) \/ Decide(t) \/ Build(t) \/ Record(t) \/ Export(t)
                    \/ Draw(t) \/ Load(t)
      PROVE  odd' = odd
  BY <1>2 DEF Asked, ByDocument, ByFolder, ByRecent, ByNew, Beforehand, Create, Decide, Build,
              Record, Export, Draw, Load
<1>3. ASSUME NEW t, SetMenu(t)
      PROVE  odd'.behind = odd.behind
  BY <1>3 DEF SetMenu, WinTypes, OddOK
<1>4. ASSUME NEW l, Focus(l) \/ NavigateHome
      PROVE  odd'.behind = odd.behind
  BY <1>4, CrossedNot DEF Focus, NavigateHome
<1>5. ASSUME NEW l \in Labels, Close(l)
      PROVE  odd'.behind = odd.behind
  BY <1>5, CloseShown
<1>6. ASSUME NEW l, Recover(l) \/ (\E r \in Routes : Navigate(l, r)) \/ Rename(l)
      PROVE  odd' = odd
  BY <1>6 DEF Recover, Navigate, Rename
<1>7. Retitle => odd'.behind = odd.behind
  BY RetitleShown
<1>8. TogglePalette \/ OpenPreferences => odd' = odd
  BY DEF TogglePalette, OpenPreferences
<1>9. UNCHANGED allvars => odd' = odd
  BY DEF allvars, wvars
<1> QED
  BY <1>1, <1>2, <1>3, <1>4, <1>5, <1>6, <1>7, <1>8, <1>9, WindowsSteps DEF Besides

Excused(f) == f \in odd.behind \cup odd.ghosts \cup odd.mixed

\* A title goes stale by a new name only; what is registered anew is fresh,
\* or its name was old already.
LEMMA StaleWas ==
  ASSUME WinTypes, TypeOK, ScOK, JobsOK, ListOK, [WindowsNext]_allvars,
         ~Wake, ~Mirror, ~Retitle, NEW f \in Files, f \notin odd'.behind \cup odd'.ghosts \cup odd'.mixed,
         reg'[f] # None, name'[f] \notin {0, reg'[f]}, name'[f] = name[f]
  PROVE  ~Excused(f) /\ Stale(f)
<1>0. f \in Labels
  BY LabelFacts
<1>1. CASE Quiet
  <2>1. reg' = reg /\ f \notin odd.ghosts /\ f \notin odd.mixed
    BY <1>1 DEF Quiet
  <2>2. CASE odd'.behind = odd.behind
    BY <2>1, <2>2 DEF Excused, Stale
  <2>3. CASE odd'.behind # odd.behind
    <3>1. PICK t \in Jobs : Insert(t)
      BY <2>3, BehindSteps
    <3>2. task'[t].pc # task[t].pc
      BY <3>1, InsertEffect
    <3> QED
      BY <1>1, <3>2 DEF Quiet
  <2> QED
    BY <2>2, <2>3
<1>2. ASSUME NEW l \in Labels, Close(l)
      PROVE  ~Excused(f) /\ Stale(f)
  <2>1. f # l
    BY <1>2, CloseShown
  <2>2. reg'[f] = reg[f] /\ f \notin odd.ghosts /\ f \notin odd.mixed /\ f \notin odd.behind
    BY <1>0, <1>2, <2>1, CloseShown
  <2> QED
    BY <2>2 DEF Excused, Stale
<1>3. ASSUME NEW t \in Jobs, Moves(t)
      PROVE  ~Excused(f) /\ Stale(f)
  <2>1. odd'.ghosts = odd.ghosts /\ odd'.mixed = odd.mixed
    BY <1>3, MovesFrame
  <2>2. CASE Insert(t)
    <3>1. task[t].file \in Files
      BY <2>2 DEF Insert, JobsOK, Began
    <3>2. f # task[t].file
      BY <2>2, <3>1, InsertShown
    <3>3. reg'[f] = reg[f] /\ (f \notin odd'.behind => f \notin odd.behind)
      BY <1>0, <2>2, <3>1, <3>2, InsertShown
    <3> QED
      BY <2>1, <3>3 DEF Excused, Stale
  <2>3. CASE ~Insert(t)
    <3>1. reg'[f] = reg[f]
      BY <1>0, <1>3, <2>3, MovesFrame
    <3>2. odd'.behind = odd.behind
      <4>1. \A u \in Jobs : ~Insert(u)
        <5>1. ASSUME NEW u \in Jobs, Insert(u) PROVE FALSE
          <6>1. u # t /\ task'[u].pc # task[u].pc
            BY <2>3, <5>1, InsertEffect
          <6> QED
            BY <1>3, <6>1, MovesFrame
        <5> QED
          BY <5>1
      <4> QED
        BY <4>1, BehindSteps
    <3> QED
      BY <2>1, <3>1, <3>2 DEF Excused, Stale
  <2> QED
    BY <2>2, <2>3
<1> QED
  BY <1>1, <1>2, <1>3, QuietSteps

\* A watcher that retitles leaves stale only what was renamed since it woke.
LEMMA StaleRetitle ==
  ASSUME WinTypes, TypeOK, ScOK, JobsOK, NewsIn, UpsOK, StaleOK, [WindowsNext]_allvars,
         Retitle, NEW f \in Files, f \notin odd'.behind \cup odd'.ghosts \cup odd'.mixed,
         reg'[f] # None, name'[f] \notin {0, reg'[f]}
  PROVE  Owed(f)'
<1> DEFINE ups == task[Watch].ups
<1>1. /\ ups \in Retitles /\ f \notin odd.ghosts /\ f \notin odd.mixed /\ f \notin odd.behind
      /\ task[Watch].pc = "retitle" /\ name' = name /\ news' = news /\ UNCHANGED vars
  BY RetitleShown, RetitleEffect DEF Retitle
<1>2. Owed(f)' <=> Owed(f)
  BY <1>1 DEF Owed, vars
<1>3. CASE f \in Due
  <2>1. f \in {e[1] : e \in ups}
    BY <1>3 DEF Due
  <2> DEFINE n == NewTitle(ups, f)
  <2>2. reg'[f] = n
    BY <1>3, RetitleShown
  <2>3. \A e \in ups : e[2] # name[e[1]] => Owed(e[1])
    BY <1>1 DEF UpsOK
  <2> HIDE DEF ups
  <2>4. <<f, n>> \in ups
    BY <1>1, <2>1, TitleFacts
  <2> HIDE DEF n
  <2>5. n # name[f]
    BY <1>1, <2>2
  <2>6. <<f, n>>[2] # name[<<f, n>>[1]] => Owed(<<f, n>>[1])
    BY <2>3, <2>4
  <2>7. <<f, n>>[1] = f /\ <<f, n>>[2] = n
    OBVIOUS
  <2> QED
    BY <1>2, <2>5, <2>6, <2>7
<1>4. CASE f \notin Due
  <2>1. reg'[f] = reg[f]
    BY <1>4, RetitleShown, LabelFacts
  <2>2. Stale(f)
    BY <1>1, <2>1 DEF Stale
  <2>3. Owed(f) \/ <<f, name[f]>> \in ups
    BY <1>1, <2>2 DEF StaleOK
  <2>4. <<f, name[f]>> \in ups => <<f, name[f]>>[1] \in Due
    BY DEF Due
  <2> QED
    BY <1>2, <1>4, <2>3, <2>4
<1> QED
  BY <1>3, <1>4

LEMMA StaleStep ==
  ASSUME WinTypes, TypeOK, ScOK, JobsOK, ListOK, NewsIn, UpsOK, StaleOK, [WindowsNext]_allvars
  PROVE  StaleOK'
<1>0. Watch' = Watch /\ Files' = Files
  BY LabelFacts DEF Watch
<1> SUFFICES ASSUME NEW f \in Files, f \notin odd'.behind \cup odd'.ghosts \cup odd'.mixed,
                    reg'[f] # None, name'[f] \notin {0, reg'[f]}
             PROVE  Owed(f)' \/ (task'[Watch].pc = "retitle" /\ <<f, name'[f]>> \in task'[Watch].ups)
  BY <1>0 DEF StaleOK, Stale, Owed
<1>1. CASE Wake
  <2>1. reg' = reg /\ name' = name
    BY <1>1 DEF Wake
  <2>2. Stale(f)
    BY <2>1 DEF Stale
  <2> QED
    BY <1>1, <2>1, <2>2, WakeEffect
<1>2. CASE Mirror
  <2>1. reg' = reg /\ name' = name
    BY <1>2, MirrorEffect
  <2>2. Stale(f)
    BY <2>1 DEF Stale
  <2>3. Watching
    BY <1>2, <2>2, MirrorEffect
  <2> QED
    BY <1>2, <2>3, MirrorEffect DEF Owed
<1>3. CASE Retitle
  BY <1>3, StaleRetitle
<1>4. CASE ~Wake /\ ~Mirror /\ ~Retitle
  <2>1. CASE name'[f] # name[f]
    <3>1. PICK g \in Files, n \in Nat : Named(g, n) /\ g[1] = stack.vault /\ UNCHANGED vars
      BY <1>4, <2>1, NewsSteps DEF NamesOne
    <3>2. f = g
      BY <2>1, <3>1, NamedTypes
    <3>3. Owed(g)'
      BY <3>1, NamedOwed
    <3> QED
      BY <3>2, <3>3
  <2>2. CASE name'[f] = name[f]
    <3>1. ~Excused(f) /\ Stale(f)
      BY <1>4, <2>2, StaleWas
    <3>2. Owed(f) \/ (task[Watch].pc = "retitle" /\ <<f, name[f]>> \in task[Watch].ups)
      BY <3>1 DEF StaleOK, Excused
    <3>3. Owed(f) => Owed(f)'
      BY <1>4, OwedKept
    <3>4. task[Watch].pc = "retitle" => task'[Watch].pc = "retitle" /\ task'[Watch].ups = task[Watch].ups
      BY <1>4, WatchSteps, TaskKinds, DrawEffect, SetEffect
    <3> QED
      BY <2>2, <3>2, <3>3, <3>4
  <2> QED
    BY <2>1, <2>2
<1> QED
  BY <1>1, <1>2, <1>3, <1>4

-----------------------------------------------------------------------------
(* The home window after the stack was replaced. *)

LEMMA TailSteps ==
  ASSUME WinTypes, TypeOK, Besides, NEW u \in Tails
  PROVE  task'[u].pc = task[u].pc \/ Draw(u) \/ SetMenu(u) \/ Load(u)
<1>0. u \in Tasks /\ u \notin Jobs /\ u # Watch
  BY TaskKinds
<1>1. ASSUME NEW t \in Jobs, \/ Asked(t) \/ Create(t) \/ Decide(t) \/ Build(t) \/ Insert(t) \/ Record(t)
      PROVE  task'[u].pc = task[u].pc
  BY <1>0, <1>1, AskedTypes, CreateEffect, DecideEffect, BuildEffect, InsertEffect, RecordEffect DEF Alone, Goes
<1>2. ASSUME NEW t \in Tasks \ {u}, Draw(t) \/ SetMenu(t) \/ (t \in Tails /\ Load(t))
      PROVE  task'[u] = task[u]
  BY <1>0, <1>2, DrawEffect, SetEffect, LoadEffect DEF Alone
<1>3. ASSUME NEW l \in Labels, Focus(l) \/ NavigateHome
      PROVE  task'[u].pc = task[u].pc
  <2>1. task' = Overtake(task) /\ UNCHANGED vars
    BY <1>3 DEF Focus, NavigateHome
  <2> QED
    BY <1>0, <2>1, OvertakeAll DEF WinTypes, Goes
<1>4. NavigateHome => task'[u].pc = task[u].pc
  BY <1>3, LabelFacts
<1>5. ASSUME NEW l \in Labels, Close(l)
      PROVE  task'[u].pc = task[u].pc
  BY <1>0, <1>5, CloseEffect
<1>6. ASSUME NEW l, Recover(l) \/ (\E r \in Routes : Navigate(l, r)) \/ Rename(l) \/ Export(l)
      PROVE  task' = task
  BY <1>6 DEF Recover, Navigate, Rename, Export
<1>7. Mirror \/ TogglePalette \/ OpenPreferences => task' = task
  BY DEF Mirror, TogglePalette, OpenPreferences
<1>8. Wake \/ Retitle => task'[u].pc = task[u].pc
  BY <1>0, WakeEffect, RetitleEffect DEF Alone, Goes
<1> QED
  BY <1>0, <1>1, <1>2, <1>3, <1>4, <1>5, <1>6, <1>7, <1>8, TaskKinds DEF Besides

LEMMA HomeSteps ==
  ASSUME WinTypes, TypeOK, JobsOK, Besides
  PROVE  \/ Open(Home)' => screen'[Home].era = ServedEra
         \/ /\ Open(Home)' => Open(Home) /\ screen'[Home].era = screen[Home].era
            /\ \A t \in Tails : ~Load(t)
<1> DEFINE Same == Open(Home)' => Open(Home) /\ screen'[Home].era = screen[Home].era
<1>0. Home \in Labels /\ Home \notin Files
  BY LabelFacts
<1>1. ASSUME screen'[Home] = screen[Home]
      PROVE  Same
  BY <1>1 DEF Open
<1>2. ASSUME NEW t \in Jobs, Build(t)
      PROVE  Same
  <2>1. task[t].file \in Files
    BY <1>2 DEF Build, JobsOK, Began
  <2>2. screen'[Home] = screen[Home]
    BY <1>0, <1>2, <2>1, BuildEffect, BuildShown
  <2> QED
    BY <1>1, <2>2
<1>3. ASSUME NEW t, \/ Asked(t) \/ Create(t) \/ Decide(t) \/ Insert(t) \/ Record(t) \/ Export(t)
                    \/ Draw(t) \/ SetMenu(t)
      PROVE  screen' = screen
  BY <1>3 DEF Asked, ByDocument, ByFolder, ByRecent, ByNew, Beforehand, Create, Decide, Insert,
              Record, Export, Draw, SetMenu
<1>4. ASSUME NEW l \in Labels, Focus(l) \/ Rename(l)
      PROVE  screen' = screen
  BY <1>4 DEF Focus, Rename
<1>5. ASSUME NEW l \in Labels, Close(l)
      PROVE  Same
  BY <1>0, <1>1, <1>5, CloseShown
<1>6. ASSUME NEW l \in Labels, Recover(l) \/ \E r \in Routes : Navigate(l, r)
      PROVE  Same
  BY <1>0, <1>6, RecoverShown, NavigateShown
<1>7. Mirror \/ Wake \/ TogglePalette \/ OpenPreferences => screen' = screen
  BY DEF Mirror, Wake, TogglePalette, OpenPreferences
<1>8. Retitle => Same
  BY <1>0, <1>1, RetitleShown
<1>9. ASSUME NEW t, Load(t) \/ NavigateHome
      PROVE  Open(Home)' => screen'[Home].era = ServedEra
  <2>1. screen' = HomeAt(ServedEra)
    BY <1>9 DEF Load, NavigateHome
  <2>2. ServedEra \in Nat /\ ScreenOK
    BY ServedFact DEF WinTypes
  <2>3. \A l \in Labels : screen'[l] # None => screen[l] # None
    BY <2>1, <2>2, HomeShown DEF Open
  <2>4. Open(Home) => screen'[Home].era = ServedEra
    BY <2>1, <2>2, HomeShown
  <2> QED
    BY <1>0, <2>3, <2>4 DEF Open
<1> QED
  BY <1>1, <1>2, <1>3, <1>4, <1>5, <1>6, <1>7, <1>8, <1>9, LabelFacts DEF Besides

\* A flow that has something to tell goes on telling, or draws the menu.
LEMMA LoadingKept ==
  ASSUME WinTypes, ScOK, TypeOK, Windowed, [WindowsNext]_allvars, Beside, Loading
  PROVE  Loading'
<1>0. [Next]_vars /\ Flows' = Flows /\ Tails' = Tails
  BY StaticWindows DEF WinTypes
<1>1. ASSUME NEW t \in Tails, task[t].pc \in {"draw", "set", "load"}
      PROVE  Loading'
  <2>1. task'[t].pc \in {"draw", "set", "load"}
    BY <1>1, BesideEffect, TaskKinds
  <2> QED
    BY <1>0, <1>1, <2>1 DEF Loading
<1>2. ASSUME NEW f \in Flows, Untold(f)
      PROVE  Loading'
  <2>1. CASE flow'[f] = flow[f]
    <3>1. Untold(f)'
      BY <1>2, <2>1 DEF Untold
    <3> QED
      BY <1>0, <3>1 DEF Loading
  <2>2. CASE flow[f].pc = "live" /\ flow'[f].pc # "live"
    <3>1. <<"flow", f>> \in Tails /\ task'[<<"flow", f>>].pc = "draw"
      BY <2>2, BesideEffect
    <3> QED
      BY <1>0, <3>1 DEF Loading
  <2>3. CASE Turning(f) /\ flow[f].pc # "live"
    <3>1. flow[f].pc \in {"facts", "bind", "bound"} /\ (flow[f].pc # "facts" => f # 0)
      BY <1>2, <2>3 DEF Untold
    <3>2. flow'[f].pc \in {"live", "facts", "bound"} /\ (flow'[f].pc = "bound" => f # 0)
      BY <2>3, <3>1, Turns
    <3>3. Untold(f)'
      BY <3>2 DEF Untold
    <3> QED
      BY <1>0, <3>3 DEF Loading
  <2>4. CASE Turning(f) /\ flow'[f].pc = "live"
    <3>1. Untold(f)'
      BY <2>4 DEF Untold
    <3> QED
      BY <1>0, <3>1 DEF Loading
  <2>5. flow'[f] = flow[f] \/ Turning(f)
    <3>1. ASSUME Running, flow[0].pc = "serve", \A g \in Flows \ {0} : flow'[g] = flow[g]
          PROVE  flow'[f] = flow[f]
      BY <1>2, <3>1 DEF Untold
    <3> QED
      BY <1>0, <3>1, Stays, TurnsAlone
  <2> QED
    BY <2>1, <2>2, <2>3, <2>4, <2>5
<1> QED
  BY <1>1, <1>2 DEF Loading

LEMMA HomeStep ==
  ASSUME WinTypes, ScOK, TypeOK, Windowed, JobsOK, HomeOK, [WindowsNext]_allvars
  PROVE  HomeOK'
<1>0. [Next]_vars /\ Flows' = Flows /\ Tails' = Tails /\ Home' = Home
  BY StaticWindows DEF WinTypes, Home
<1> SUFFICES ASSUME stack'.up, stack'.by \in {"boot", "menu"}, Open(Home)'
             PROVE  Loading' \/ screen'[Home].era = stack'.era
  BY <1>0 DEF HomeOK, Open
<1>1. CASE Shells /\ Beside
  <2>1. screen' = screen /\ Open(Home)
    BY <1>0, <1>1 DEF Beside, Open
  <2>2. ASSUME NEW f \in Flows, BringUp(f)
        PROVE  Loading'
    <3>1. stack'.by = FlowKind(f)
      BY <2>2 DEF BringUp, TypeOK
    <3>2. flow[f].pc = "down" /\ Turning(f)
      BY <2>2 DEF BringUp, Turning, FlowStep
    <3>3. flow'[f].pc = IF f = 0 THEN "facts" ELSE IF FlowKind(f) = "menu" THEN "bind" ELSE "end"
      BY <3>2, Turns
    <3>4. f # 0 => FlowKind(f) = "menu"
      BY <3>1, Kinds DEF FlowKinds
    <3>5. Untold(f)'
      BY <3>3, <3>4 DEF Untold
    <3> QED
      BY <1>0, <3>5 DEF Loading
  <2>3. CASE stack'.up = stack.up /\ stack'.era = stack.era /\ stack'.by = stack.by
    <3>1. Loading \/ screen[Home].era = stack.era
      BY <2>1, <2>3 DEF HomeOK
    <3> QED
      BY <1>1, <2>1, <2>3, <3>1, LoadingKept
  <2> QED
    BY <1>0, <2>2, <2>3, StackSteps
<1>2. CASE Besides /\ UNCHANGED vars
  <2>1. UNCHANGED <<stack, flow>>
    BY <1>2 DEF vars
  <2>2. ServedEra = stack.era
    BY <2>1 DEF ServedEra
  <2>3. CASE Open(Home)' => screen'[Home].era = ServedEra
    BY <1>0, <2>1, <2>2, <2>3
  <2>4. CASE /\ Open(Home)' => Open(Home) /\ screen'[Home].era = screen[Home].era
             /\ \A t \in Tails : ~Load(t)
    <3>1. Loading \/ screen[Home].era = stack.era
      BY <1>0, <2>1, <2>4 DEF HomeOK
    <3>2. ASSUME NEW f \in Flows, Untold(f)
          PROVE  Loading'
      BY <1>0, <2>1, <3>2 DEF Loading, Untold
    <3>3. ASSUME NEW t \in Tails, task[t].pc \in {"draw", "set", "load"}
          PROVE  Loading'
      <4>1. task'[t].pc \in {"draw", "set", "load"}
        BY <1>2, <2>4, <3>3, TailSteps, DrawEffect, SetEffect, TaskKinds
      <4> QED
        BY <1>0, <3>3, <4>1 DEF Loading
    <3> QED
      BY <1>0, <2>1, <2>4, <3>1, <3>2, <3>3 DEF Loading
  <2> QED
    BY <1>2, <2>3, <2>4, HomeSteps
<1>3. CASE UNCHANGED allvars
  BY <1>3 DEF allvars, wvars, vars, HomeOK, Loading, Untold, Open, Tails, Flows, Home
<1> QED
  BY <1>1, <1>2, <1>3, WindowsSteps

-----------------------------------------------------------------------------
(* The whole. *)

LEMMA TellInit == WindowsInit => TellInv
<1> SUFFICES ASSUME WindowsInit PROVE TellInv
  OBVIOUS
<1>1. sc \in Scenarios /\ stack.gen = 0 /\ ~stack.up /\ bridge.ctl = 0
  BY DEF WindowsInit, Init
<1>2. OpensOK
  BY <1>1, WindowsAssumption DEF OpensOK
<1>3. ScreenOK
  BY LabelFacts DEF WindowsInit, ScreenOK, Window
<1>4. RegOK /\ NameOK /\ RecentOK /\ StraysOK
  BY LabelFacts DEF WindowsInit, RegOK, NameOK, RecentOK, Recents, StraysOK
<1>5. NewsOK /\ OddOK
  BY DEF WindowsInit, NewsOK, OddOK
<1>6. \A t \in Tasks : task[t] = NoTask
  BY DEF WindowsInit
<1>7. NoTask \in TaskRec /\ NoTask.pc = "idle" /\ ~NoTask.due
  <2>1. NoTask \in TaskRec
    BY LabelFacts DEF NoTask, TaskRec, TaskPcs, JobPcs, Snaps, Retitles
  <2>2. NoTask.pc = "idle" /\ NoTask.due = FALSE
    BY Zenon DEF NoTask
  <2> QED
    BY <2>1, <2>2
<1>8. \A t \in Tasks : task[t] \in TaskRec /\ task[t].pc = "idle" /\ ~task[t].due
  BY <1>6, <1>7
<1>9. TaskOK
  <2>1. task \in [Tasks -> TaskRec]
    BY <1>7 DEF WindowsInit
  <2> QED
    BY <1>8, <2>1, TaskKinds DEF TaskOK, JobPcs
<1>10. JobsOK /\ BuiltOK
  BY <1>8, TaskKinds DEF JobsOK, BuiltOK, Began, Shown
<1>11. \A l \in Labels : (reg[l] # None <=> l = Home) /\ (Open(l) <=> l = Home)
  BY LabelFacts, NoneFacts DEF WindowsInit, Open, Window
<1>12. \A l \in Labels : Heard(l)
  BY <1>8, TaskKinds DEF Heard
<1>13. ListOK
  BY <1>11, <1>12, LabelFacts DEF ListOK, Listed, WindowsInit
<1>14. DrawOK
  BY <1>8 DEF DrawOK, MenuTells, Now, WindowsInit
<1>15. NewsIn /\ UpsOK
  <2>1. news.tick = FALSE /\ task[Watch].pc = "idle"
    BY <1>8, TaskKinds DEF WindowsInit
  <2> QED
    BY <1>1, <2>1 DEF NewsIn, UpsOK
<1>16. StaleOK
  BY <1>11, LabelFacts DEF StaleOK, Stale
<1>17. HomeOK
  BY <1>1 DEF HomeOK
<1> QED
  BY <1>2, <1>3, <1>4, <1>5, <1>9, <1>10, <1>13, <1>14, <1>15, <1>16, <1>17 DEF TellInv, WinTypes

\* Without opens there are no jobs.
LEMMA Windowless ==
  ASSUME OpensOK, ~Windowed
  PROVE  JobsOK
<1>1. Len(sc.opens) = 0
  BY DEF OpensOK, Windowed
<1>2. Jobs = {}
  BY <1>1 DEF Jobs
<1> QED
  BY <1>2 DEF JobsOK

LEMMA TellStep ==
  ASSUME ScOK, TypeOK, TellInv, [WindowsNext]_allvars
  PROVE  TellInv'
<1>1. WinTypes /\ JobsOK
  BY Windowless DEF TellInv, WinTypes
<1>2. WinTypes'
  BY <1>1, WinTypesStep
<1>3. Windowed' = Windowed
  BY <1>1, StaticWindows DEF WinTypes
<1>4. ASSUME Windowed
      PROVE  (JobsOK /\ BuiltOK /\ ListOK /\ DrawOK /\ NewsIn /\ UpsOK /\ StaleOK /\ HomeOK)'
  <2>1. JobsOK /\ BuiltOK /\ ListOK /\ DrawOK /\ NewsIn /\ UpsOK /\ StaleOK /\ HomeOK
    BY <1>4 DEF TellInv
  <2>2. JobsOK' /\ BuiltOK' /\ ListOK'
    BY <1>1, <2>1, JobsStep, BuiltStep, ListStep
  <2>3. DrawOK' /\ NewsIn' /\ UpsOK'
    BY <1>1, <2>1, DrawStep, NewsStep, UpsStep
  <2>4. StaleOK'
    BY <1>1, <2>1, StaleStep
  <2>5. HomeOK'
    BY <1>1, <1>4, <2>1, HomeStep
  <2> QED
    BY <2>2, <2>3, <2>4, <2>5
<1> QED
  BY <1>2, <1>3, <1>4 DEF TellInv

\* What is told, from the invariant.
LEMMA TellWhat ==
  ASSUME DeskInv, TellInv
  PROVE  WindowsTold
<1> SUFFICES ASSUME Windowed
             PROVE  RegistryTells /\ RequestsOpen /\ MenuTells /\ TitlesFollow /\ HomeFollows
  BY DEF WindowsTold
<1>0. /\ WinTypes /\ JobsOK /\ ListOK /\ DrawOK /\ NewsIn /\ StaleOK /\ HomeOK
      /\ TypeOK /\ FactsFollow
  BY DEF TellInv, DeskInv
<1>1. RegistryTells
  BY <1>0 DEF ListOK, RegistryTells
<1>2. RequestsOpen
  BY <1>0 DEF JobsOK, RequestsOpen, Shown
<1>3. MenuTells
  BY <1>0 DEF DrawOK
<1>4. TitlesFollow
  <2> SUFFICES ASSUME Settled, ~news.tick, task[Watch].pc = "idle",
                      bridge.fwd \subseteq news.greeted \ news.daemon,
                      NEW f \in Files \ (odd.behind \cup odd.ghosts \cup odd.mixed),
                      f[1] = stack.vault, reg[f] # None, name[f] # 0
               PROVE  reg[f] = name[f] /\ (Open(f) => screen[f].title = name[f])
    BY DEF TitlesFollow
  <2>1. stack.up /\ bridge.ctl = stack.gen
    BY <1>0 DEF FactsFollow, Settled
  <2>2. stack.gen \in bridge.fwd
    BY <1>0, <2>1 DEF NewsIn
  <2>3. ~Owed(f)
    BY <2>2 DEF Owed
  <2>4. ~Stale(f)
    BY <1>0, <2>3 DEF StaleOK
  <2>5. reg[f] = name[f]
    BY <2>4 DEF Stale
  <2> QED
    BY <1>0, <2>5 DEF ListOK
<1>5. HomeFollows
  <2> SUFFICES ASSUME Settled, \A t \in Tails : task[t].pc \in {"idle", "end"}, Open(Home)
               PROVE  screen[Home].era = stack.era
    BY DEF HomeFollows
  <2>1. \A f \in Flows : ~Untold(f)
    BY DEF Settled, Busy, Telling, Untold
  <2>2. ~Loading
    BY <2>1 DEF Loading
  <2> QED
    BY <1>0, <2>2 DEF HomeOK, Settled
<1> QED
  BY <1>1, <1>2, <1>3, <1>4, <1>5

-----------------------------------------------------------------------------
(* What follows. *)

(* The variables keep their types: a copy always finds a free name, a      *)
(* snapshot is taken of a filled slot, a forwarder of a daemon that ran.   *)
THEOREM Typing == (Spec => []TypeOK) /\ (WindowsSpec => []TypeOK)
<1>1. DeskInv => TypeOK
  BY DEF DeskInv
<1> QED
  BY <1>1, ShellHolds, WindowsHold, PTL

(* The boot task and the callback of open_vault: when the flow that raised *)
(* the stack has finished, and nobody took the stack from it meanwhile,    *)
(* the LiveVault slot names the vault that is open and the database that   *)
(* serves it, and the tray's bridge drives the daemon that runs.           *)
THEOREM Follows == (Spec => []FactsFollow) /\ (WindowsSpec => []FactsFollow)
<1>1. DeskInv => FactsFollow
  BY DEF DeskInv
<1> QED
  BY <1>1, ShellHolds, WindowsHold, PTL

(* DaemonStatusBridge: a pause clicked in the tray before the boot, while  *)
(* the vault is replaced or on a running daemon is the pause of whatever   *)
(* daemon runs when the shell is settled, unless the preferences page has  *)
(* resumed it, or it was clicked between the two halves of an attach.      *)
THEOREM Paused == (Spec => []PauseSticks) /\ (WindowsSpec => []PauseSticks)
<1>1. ASSUME DeskInv, Settled, bridge.want, ~late
      PROVE  stack.paused
  <2>1. \A f \in Flows : flow[f].pc \notin Telling
    BY <1>1 DEF Settled, Busy
  <2> QED
    BY <1>1, <2>1 DEF DeskInv, PauseHeld, Settled
<1>2. DeskInv => PauseSticks
  BY <1>1 DEF PauseSticks
<1> QED
  BY <1>2, ShellHolds, WindowsHold, PTL

(* offer_import, the File menu and Export: a confirmed copy lands in the   *)
(* vault that is open when it is swapped in, if the stack was not replaced *)
(* since the answer; what goes over RPC always does; and an export is      *)
(* never written into the vault it was taken from.                         *)
THEOREM Placed == (Spec => WritesPlaced) /\ (WindowsSpec => WritesPlaced)
<1>1. DeskInv /\ [Next]_vars =>
        [\A a \in Asks : landed'[a] # landed[a] =>
            CASE sc.asks[a] = "dir" -> ask[a].safe /\ Unmoved(a) => landed'[a] = stack.vault
              [] sc.asks[a] = "export" -> ask[a].safe /\ Unmoved(a) => landed'[a] # stack.vault
              [] OTHER -> landed'[a] = stack.vault]_vars
  BY PlacedStep DEF DeskInv
<1>2. DeskInv /\ [WindowsNext]_allvars => [Next]_vars
  BY WindowsMove
<1>3. Spec => WritesPlaced
  BY <1>1, ShellHolds, PTL DEF Spec, WritesPlaced
<1>4. WindowsSpec => WritesPlaced
  BY <1>1, <1>2, WindowsHold, PTL DEF WindowsSpec, WritesPlaced
<1> QED
  BY <1>3, <1>4

(* windows.rs and menubar: through any opens, closes, renames, clicks and  *)
(* vault switches, in any order of the threads that make them, the         *)
(* registry lists the windows on the screen, a request for a file of the   *)
(* open vault has opened it, the menu shows the registry, a rename reaches *)
(* the titles, and a switch the home window, but for the races that        *)
(* WindowsTold names.                                                      *)
THEOREM WindowsFollow == WindowsSpec => []WindowsTold
<1>1. WindowsInit => TellInv
  BY TellInit
<1>2. DeskInv /\ TellInv /\ [WindowsNext]_allvars => TellInv'
  BY TellStep DEF DeskInv
<1>3. DeskInv /\ TellInv => WindowsTold
  BY TellWhat
<1> QED
  BY <1>1, <1>2, <1>3, WindowsHold, PTL DEF WindowsSpec
=============================================================================
