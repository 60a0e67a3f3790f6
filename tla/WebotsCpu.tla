------------------------------- MODULE WebotsCpu -------------------------------
(***************************************************************************)
(* The CPU bench of the simulator (src/tools/bench/bench_webots_cpu.c):    *)
(* each world is run a few times, each run is sampled twice through /proc, *)
(* and what the worlds cost apart is compared with the published figures.  *)
(*                                                                         *)
(* WeBots and the controllers it starts consume CPU, start and die at any  *)
(* point.  A dead root process keeps its /proc entry, and the time it has  *)
(* consumed, until it is waited for; a dead controller is WeBots' to wait  *)
(* for, and its time leaves the tree with it.  One tick of CPU is TickCost *)
(* percent of a window.  A sample of the tree is one step, a fork that     *)
(* fails is a run without a figure, and an unreadable /proc is left out.   *)
(* spent and lived are history: the ticks the tree consumed in the window, *)
(* and whether WeBots was up at the end of every run that was counted.     *)
(*                                                                         *)
(* An operator named for a slip (RootCpu, ...) is the one after it with    *)
(* that slip made; nothing uses it.                                        *)
(***************************************************************************)
EXTENDS Integers, SequencesExt, FiniteSetsExt

CONSTANTS
  Controllers,    \* the processes WeBots starts
  Worlds,         \* worlds in the sweep, three in the code
  Repeats,        \* runs per world
  TickCost,       \* percent of one core a tick of CPU is
  MaxCpu          \* bound: ticks a process has, and ticks spent in a window

ASSUME CpuAssumption ==
  /\ IsFiniteSet(Controllers)
  /\ TickCost \in Nat /\ MaxCpu \in Nat

Webots == "webots"
Process == Controllers \cup {Webots}

VARIABLES
  cpuPhase,       \* "run", "warmup", "sample", "verdict" or "end"
  proc,           \* per process, whether it is up and its ticks
  c0,             \* the first sample
  runs, tried,    \* figures of the current world, and runs made
  got,            \* figures counted per world so far
  cpu, increment, \* medians so far, and what each row adds to the one before
  noise,          \* the widest spread
  ok,
  verdict,        \* whether the published figures were compared
  matched,        \* the ones said to match
  spent, lived

cpuVars == <<cpuPhase, proc, c0, runs, tried, got, cpu, increment, noise, ok, verdict, matched, spent, lived>>

Down == [up |-> FALSE, ticks |-> 0]

CpuInit ==
  /\ cpuPhase = "run" /\ proc = [p \in Process |-> Down] /\ c0 = 0
  /\ runs = <<>> /\ tried = 0
  /\ got = <<>> /\ cpu = <<>> /\ increment = <<>> /\ noise = 0 /\ ok = TRUE
  /\ verdict = "none" /\ matched = {}
  /\ spent = 0 /\ lived = TRUE

(* The same for the next process that runs the bench.                      *)
CpuRestart ==
  /\ cpuPhase' = "run" /\ proc' = [p \in Process |-> Down] /\ c0' = 0
  /\ runs' = <<>> /\ tried' = 0
  /\ got' = <<>> /\ cpu' = <<>> /\ increment' = <<>> /\ noise' = 0 /\ ok' = TRUE
  /\ verdict' = "none" /\ matched' = {}
  /\ spent' = 0 /\ lived' = TRUE

(* tree_cpu_seconds: the root, dead or alive, and the children it has.     *)
RootCpu(tree) == tree[Webots].ticks
TreeCpu(tree) == MapThenSumSet(LAMBDA p : tree[p].ticks, Process)

FirstReadingOfRoot(tree) == RootCpu(tree)
FirstReading(tree) == TreeCpu(tree)

(***************************************************************************)
(* The processes.                                                          *)
(***************************************************************************)
Running == cpuPhase \in {"warmup", "sample"}

Consume(p) ==
  /\ Running /\ proc[p].up /\ proc[p].ticks < MaxCpu /\ spent < MaxCpu
  /\ proc' = [proc EXCEPT ![p].ticks = @ + 1]
  /\ spent' = spent + IF cpuPhase = "sample" THEN 1 ELSE 0
  /\ UNCHANGED <<cpuPhase, c0, runs, tried, got, cpu, increment, noise, ok, verdict, matched, lived>>

StartController(c) ==
  /\ Running /\ proc[Webots].up /\ ~proc[c].up
  /\ proc' = [proc EXCEPT ![c].up = TRUE]
  /\ UNCHANGED <<cpuPhase, c0, runs, tried, got, cpu, increment, noise, ok, verdict, matched, spent, lived>>

(* The exec that fails is WeBots dying before it consumed anything; its    *)
(* controllers are no longer its children once it is dead.                 *)
Die(p) ==
  /\ Running /\ proc[p].up
  /\ proc' = IF p = Webots
               THEN [q \in Process |-> IF q = Webots
                                         THEN [proc[q] EXCEPT !.up = FALSE]
                                         ELSE Down]
               ELSE [proc EXCEPT ![p] = Down]
  /\ UNCHANGED <<cpuPhase, c0, runs, tried, got, cpu, increment, noise, ok, verdict, matched, spent, lived>>

(***************************************************************************)
(* measure.                                                                *)
(***************************************************************************)
Fork ==
  /\ cpuPhase = "run" /\ tried < Repeats
  /\ cpuPhase' = "warmup"
  /\ proc' = [proc EXCEPT ![Webots].up = TRUE]
  /\ UNCHANGED <<c0, runs, tried, got, cpu, increment, noise, ok, verdict, matched, spent, lived>>

ForkFails ==
  /\ cpuPhase = "run" /\ tried < Repeats
  /\ tried' = tried + 1
  /\ UNCHANGED <<cpuPhase, proc, c0, runs, got, cpu, increment, noise, ok, verdict, matched, spent, lived>>

FirstSample ==
  /\ cpuPhase = "warmup"
  /\ cpuPhase' = "sample"
  /\ c0' = FirstReading(proc)
  /\ UNCHANGED <<proc, runs, tried, got, cpu, increment, noise, ok, verdict, matched, spent, lived>>

(* The figure, and whether main counts it.                                 *)
Figure == TreeCpu(proc) - c0
Counted == Figure >= 0

SecondSample ==
  /\ cpuPhase = "sample"
  /\ cpuPhase' = "run"
  /\ tried' = tried + 1
  /\ runs'  = IF Counted THEN Append(runs, Figure) ELSE runs
  /\ lived' = (lived /\ (Counted => proc[Webots].up))
  /\ proc' = [p \in Process |-> Down]
  /\ c0' = 0 /\ spent' = 0
  /\ UNCHANGED <<got, cpu, increment, noise, ok, verdict, matched>>

(***************************************************************************)
(* main: the median of a world's runs, and the verdicts.                   *)
(***************************************************************************)
(* The figure in the middle once they are in order: the least that more    *)
(* than half of them do not exceed.                                        *)
NotAbove(figures, v) == {i \in DOMAIN figures : figures[i] <= v}
Median(figures) ==
  Min({v \in ToSet(figures) : Cardinality(NotAbove(figures, v)) > Len(figures) \div 2})
Spread(figures) == Max(ToSet(figures)) - Min(ToSet(figures))

(* main: "ok = 0".                                                         *)
StillOk == ok
Failed == FALSE

(* A world none of whose runs counted leaves its row at 0, and the next    *)
(* row's increment is taken from that all the same.                        *)
RowBefore == IF cpu = <<>> THEN 0 ELSE Last(cpu)

EndWorld ==
  /\ cpuPhase = "run" /\ tried = Repeats
  /\ IF runs = <<>>
       THEN /\ ok' = Failed
            /\ cpu' = Append(cpu, 0)
            /\ increment' = Append(increment, 0)
            /\ noise' = noise
       ELSE /\ cpu' = Append(cpu, Median(runs))
            /\ increment' = Append(increment, Median(runs) - RowBefore)
            /\ noise' = Max({noise, Spread(runs)})
            /\ ok' = ok
  /\ got' = Append(got, Len(runs))
  /\ runs' = <<>> /\ tried' = 0
  /\ cpuPhase' = IF Len(cpu') = Worlds THEN "verdict" ELSE "run"
  /\ UNCHANGED <<proc, c0, verdict, matched, spent, lived>>

(* The two figures of Section V-A: ten percent for the first boat, and     *)
(* less than one for the next where the runs spread no wider than that.    *)
MatchesPaper ==
  {line \in {"first", "next"} :
     IF line = "first"
       THEN TickCost * increment[2] > 5 /\ TickCost * increment[2] < 20
       ELSE TickCost * increment[3] < 1 /\ increment[3] >= noise}

Verdicts ==
  /\ cpuPhase = "verdict"
  /\ cpuPhase' = "end"
  /\ verdict' = IF ok THEN "compared" ELSE "failed"
  /\ matched' = IF ok THEN MatchesPaper ELSE {}
  /\ UNCHANGED <<proc, c0, runs, tried, got, cpu, increment, noise, ok, spent, lived>>

CpuNext ==
  \/ \E p \in Process : Consume(p) \/ Die(p)
  \/ \E c \in Controllers : StartController(c)
  \/ Fork \/ ForkFails \/ FirstSample \/ SecondSample
  \/ EndWorld \/ Verdicts

CpuEnded == cpuPhase = "end" /\ UNCHANGED cpuVars

CpuSpec == CpuInit /\ [][CpuNext \/ CpuEnded]_cpuVars

(***************************************************************************)
(* Properties.                                                             *)
(***************************************************************************)

(* A figure never exceeds what WeBots and its controllers consumed in the  *)
(* window, whoever starts or dies between the samples: nothing of the      *)
(* warm-up and nothing consumed by a process no longer there is in it.     *)
MeasuredAtMostSpent ==
  [][Len(runs') > Len(runs) => Last(runs') <= spent]_cpuVars

(* The published figures are compared, and the increments plotted, exactly *)
(* if every world of the sweep had a run that counted.  A row that was     *)
(* left at 0 does enter the increment printed for the next world, and none *)
(* that is compared or plotted.                                            *)
VerdictsFromEveryWorld ==
  verdict # "none" => (verdict = "compared" <=> \A w \in 1 .. Worlds : got[w] > 0)

(* bench_webots_cpu.c: "-1.0 when WeBots failed to stay up".  It does not  *)
(* hold: the dead process can be sampled until it is waited for.           *)
DeadIsFailed == lived

(***************************************************************************)
(* The invariants the proofs rest on.                                      *)
(***************************************************************************)

(* A figure per world that ended, and nothing failed as long as each had   *)
(* a run that counted.                                                     *)
CpuInv ==
  /\ runs \in Seq(ToSet(runs)) /\ cpu \in Seq(ToSet(cpu)) /\ got \in Seq(Nat)
  /\ Len(cpu) = Len(got)
  /\ cpuPhase \in {"verdict", "end"} => Len(got) = Worlds
  /\ ok <=> \A w \in DOMAIN got : got[w] > 0
  /\ verdict # "none" => cpuPhase = "end"
  /\ VerdictsFromEveryWorld

(* What the tree has consumed since the first sample was consumed in the   *)
(* window.                                                                 *)
WindowInv ==
  /\ proc \in [Process -> [up : BOOLEAN, ticks : Nat]]
  /\ spent \in Nat /\ c0 \in Int
  /\ cpuPhase = "sample" => TreeCpu(proc) - c0 <= spent

(* No figure is above what a window can hold.                              *)
FiguresInv ==
  /\ runs \in Seq(0 .. MaxCpu) /\ cpu \in Seq(0 .. MaxCpu) /\ spent \in 0 .. MaxCpu
  /\ increment \in Seq(-MaxCpu .. MaxCpu) /\ Len(increment) = Len(cpu)
=============================================================================
