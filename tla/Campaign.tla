------------------------------- MODULE Campaign -------------------------------
(***************************************************************************)
(* The measurement campaign: "make bench" runs the benches of              *)
(* src/tools/bench one after the other, each leaves a text, charts and a   *)
(* table in results/, and "make report" (src/tools/report/report.c)        *)
(* assembles what it finds there into docs/RESULTS.md, which quotes the    *)
(* texts and links the charts.                                             *)
(*                                                                         *)
(* A file is the number of the campaign that wrote it: 0 is the one that   *)
(* is committed, Nothing no file at all.  A bench may die at any point: an *)
(* assertion, a signal.  Its text is buffered, so that what it says last,  *)
(* where its artefacts went, is in the file only once it is closed.        *)
(* Measurements are chosen from small sets; the CPU bench is WebotsCpu.    *)
(* Writes succeed: the benches look at no result of theirs.                *)
(*                                                                         *)
(* An operator named for a slip (OpenedForAppending, ...) is the one after *)
(* it with that slip made; nothing uses it.                                *)
(***************************************************************************)
EXTENDS WebotsCpu, Charts

CONSTANTS
  Benches,        \* the order in which make runs them
  Loads,          \* ordinates measured, in hundredths,
  Deviations,     \* and those of the jitter bench's second chart
  MaxCampaigns    \* bound: campaigns after the committed one

(* make's $(wildcard ...) where it sorts, as GNU make 4.3 and later do:    *)
(* the CPU bench, which may return success without finishing, is last.     *)
ASSUME CampaignAssumption ==
  /\ Benches \in Seq({"bandwidth", "jitter", "latency", "regulator", "scale", "webots_cpu"})
  /\ Benches # <<>> /\ IsInjective(Benches)
  /\ Last(Benches) = "webots_cpu"
  /\ Worlds = 3
  /\ MaxCampaigns \in Nat

(* Whatever a bench draws, an axis has steps for.                          *)
ASSUME FigureAssumption ==
  /\ Loads \subseteq 0 .. LargestFigure
  /\ Deviations \subseteq -LargestFigure .. LargestFigure
  /\ TickCost * MaxCpu * Unit <= LargestFigure

VARIABLES
  campaign,       \* campaigns begun
  bench, stage,   \* the bench that runs, 0 for none, and how far it is
  data,           \* what it has measured
  todo,           \* artefacts it has still to write
  home,           \* whether WEBOTS_HOME is set
  text, drawn,    \* results/: per bench its text, per artefact its campaign
  report          \* docs/RESULTS.md, a section per bench

fileVars == <<text, drawn, report>>
campaignVars == <<campaign, bench, stage, data, todo, home, fileVars, cpuVars>>

Nothing == -1
Stem == ToSet(Benches)

(***************************************************************************)
(* The charts of each bench.  Abscissae: the first two and the last of the *)
(* bench's own.                                                            *)
(***************************************************************************)
X(a, b, c) == <<a * Unit, b * Unit, c * Unit>>

Line(x, y)    == Series("line", x, y)
Bar(x, y)     == Series("bar", x, y)
Scatter(x, y) == Series("scatter", x, y)

JitterCharts(d) ==
  <<WithRule(WithSeries(NewChart, Line(X(1, 2, 79), d.y)), 125 * Unit),
    WithRule(WithSeries(NewChart, Scatter(X(1, 2, 79), d.z)), 0)>>

LatencyCharts(d) ==
  LET lines == WithSeries(WithSeries(NewChart, Line(X(0, 1, 199), d.y)),
                          Line(X(0, 1, 199), d.z)) IN
  <<WithLogY(WithRule(lines, 125000 * Unit))>>

ScaleCharts(d) ==
  LET line(y) == Line(X(1, 2, 64), y)
      lines == WithSeries(WithSeries(WithSeries(NewChart, line(d.y)), line(d.z)), line(d.y)) IN
  <<WithLogY(WithRule(lines, 125 * Unit)),
    WithRule(WithSeries(NewChart, Bar(X(1, 2, 64), d.z)), Unit)>>

RegulatorCharts(d) ==
  LET lines == WithSeries(WithSeries(NewChart, Line(X(1, 2, 1000), X(1, 2, 1000))),
                          Line(X(1, 2, 1000), d.y)) IN
  <<WithLogY(WithRule(lines, 8 * Unit)),
    WithSeries(NewChart, Bar(X(1, 2, 1000), d.z))>>

(* The last stream is the camera's, 250 MiB a second under any regulator.  *)
Camera == 2097152 * Unit
WithCamera(y) == <<y[1], y[2], Camera>>

BandwidthCharts(d) ==
  LET bar(y) == Bar(X(0, 1, 5), WithCamera(y))
      bars == WithSeries(WithSeries(NewChart, bar(d.y)), bar(d.z)) IN
  <<WithLogY(WithRule(bars, 100000 * Unit)),
    WithRule(WithRule(WithSeries(NewChart, Line(X(4, 8, 64), d.y)), 100 * Unit), Unit)>>

WebotsCharts(d) ==
  LET bars == WithSeries(WithSeries(NewChart, Line(X(0, 1, 2), d.y)), Bar(X(0, 1, 2), d.z)) IN
  <<WithRule(WithRule(bars, 10 * Unit), Unit)>>

ChartsOf(s, d) ==
  CASE s = "jitter"     -> JitterCharts(d)
    [] s = "latency"    -> LatencyCharts(d)
    [] s = "scale"      -> ScaleCharts(d)
    [] s = "regulator"  -> RegulatorCharts(d)
    [] s = "bandwidth"  -> BandwidthCharts(d)
    [] s = "webots_cpu" -> WebotsCharts(d)

(* The artefacts of each, in the order written: the first chart and its    *)
(* table, then the second chart where there is one.                        *)
Second == [jitter    |-> "jitter_deviation", scale     |-> "scale_cpu",
           regulator |-> "regulator_saved",  bandwidth |-> "bandwidth_fleet"]

ChartStems(s) == IF s \in DOMAIN Second THEN <<s, Second[s]>> ELSE <<s>>

Artefacts(s) ==
  IF s \in DOMAIN Second
    THEN <<<<"svg", s>>, <<"csv", s>>, <<"svg", Second[s]>>>>
    ELSE <<<<"svg", s>>, <<"csv", s>>>>

Artefact == UNION {ToSet(Artefacts(s)) : s \in Stem}

Measurements(s) ==
  [y : [1 .. 3 -> Loads], z : [1 .. 3 -> IF s = "jitter" THEN Deviations ELSE Loads]]

NoData == [y |-> <<>>, z |-> <<>>]

(***************************************************************************)
(* The files.                                                              *)
(***************************************************************************)
Quiet == bench = 0

(* report.c: a section per text that exists, and in it the charts that do. *)
Section(s) ==
  [by |-> text[s].by, told |-> text[s].told,
   links |-> {c \in ToSet(ChartStems(s)) : drawn[<<"svg", c>>] # Nothing}]

(* What is committed, or a tree cleared of it: every chart and table, the  *)
(* texts, of which results/webots_cpu.txt is empty, and the report.        *)
CampaignInit ==
  /\ CpuInit
  /\ campaign = 0 /\ bench = 0 /\ stage = "idle"
  /\ data = NoData /\ todo = <<>> /\ home = FALSE
  /\ \E there \in {0, Nothing} :
       /\ text  = [s \in Stem |-> [by |-> there, told |-> there = 0 /\ s # "webots_cpu"]]
       /\ drawn = [a \in Artefact |-> there]
       /\ report = [s \in {t \in Stem : text[t].by # Nothing} |-> Section(s)]

(* bench_open truncates the text before anything is measured.              *)
OpenedForAppending(s) == text
Opened(s) == [text EXCEPT ![s] = [by |-> campaign, told |-> FALSE]]

(* bench_artefacts and bench_close.                                        *)
Announced(s) == [text EXCEPT ![s] = [by |-> text[s].by, told |-> TRUE]]

Current == Benches[bench]

(* make's loop, "./$$b || exit 1", and where the next bench begins.        *)
Successor == IF bench = Len(Benches) THEN 0 ELSE bench + 1
AfterFailureGoesOn == Successor
AfterFailure == 0

Turn(next) ==
  /\ bench' = next
  /\ stage' = IF next = 0 THEN "idle" ELSE "open"
  /\ data' = NoData /\ todo' = <<>>
  /\ CpuRestart

(***************************************************************************)
(* The actions.                                                            *)
(***************************************************************************)
MakeBench ==
  /\ Quiet /\ campaign < MaxCampaigns
  /\ campaign' = campaign + 1
  /\ bench' = 1 /\ stage' = "open"
  /\ home' \in BOOLEAN
  /\ UNCHANGED <<data, todo, fileVars, cpuVars>>

BenchOpens ==
  /\ stage = "open" /\ (Current = "webots_cpu" => home)
  /\ text' = Opened(Current)
  /\ stage' = "measure"
  /\ UNCHANGED <<campaign, bench, data, todo, home, drawn, report, cpuVars>>

(* Without WEBOTS_HOME the CPU bench returns success and touches nothing.  *)
WebotsSkips ==
  /\ stage = "open" /\ Current = "webots_cpu" /\ ~home
  /\ Turn(Successor)
  /\ UNCHANGED <<campaign, home, fileVars>>

BenchMeasures ==
  /\ stage = "measure" /\ Current # "webots_cpu"
  /\ data' \in Measurements(Current)
  /\ stage' = "write" /\ todo' = Artefacts(Current)
  /\ UNCHANGED <<campaign, bench, home, fileVars, cpuVars>>

WebotsRuns ==
  /\ stage = "measure" /\ Current = "webots_cpu"
  /\ CpuNext
  /\ UNCHANGED <<campaign, bench, stage, data, todo, home, fileVars>>

(* The CPU bench plots what it compared, or says that a world failed and   *)
(* returns success without artefacts.                                      *)
WebotsMeasured ==
  /\ stage = "measure" /\ verdict = "compared"
  /\ data' = [y |-> [w \in 1 .. Worlds |-> TickCost * cpu[w] * Unit],
              z |-> [w \in 1 .. Worlds |-> TickCost * increment[w] * Unit]]
  /\ stage' = "write" /\ todo' = Artefacts(Current)
  /\ CpuRestart
  /\ UNCHANGED <<campaign, bench, home, fileVars>>

WebotsGivesUp ==
  /\ stage = "measure" /\ verdict = "failed"
  /\ Turn(Successor)
  /\ UNCHANGED <<campaign, home, fileVars>>

(* fdt_plot_write_svg, fdt_plot_write_csv.                                 *)
BenchWrites ==
  /\ stage = "write" /\ todo # <<>>
  /\ drawn' = [drawn EXCEPT ![Head(todo)] = campaign]
  /\ todo' = Tail(todo)
  /\ UNCHANGED <<campaign, bench, stage, data, home, text, report, cpuVars>>

BenchCloses ==
  /\ stage = "write" /\ todo = <<>>
  /\ text' = Announced(Current)
  /\ Turn(Successor)
  /\ UNCHANGED <<campaign, home, drawn, report>>

BenchDies ==
  /\ stage \in {"measure", "write"}
  /\ Turn(AfterFailure)
  /\ UNCHANGED <<campaign, home, fileVars>>

MakeReport ==
  /\ Quiet
  /\ report' = [s \in {t \in Stem : text[t].by # Nothing} |-> Section(s)]
  /\ UNCHANGED <<campaign, bench, stage, data, todo, home, text, drawn, cpuVars>>

CampaignNext ==
  \/ MakeBench \/ BenchOpens \/ WebotsSkips
  \/ BenchMeasures \/ WebotsRuns \/ WebotsMeasured \/ WebotsGivesUp
  \/ BenchWrites \/ BenchCloses \/ BenchDies
  \/ MakeReport

CampaignSpec == CampaignInit /\ [][CampaignNext]_campaignVars

(***************************************************************************)
(* Properties.                                                             *)
(***************************************************************************)
Drawing ==
  IF stage = "write" /\ todo = Artefacts(Current)
    THEN ToSet(ChartsOf(Current, data)) ELSE {}

(* On every chart of every bench, whatever was measured: all points, rules *)
(* and baselines lie inside the frame, bars stick out of it by no more     *)
(* than half of what the floor made their group wider than a gap (only     *)
(* results/regulator_saved.svg has such bars), and every axis has labels   *)
(* to read it by.                                                          *)
DrawnInsideFrame == \A c \in Drawing : InsideFrame(c) /\ Readable(c)

(* What a bench leaves is in the order in which it is written, wherever    *)
(* benches died, failed, were skipped or ran again: its text is no older   *)
(* than any chart or table, nor is one of these older than the next.  A    *)
(* text that says where its artefacts are is of the run that wrote all of  *)
(* them; and so is such a text in RESULTS.md, unless benches ran since the *)
(* report: then the charts it links may be newer than the text, and never  *)
(* older.  A text cut short has no such promise: see the README.           *)
TextAndChartsAgree ==
  /\ \A s \in Stem :
       LET a == Artefacts(s) IN
       /\ \A i \in DOMAIN a : drawn[a[i]] <= text[s].by
       /\ \A i, j \in DOMAIN a : i < j => drawn[a[j]] <= drawn[a[i]]
       /\ text[s].told => \A i \in DOMAIN a : drawn[a[i]] = text[s].by
  /\ \A s \in DOMAIN report : report[s].told =>
       \A c \in ToSet(ChartStems(s)) :
         c \in report[s].links /\ drawn[<<"svg", c>>] >= report[s].by

(* make stops at the first bench that fails: no bench has a text of a      *)
(* campaign in which one before it did not finish.                         *)
StoppedInOrder ==
  \A i, j \in DOMAIN Benches :
    LET before == text[Benches[i]]
        after  == text[Benches[j]] IN
    i < j /\ after.by > 0 =>
      before.by >= after.by /\ (before.by = after.by => before.told)

(***************************************************************************)
(* The invariant the proofs rest on.                                       *)
(***************************************************************************)
FilesOK ==
  /\ campaign \in Nat
  /\ text \in [Stem -> [by : Int, told : BOOLEAN]] /\ drawn \in [Artefact -> Int]
  /\ \A s \in Stem : text[s].by <= campaign
  /\ \A a \in Artefact : drawn[a] <= campaign

(* While a bench runs, those before it have finished in this campaign and  *)
(* those after it are of an earlier one.                                   *)
BenchesInTurn ==
  /\ bench \in 0 .. Len(Benches)
  /\ stage \in {"idle", "open", "measure", "write"} /\ (bench = 0 <=> stage = "idle")
  /\ bench # 0 => \A i \in DOMAIN Benches :
       /\ i < bench => text[Benches[i]] = [by |-> campaign, told |-> TRUE]
       /\ i > bench => text[Benches[i]].by < campaign
  /\ stage = "open" => text[Current].by < campaign
  /\ stage \in {"measure", "write"} => text[Current] = [by |-> campaign, told |-> FALSE]

(* A bench has written its artefacts up to the ones it has still to write. *)
WrittenOrToDo ==
  stage = "write" =>
    LET a == Artefacts(Current)
        written == Len(a) - Len(todo) IN
    /\ todo \in Seq(ToSet(a)) /\ written >= 0
    /\ \A i \in DOMAIN todo : todo[i] = a[written + i]
    /\ \A i \in DOMAIN a : i <= written => drawn[a[i]] = campaign

(* The CPU bench is at its start whenever it is not the one that measures. *)
VerdictInItsBench == verdict # "none" => stage = "measure" /\ Current = "webots_cpu"

(* What is drawn is figures, one per abscissa, and the regulator saves no  *)
(* less than nothing.                                                      *)
FiguresOK ==
  stage = "write" =>
    /\ data \in [y : [1 .. 3 -> -LargestFigure .. LargestFigure],
                 z : [1 .. 3 -> -LargestFigure .. LargestFigure]]
    /\ Current = "regulator" => data.z[1] >= 0

ReportOK == \A s \in DOMAIN report : s \in Stem /\ report[s].by \in Int

CampaignInv ==
  /\ FilesOK /\ BenchesInTurn /\ WrittenOrToDo /\ VerdictInItsBench /\ ReportOK
  /\ TextAndChartsAgree /\ StoppedInOrder
=============================================================================
