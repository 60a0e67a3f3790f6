-------------------------------- MODULE Charts --------------------------------
(***************************************************************************)
(* The plotter (src/plot.c): what a chart holds, the ranges its axes get,  *)
(* and where its labels, marks and bars come to lie.                       *)
(*                                                                         *)
(* Numbers are in hundredths (Unit stands for 1.0), and the data in whole  *)
(* units, so that every padding, half gap and tick step below is exact,    *)
(* and a bar's width where the abscissae of the bars differ.               *)
(* Marks are compared by value: both maps to pixels are increasing.  Bars  *)
(* are placed in pixels, brought to a common denominator.  Text, colours   *)
(* and the writing of the file are left out.                               *)
(*                                                                         *)
(* An operator named for a slip (RangeOfSeries, ...) is the one after it   *)
(* with that slip made; nothing uses it.                                   *)
(***************************************************************************)
EXTENDS Integers, SequencesExt, FiniteSetsExt

Unit == 100
HalfUnit == Unit \div 2
MaxSeries == 6
MaxRules  == 4
TicksX == 6
TicksY == 5
PlotWidth == 860 - 190 - 72       \* pixels between the margins
MinBarWidth == 3

(* fdt_plot_init, fdt_plot_series, fdt_plot_hline and fdt_plot_set_log_y.  *)
(* What is refused leaves the chart as it is.                              *)
NewChart == [series |-> <<>>, rules |-> <<>>, logY |-> FALSE]

Series(kind, x, y) == [kind |-> kind, x |-> x, y |-> y]

WithSeries(chart, s) ==
  IF s.x = <<>> \/ Len(chart.series) >= MaxSeries
    THEN chart
    ELSE [chart EXCEPT !.series = Append(@, s)]

WithRule(chart, y) ==
  IF Len(chart.rules) >= MaxRules
    THEN chart
    ELSE [chart EXCEPT !.rules = Append(@, y)]

WithLogY(chart) == [chart EXCEPT !.logY = TRUE]

Abscissae(chart) == UNION {ToSet(s.x) : s \in ToSet(chart.series)}
Ordinates(chart) == UNION {ToSet(s.y) : s \in ToSet(chart.series)}
Bars(chart) == {s \in DOMAIN chart.series : chart.series[s].kind = "bar"}

(* nice_step: the least of 1, 2, 2.5 and 5 times a power of ten that       *)
(* divides the range into no more parts than asked for.  The powers reach  *)
(* what an axis needs for ordinates up to LargestFigure on either side.    *)
Decades == {1, 10, 100, 1000, 10000, 100000, 1000000, 10000000}
NiceSteps == {m * d : m \in {10, 20, 25, 50}, d \in Decades}
LargestFigure == 2500000 * Unit

NiceStep(range, parts) ==
  IF range <= 0 THEN Unit
  ELSE LET raw == -((-range) \div parts) IN Min({s \in NiceSteps : s >= raw})

(* Whole multiples of a step, below and above a number.                    *)
RoundDown(v, step) == (v \div step) * step
RoundUp(v, step)   == -(((-v) \div step) * step)

(* min_bar_gap: the least gap between neighbours of the bar series, 0      *)
(* where there is none.                                                    *)
MinBarGap(chart) ==
  LET gaps == (UNION {LET x == chart.series[s].x IN
                      {Max({x[i] - x[i - 1], x[i - 1] - x[i]}) : i \in 2 .. Len(x)}
                      : s \in Bars(chart)}) \ {0} IN
  IF gaps = {} THEN 0 ELSE Min(gaps)

(* compute_bounds, the ordinates: the data and the rules, bars from 0,     *)
(* headroom, and on a linear axis whole tick steps.                        *)
RangeOfSeries(chart) == Ordinates(chart)
Ranged(chart) == Ordinates(chart) \cup ToSet(chart.rules)

Least(chart) ==
  LET low == Min(Ranged(chart)) IN
  IF Bars(chart) # {} /\ low > 0 THEN 0 ELSE low

Greatest(chart) ==
  LET high == Max(Ranged(chart)) IN
  IF high <= Least(chart) THEN Least(chart) + Unit ELSE high

Padded(chart) ==
  LET pad == ((Greatest(chart) - Least(chart)) * 8) \div 100 IN
  [low  |-> IF Least(chart) = 0 THEN 0 ELSE Least(chart) - pad,
   high |-> Greatest(chart) + pad]

YRange(chart) ==
  LET r == Padded(chart)
      step == NiceStep(r.high - r.low, TicksY) IN
  IF chart.logY THEN r
  ELSE [low |-> RoundDown(r.low, step), high |-> RoundUp(r.high, step)]

(* The least ordinate a logarithmic axis can show; the 1e-9 of a chart     *)
(* with none is the least number here.                                     *)
LeastPositive(chart) ==
  LET positive == {v \in Ranged(chart) : v > 0} IN
  IF positive = {} THEN 1 ELSE Min(positive)

(* compute_bounds, the abscissae: half a gap's room on each side.          *)
XRange(chart) ==
  LET low  == Min(Abscissae(chart))
      high == Max(Abscissae(chart))
      half == MinBarGap(chart) \div 2 IN
  [low  |-> low - half,
   high |-> (IF high <= low THEN low + Unit ELSE high) + half]

(* map_y: what an ordinate is drawn as, and the ends it is drawn between.  *)
OnAxis(chart, v) == IF chart.logY /\ v <= 0 THEN LeastPositive(chart) ELSE v
YAxis(chart) ==
  [low  |-> OnAxis(chart, YRange(chart).low),
   high |-> OnAxis(chart, YRange(chart).high)]

(* put_axes: the labels of a linear axis.  The step is computed anew from  *)
(* the widened range.                                                      *)
Labels(range, step) ==
  {k * step : k \in RoundUp(range.low, step) \div step .. range.high \div step}

YLabels(chart) ==
  LET r == YRange(chart) IN Labels(r, NiceStep(r.high - r.low, TicksY))

IntegralX(chart) == \A x \in Abscissae(chart) : x % Unit = 0

XLabels(chart) ==
  LET r == XRange(chart)
      step == NiceStep(r.high - r.low, TicksX) IN
  Labels(r, IF IntegralX(chart) THEN Max({step, Unit}) ELSE step)

(* put_series, bars: their width follows the spacing of the data, with a   *)
(* floor, and the bar series stand side by side.  In pixels times Scale.   *)
Span(chart) == XRange(chart).high - XRange(chart).low
Scale(chart) == 4 * Span(chart) * Cardinality(Bars(chart))
LeastWidth(chart) == MinBarWidth * Scale(chart)

(* 0.72 of the slot, shared by the series.                                 *)
BarWidth(chart, n) ==
  LET slot == IF MinBarGap(chart) > 0 THEN MinBarGap(chart) ELSE Span(chart) \div n IN
  Max({(144 * PlotWidth * slot) \div HalfUnit, LeastWidth(chart)})

BarLeft(chart, s, i, w) ==
  LET n == Cardinality(Bars(chart)) IN
  (chart.series[s].x[i] - XRange(chart).low) * PlotWidth * 4 * n
    - (w * n) \div 2
    + w * Cardinality({k \in Bars(chart) : k < s})

Drawn(chart) ==
  UNION {LET w == BarWidth(chart, Len(chart.series[s].x)) IN
         {[series |-> s, point |-> i,
           left   |-> BarLeft(chart, s, i, w),
           right  |-> BarLeft(chart, s, i, w) + w] : i \in DOMAIN chart.series[s].x}
         : s \in Bars(chart)}

(* Where the bars grow from.                                               *)
Baseline(chart) ==
  OnAxis(chart, IF YRange(chart).low < 0 THEN 0 ELSE YRange(chart).low)

(***************************************************************************)
(* What a chart that is drawn promises.                                    *)
(***************************************************************************)

(* XRange leaves half a gap at either end, and a group of bars as wide as  *)
(* the floor makes it may be wider than a gap: it sticks out of the frame  *)
(* by half of what it is too wide.                                         *)
Overhang(chart) ==
  LET n == Cardinality(Bars(chart)) IN
  Max({0, LeastWidth(chart) * n - 4 * n * PlotWidth * MinBarGap(chart)}) \div 2

(* Every point, rule and baseline lies between the ends of both axes, and  *)
(* every bar inside the frame but for the overhang of its group.           *)
InsideFrame(chart) ==
  LET x == XRange(chart)
      y == YAxis(chart) IN
  /\ \A v \in Abscissae(chart) : x.low <= v /\ v <= x.high
  /\ \A v \in Ordinates(chart) \cup ToSet(chart.rules) :
       y.low <= OnAxis(chart, v) /\ OnAxis(chart, v) <= y.high
  /\ Bars(chart) # {} => y.low <= Baseline(chart) /\ Baseline(chart) <= y.high
  /\ \A b \in Drawn(chart) :
       /\ -Overhang(chart) <= b.left
       /\ b.right <= PlotWidth * Scale(chart) + Overhang(chart)

(* A linear axis has labels to read it by, and no more than its length     *)
(* holds.                                                                  *)
Readable(chart) ==
  /\ Cardinality(XLabels(chart)) \in 2 .. TicksX + 1
  /\ ~chart.logY => Cardinality(YLabels(chart)) \in 2 .. TicksY + 1

(* plot.c says of the snap: "so the axis begins and ends on a label rather *)
(* than on a remainder".  It does not hold: see the README.                *)
EndsOnLabel(chart) ==
  ~chart.logY => {YRange(chart).low, YRange(chart).high} \subseteq YLabels(chart)
=============================================================================
