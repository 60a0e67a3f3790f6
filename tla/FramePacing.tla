----------------------------- MODULE FramePacing -----------------------------
(***************************************************************************)
(* The frame pacer and the feasibility monitor (src/tick.c,                *)
(* src/feasibility.c) in the loop that uses both: work, a measured delta,  *)
(* more work, and fdt_tick_wait until the frame's deadline.                *)
(*                                                                         *)
(* clock is CLOCK_MONOTONIC, in nanoseconds; it moves on at any point, so  *)
(* a frame's work takes any time and a sleeper wakes any time after its    *)
(* deadline.  start, waits, frameStart, late and longFrames are history:   *)
(* when the pacer was armed, how many waits returned, when the last one    *)
(* did and whether it was an overrun, and how many frames' work took       *)
(* longer than the period.                                                 *)
(*                                                                         *)
(* An operator named for a slip (WakeRearmedFromNow, ...) is the one after *)
(* it with that slip made; nothing uses it.                                *)
(***************************************************************************)
EXTENDS Integers

CONSTANTS
  NsPerS,         \* NS_PER_S
  TickNs,         \* FDT_TICK_NS
  PeriodArg,      \* what fdt_tick_start and fdt_feas_init are given
  StartAt,        \* what the clock may show then
  MaxTime         \* bound: the clock

ASSUME PacingAssumption ==
  /\ NsPerS \in Nat \ {0}
  /\ TickNs \in Nat \ {0}
  /\ PeriodArg \subseteq Int
  /\ StartAt \subseteq Nat
  /\ MaxTime \in Nat

VARIABLES
  clock,
  next, period, overruns,                                     \* fdt_tick_t
  begin, lastNs, worstNs, totalNs, measured, violations,      \* fdt_feas_t
  at,             \* "before", "delta", "after", "asleep"
  start, waits, frameStart, late, longFrames

pacer == <<next, period, overruns>>
monitor == <<begin, lastNs, worstNs, totalNs, measured, violations>>
history == <<start, waits, frameStart, late, longFrames>>
vars == <<clock, pacer, monitor, at, history>>

Timespec == [sec : Nat, nsec : 0 .. NsPerS - 1]

Reading(t) == [sec |-> t \div NsPerS, nsec |-> t % NsPerS]
Nanos(ts) == ts.sec * NsPerS + ts.nsec

(* advance: the carry is normalised however long the period is.            *)
Advance(ts, ns) ==
  [sec |-> ts.sec + (ts.nsec + ns) \div NsPerS, nsec |-> (ts.nsec + ns) % NsPerS]

(* passed: now is strictly past the deadline.                              *)
PassedByTheSecond(deadline, now) == now.sec > deadline.sec
Passed(deadline, now) ==
  \/ now.sec > deadline.sec
  \/ now.sec = deadline.sec /\ now.nsec > deadline.nsec

PositiveOrTick(ns) == IF ns > 0 THEN ns ELSE TickNs

(* fdt_tick_start and fdt_feas_init, given the same period.                *)
Init ==
  /\ clock \in StartAt
  /\ \E arg \in PeriodArg : period = PositiveOrTick(arg)
  /\ next = Advance(Reading(clock), period)
  /\ overruns = 0
  /\ begin = Reading(0)
  /\ lastNs = 0 /\ worstNs = 0 /\ totalNs = 0 /\ measured = 0 /\ violations = 0
  /\ at = "before"
  /\ start = clock /\ waits = 0 /\ frameStart = clock
  /\ late = FALSE /\ longFrames = 0

Budget == period

TimePasses ==
  /\ clock < MaxTime
  /\ clock' = clock + 1
  /\ UNCHANGED <<pacer, monitor, at, history>>

FeasBegin ==
  /\ at = "before"
  /\ begin' = Reading(clock)
  /\ at' = "delta"
  /\ UNCHANGED <<clock, pacer, lastNs, worstNs, totalNs, measured, violations, history>>

Duration(from, to) == (to.sec - from.sec) * NsPerS + (to.nsec - from.nsec)

MeetsBudget(ns) == ns >= Budget

FeasEnd ==
  LET ns == Duration(begin, Reading(clock)) IN
  /\ at = "delta"
  /\ lastNs' = ns
  /\ totalNs' = totalNs + ns
  /\ measured' = measured + 1
  /\ worstNs' = IF ns > worstNs THEN ns ELSE worstNs
  /\ violations' = IF MeetsBudget(ns) THEN violations + 1 ELSE violations
  /\ at' = "after"
  /\ UNCHANGED <<clock, pacer, begin, history>>

(* The wait returns and the next frame begins.                             *)
FrameBegins(overran) ==
  /\ at' = "before"
  /\ late' = overran
  /\ waits' = waits + 1
  /\ frameStart' = clock

(* fdt_tick_wait, called at or after the deadline: no sleep, and the pacer *)
(* is armed anew from now.                                                 *)
WaitOverrunCatchesUp ==
  /\ at = "after" /\ Passed(next, Reading(clock))
  /\ overruns' = overruns + 1
  /\ next' = Advance(next, period)
  /\ longFrames' = IF clock - frameStart > period THEN longFrames + 1 ELSE longFrames
  /\ FrameBegins(TRUE)
  /\ UNCHANGED <<clock, period, monitor, start>>

WaitOverrun ==
  /\ at = "after" /\ Passed(next, Reading(clock))
  /\ overruns' = overruns + 1
  /\ next' = Advance(Reading(clock), period)
  /\ longFrames' = IF clock - frameStart > period THEN longFrames + 1 ELSE longFrames
  /\ FrameBegins(TRUE)
  /\ UNCHANGED <<clock, period, monitor, start>>

(* In time: sleep until the deadline, through any signal.                  *)
WaitSleep ==
  /\ at = "after" /\ ~Passed(next, Reading(clock))
  /\ at' = "asleep"
  /\ longFrames' = IF clock - frameStart > period THEN longFrames + 1 ELSE longFrames
  /\ UNCHANGED <<clock, pacer, monitor, start, waits, frameStart, late>>

(* Awake, at the deadline or after it; the next deadline counts from the   *)
(* old one.                                                                *)
WakeRearmedFromNow ==
  /\ at = "asleep" /\ ~Passed(Reading(clock), next)
  /\ next' = Advance(Reading(clock), period)
  /\ FrameBegins(FALSE)
  /\ UNCHANGED <<clock, period, overruns, monitor, start, longFrames>>

WakeOnSignal ==
  /\ at = "asleep"
  /\ next' = Advance(next, period)
  /\ FrameBegins(FALSE)
  /\ UNCHANGED <<clock, period, overruns, monitor, start, longFrames>>

Wake ==
  /\ at = "asleep" /\ ~Passed(Reading(clock), next)
  /\ next' = Advance(next, period)
  /\ FrameBegins(FALSE)
  /\ UNCHANGED <<clock, period, overruns, monitor, start, longFrames>>

Next ==
  TimePasses \/ FeasBegin \/ FeasEnd \/ WaitOverrun \/ WaitSleep \/ Wake

Spec == Init /\ [][Next]_vars

-----------------------------------------------------------------------------

TypeOK ==
  /\ clock \in Nat
  /\ next \in Timespec /\ period \in Nat \ {0} /\ overruns \in Nat
  /\ begin \in Timespec
  /\ lastNs \in Nat /\ worstNs \in Nat /\ totalNs \in Nat
  /\ measured \in Nat /\ violations \in Nat
  /\ at \in {"before", "delta", "after", "asleep"}
  /\ start \in Nat /\ waits \in Nat /\ frameStart \in Nat /\ longFrames \in Nat
  /\ late \in BOOLEAN

(* Frames never run ahead of their schedule: whatever was late, however    *)
(* the pacer was re-armed and whichever signals came, w frames take at     *)
(* least w periods.                                                        *)
NeverAhead ==
  /\ clock >= start + waits * period
  /\ Nanos(next) >= start + (waits + 1) * period

(* tick.c: "jitter inside one frame does not shift the next".  Without an  *)
(* overrun the deadlines stay on the grid laid when the pacer was armed,   *)
(* however late the sleeper woke each time.                                *)
NoDrift == overruns = 0 => Nanos(next) = start + (waits + 1) * period

(* A frame whose work takes longer than the period is always counted.      *)
LongFramesCounted == longFrames <= overruns

(* A late frame costs one overrun, not a series of them while the pacer    *)
(* catches up (tests/test_tick.c: "the pacer re-arms"): if the frame after *)
(* an overrun overruns too, its own work took longer than the period.      *)
LateFrameCostsOneOverrun ==
  [][overruns' # overruns /\ late => clock - frameStart > period]_vars

(* Section IV's deadline, seen by two modules that read the clock at       *)
(* different points: as long as no frame overran, no delta measured in a   *)
(* finished frame was longer than the budget.                              *)
FeasibleUnlessLate ==
  at = "before" /\ overruns = 0 => worstNs <= Budget

(* The predicate and the statistics agree: infeasible is a worst delta at  *)
(* or over the budget, and the mean is no worse than the worst.            *)
MonitorConsistent ==
  /\ violations = 0 <=> worstNs < Budget
  /\ violations <= measured
  /\ lastNs <= worstNs /\ totalNs <= worstNs * measured

(* tick.h: overruns counts "Frames whose work exceeded the period".        *)
OverrunMeansLongWork == overruns = longFrames
=============================================================================
