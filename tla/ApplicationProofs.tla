--------------------------- MODULE ApplicationProofs ---------------------------
(***************************************************************************)
(* What the applications' frame keeps.  The pacer and the feasibility      *)
(* monitor, for any period, any clock and any lateness of the sleeper; the *)
(* environment, for any number of simulations; both, with the tick of one  *)
(* tied to the frame of the other, in the daemon's loop; and the telemetry *)
(* that crosses the wire in a frame, for any vessels, readings and cuts.   *)
(***************************************************************************)
EXTENDS Daemon, TelemetryPath, SequenceTheorems, TLAPS


-----------------------------------------------------------------------------
(* The timespec arithmetic of tick.c, against the numbers it stands for.   *)

LEMMA ReadingIsTheTime ==
  ASSUME NEW t \in Nat
  PROVE  Reading(t) \in Timespec /\ Nanos(Reading(t)) = t
<1>1. NsPerS \in Nat \ {0} BY PacingAssumption
<1>2. t \div NsPerS \in Nat /\ (t % NsPerS) \in 0 .. NsPerS - 1 BY <1>1
<1>3. (t \div NsPerS) * NsPerS + (t % NsPerS) = t BY <1>1
<1> QED BY <1>2, <1>3 DEF Reading, Timespec, Nanos

LEMMA NanosType ==
  ASSUME NEW ts \in Timespec
  PROVE  Nanos(ts) \in Nat
<1>1. NsPerS \in Nat \ {0} /\ ts.sec \in Nat /\ ts.nsec \in Nat
  BY PacingAssumption DEF Timespec
<1>2. ts.sec * NsPerS \in Nat BY <1>1
<1> QED BY <1>1, <1>2 DEF Nanos

LEMMA AdvanceAdds ==
  ASSUME NEW ts \in Timespec, NEW ns \in Nat
  PROVE  Advance(ts, ns) \in Timespec /\ Nanos(Advance(ts, ns)) = Nanos(ts) + ns
<1> DEFINE total == ts.nsec + ns
<1>1. /\ NsPerS \in Nat \ {0} /\ ts.sec \in Nat /\ ts.nsec \in Nat /\ total \in Nat
  BY PacingAssumption DEF Timespec
<1>2. total \div NsPerS \in Nat /\ (total % NsPerS) \in 0 .. NsPerS - 1
  BY <1>1
<1>3. (total \div NsPerS) * NsPerS + (total % NsPerS) = total
  <2>1. \A t \in Nat : (t \div NsPerS) * NsPerS + (t % NsPerS) = t
    BY <1>1
  <2> HIDE DEF total
  <2> QED BY <1>1, <2>1
<1>4. (ts.sec + total \div NsPerS) * NsPerS = ts.sec * NsPerS + (total \div NsPerS) * NsPerS
  BY <1>1, <1>2
<1>5. ts.sec * NsPerS \in Nat /\ (total \div NsPerS) * NsPerS \in Nat
  BY <1>1, <1>2
<1> HIDE DEF total
<1>6. Advance(ts, ns) = [sec |-> ts.sec + total \div NsPerS, nsec |-> (total % NsPerS)]
  BY DEF Advance, total
<1>7. Advance(ts, ns) \in Timespec
  BY <1>1, <1>2, <1>6 DEF Timespec
<1>8. Nanos(Advance(ts, ns)) = (ts.sec + total \div NsPerS) * NsPerS + (total % NsPerS)
  BY <1>6 DEF Nanos
<1>9. Nanos(Advance(ts, ns)) = ts.sec * NsPerS + total
  BY <1>1, <1>2, <1>3, <1>4, <1>5, <1>8
<1> QED BY <1>1, <1>5, <1>7, <1>9 DEF Nanos, total

LEMMA PassedIsLater ==
  ASSUME NEW d \in Timespec, NEW now \in Timespec
  PROVE  Passed(d, now) <=> Nanos(now) > Nanos(d)
<1>1. /\ NsPerS \in Nat \ {0}
      /\ d.sec \in Nat /\ d.nsec \in 0 .. NsPerS - 1
      /\ now.sec \in Nat /\ now.nsec \in 0 .. NsPerS - 1
  BY PacingAssumption DEF Timespec
<1>2. \A a, b \in Nat : a > b => a * NsPerS >= b * NsPerS + NsPerS
  <2> SUFFICES ASSUME NEW a \in Nat, NEW b \in Nat, a > b
               PROVE a * NsPerS >= b * NsPerS + NsPerS
    OBVIOUS
  <2>1. PICK c \in Nat : a = b + 1 + c
    <3>1. a - b - 1 \in Nat /\ a = b + 1 + (a - b - 1) OBVIOUS
    <3> QED BY <3>1
  <2>2. a * NsPerS = b * NsPerS + NsPerS + c * NsPerS BY <1>1, <2>1
  <2>3. c * NsPerS \in Nat /\ b * NsPerS \in Nat BY <1>1
  <2> QED BY <1>1, <2>2, <2>3
<1>3. d.sec * NsPerS \in Nat /\ now.sec * NsPerS \in Nat BY <1>1
<1>4. CASE now.sec > d.sec
  <2>1. now.sec * NsPerS >= d.sec * NsPerS + NsPerS BY <1>1, <1>2, <1>4
  <2> QED BY <1>1, <1>3, <1>4, <2>1 DEF Passed, Nanos
<1>5. CASE now.sec = d.sec
  BY <1>1, <1>3, <1>5 DEF Passed, Nanos
<1>6. CASE now.sec < d.sec
  <2>1. d.sec * NsPerS >= now.sec * NsPerS + NsPerS BY <1>1, <1>2, <1>6
  <2> QED BY <1>1, <1>3, <1>6, <2>1 DEF Passed, Nanos
<1> QED BY <1>1, <1>4, <1>5, <1>6

LEMMA DurationIsTheDifference ==
  ASSUME NEW a \in Timespec, NEW b \in Timespec
  PROVE  Duration(a, b) = Nanos(b) - Nanos(a)
<1>1. /\ NsPerS \in Nat \ {0} /\ a.sec \in Nat /\ a.nsec \in Nat
      /\ b.sec \in Nat /\ b.nsec \in Nat
  BY PacingAssumption DEF Timespec
<1>2. (b.sec - a.sec) * NsPerS = b.sec * NsPerS - a.sec * NsPerS BY <1>1
<1>3. a.sec * NsPerS \in Nat /\ b.sec * NsPerS \in Nat BY <1>1
<1> QED BY <1>1, <1>2, <1>3 DEF Duration, Nanos

-----------------------------------------------------------------------------
(* The invariant: the deadline is at most a period after the frame began,  *)
(* and exactly that after an overrun; what was measured in this frame lies *)
(* within it.                                                              *)

FrameBounds ==
  /\ frameStart <= clock
  /\ Nanos(next) <= frameStart + period
  /\ late => Nanos(next) = frameStart + period

DeltaWithinFrame ==
  /\ at = "delta" => frameStart <= Nanos(begin) /\ Nanos(begin) <= clock
  /\ overruns = 0 =>
       IF at = "after" THEN worstNs <= period \/ worstNs <= clock - frameStart
       ELSE worstNs <= period

PacingInv ==
  /\ TypeOK
  /\ NeverAhead /\ NoDrift /\ LongFramesCounted /\ MonitorConsistent
  /\ FrameBounds /\ DeltaWithinFrame

(* What every step needs of the constants and the types.                   *)
LEMMA Numbers ==
  ASSUME TypeOK
  PROVE  /\ NsPerS \in Nat \ {0} /\ period \in Nat \ {0} /\ Budget \in Nat \ {0}
         /\ Reading(clock) \in Timespec /\ Nanos(Reading(clock)) = clock
         /\ Nanos(next) \in Nat /\ Nanos(begin) \in Nat
         /\ (waits + 1) * period \in Nat /\ waits * period \in Nat
         /\ (waits + 1) * period = waits * period + period
         /\ (waits + 1 + 1) * period = (waits + 1) * period + period
<1> QED BY PacingAssumption, ReadingIsTheTime, NanosType DEF TypeOK, Budget

LEMMA PacingInit == Init => PacingInv
<1> SUFFICES ASSUME Init PROVE PacingInv
  OBVIOUS
<1>1. clock \in Nat /\ period \in Nat \ {0}
  BY PacingAssumption DEF Init, PositiveOrTick
<1>2. /\ Reading(clock) \in Timespec /\ Nanos(Reading(clock)) = clock
      /\ Reading(0) \in Timespec
  BY <1>1, ReadingIsTheTime
<1>3. next \in Timespec /\ Nanos(next) = clock + period
  BY <1>1, <1>2, AdvanceAdds DEF Init
<1>4. TypeOK
  BY <1>1, <1>2, <1>3 DEF Init, TypeOK
<1>5. (0 + 1) * period = period /\ 0 * period = 0 /\ 0 * 0 = 0
  BY <1>1
<1>6. NeverAhead /\ NoDrift
  BY <1>1, <1>3, <1>5 DEF Init, NeverAhead, NoDrift
<1>7. LongFramesCounted /\ MonitorConsistent
  BY <1>1, <1>5 DEF Init, LongFramesCounted, MonitorConsistent, Budget
<1>8. FrameBounds /\ DeltaWithinFrame
  BY <1>1, <1>3 DEF Init, FrameBounds, DeltaWithinFrame
<1> QED BY <1>4, <1>6, <1>7, <1>8 DEF PacingInv

LEMMA TimePassesKeeps == PacingInv /\ TimePasses => PacingInv'
<1> SUFFICES ASSUME PacingInv, TimePasses PROVE PacingInv'
  OBVIOUS
<1> USE Numbers DEF PacingInv, TimePasses, pacer, monitor, history
<1>1. TypeOK' BY DEF TypeOK
<1>2. NeverAhead' BY DEF TypeOK, NeverAhead
<1>3. (NoDrift /\ LongFramesCounted)' BY DEF NoDrift, LongFramesCounted
<1>4. MonitorConsistent' BY DEF MonitorConsistent, Budget
<1>5. FrameBounds' BY DEF TypeOK, FrameBounds
<1>6. DeltaWithinFrame' BY DEF TypeOK, DeltaWithinFrame
<1> QED BY <1>1, <1>2, <1>3, <1>4, <1>5, <1>6

LEMMA FeasBeginKeeps == PacingInv /\ FeasBegin => PacingInv'
<1> SUFFICES ASSUME PacingInv, FeasBegin PROVE PacingInv'
  OBVIOUS
<1> USE Numbers DEF PacingInv, FeasBegin, pacer, history
<1>1. TypeOK' BY DEF TypeOK
<1>2. NeverAhead' BY DEF NeverAhead
<1>3. (NoDrift /\ LongFramesCounted)' BY DEF NoDrift, LongFramesCounted
<1>4. MonitorConsistent' BY DEF MonitorConsistent, Budget
<1>5. FrameBounds' BY DEF FrameBounds
<1>6. DeltaWithinFrame' BY DEF TypeOK, DeltaWithinFrame, FrameBounds
<1> QED BY <1>1, <1>2, <1>3, <1>4, <1>5, <1>6

LEMMA ProductInNat == \A a, m \in Nat : a * m \in Nat
<1> QED OBVIOUS

LEMMA ProductGrows ==
  ASSUME NEW a \in Nat, NEW b \in Nat, NEW m \in Nat, a <= b
  PROVE  a * m <= b * m
<1> DEFINE d == b - a
<1>1. d \in Nat /\ b = a + d
  OBVIOUS
<1> HIDE DEF d
<1>2. \A x, y, z \in Nat : (x + y) * z = x * z + y * z
  OBVIOUS
<1>3. b * m = a * m + d * m
  BY <1>1, <1>2
<1>4. a * m \in Nat /\ d * m \in Nat
  BY <1>1, ProductInNat
<1> DEFINE p == a * m
           q == d * m
<1>5. p \in Nat /\ q \in Nat /\ b * m = p + q
  BY <1>3, <1>4
<1> HIDE DEF p, q
<1>6. p <= b * m
  BY <1>5
<1> QED BY <1>6 DEF p

(* The delta just measured lies within the frame.                          *)
LEMMA FeasEndKeeps == PacingInv /\ FeasEnd => PacingInv'
<1> SUFFICES ASSUME PacingInv, FeasEnd PROVE PacingInv'
  OBVIOUS
<1> DEFINE ns == Duration(begin, Reading(clock))
<1>1. TypeOK /\ at = "delta"
  BY DEF PacingInv, FeasEnd
<1>2. ns = clock - Nanos(begin) /\ ns \in Nat /\ ns <= clock - frameStart
  <2>1. ns = clock - Nanos(begin)
    BY <1>1, Numbers, DurationIsTheDifference DEF TypeOK
  <2> QED BY <1>1, <2>1, Numbers DEF PacingInv, DeltaWithinFrame, TypeOK
<1> HIDE DEF ns
<1>3. /\ lastNs' = ns /\ totalNs' = totalNs + ns /\ measured' = measured + 1
      /\ worstNs' = IF ns > worstNs THEN ns ELSE worstNs
      /\ violations' = IF ns >= Budget THEN violations + 1 ELSE violations
      /\ at' = "after" /\ UNCHANGED <<clock, pacer, begin, history>>
  BY DEF FeasEnd, MeetsBudget, ns
<1>4. TypeOK'
  BY <1>1, <1>2, <1>3 DEF TypeOK, pacer, history
<1>5. NeverAhead' /\ NoDrift' /\ LongFramesCounted' /\ FrameBounds'
  BY <1>3 DEF PacingInv, NeverAhead, NoDrift, LongFramesCounted, FrameBounds, pacer, history
<1>6. MonitorConsistent'
  <2>1. /\ violations' = 0 <=> worstNs' < Budget'
        /\ violations' <= measured' /\ lastNs' <= worstNs'
    BY <1>1, <1>2, <1>3, Numbers DEF PacingInv, MonitorConsistent, TypeOK, Budget, pacer
  <2>2. totalNs' <= worstNs' * measured'
    <3>1. /\ worstNs \in Nat /\ worstNs' \in Nat /\ measured \in Nat /\ totalNs \in Nat
          /\ worstNs <= worstNs' /\ ns <= worstNs'
      BY <1>1, <1>2, <1>3 DEF TypeOK
    <3>2. worstNs * measured <= worstNs' * measured
      BY <3>1, ProductGrows
    <3>3. worstNs' * (measured + 1) = worstNs' * measured + worstNs'
      BY <3>1
    <3>4. worstNs * measured \in Nat /\ worstNs' * measured \in Nat
      BY <3>1, ProductInNat
    <3>5. totalNs <= worstNs * measured
      BY DEF PacingInv, MonitorConsistent
    <3> QED BY <1>2, <1>3, <3>1, <3>2, <3>3, <3>4, <3>5
  <2> QED BY <2>1, <2>2 DEF MonitorConsistent
<1>7. DeltaWithinFrame'
  BY <1>1, <1>2, <1>3, Numbers DEF PacingInv, DeltaWithinFrame, TypeOK, pacer, history
<1> QED BY <1>4, <1>5, <1>6, <1>7 DEF PacingInv

(* A wait that found its deadline gone: the clock is past it.              *)
LEMMA WaitOverrunKeeps == PacingInv /\ WaitOverrun => PacingInv'
<1> SUFFICES ASSUME PacingInv, WaitOverrun PROVE PacingInv'
  OBVIOUS
<1>1. TypeOK BY DEF PacingInv
<1>2. clock > Nanos(next)
  BY <1>1, Numbers, PassedIsLater DEF WaitOverrun, TypeOK
<1>3. next' \in Timespec /\ Nanos(next') = clock + period
  BY <1>1, Numbers, AdvanceAdds DEF WaitOverrun
<1>4. /\ overruns' = overruns + 1 /\ waits' = waits + 1 /\ frameStart' = clock
      /\ at' = "before" /\ late' = TRUE
      /\ longFrames' = IF clock - frameStart > period THEN longFrames + 1 ELSE longFrames
      /\ UNCHANGED <<clock, period, monitor, start>>
  BY DEF WaitOverrun, FrameBegins
<1>5. TypeOK'
  BY <1>1, <1>3, <1>4 DEF TypeOK, monitor
<1>6. NeverAhead'
  <2>1. Nanos(next)' = clock + period
    BY <1>3, <1>4 DEF Nanos
  <2> QED BY <1>1, <1>2, <1>4, <2>1, Numbers DEF PacingInv, NeverAhead, TypeOK
<1>7. NoDrift' /\ LongFramesCounted'
  BY <1>1, <1>4 DEF PacingInv, NoDrift, LongFramesCounted, TypeOK
<1>8. MonitorConsistent'
  BY <1>4 DEF PacingInv, MonitorConsistent, Budget, monitor
<1>9. FrameBounds' /\ DeltaWithinFrame'
  <2>1. Nanos(next)' = clock + period
    BY <1>3, <1>4 DEF Nanos
  <2> QED BY <1>1, <1>4, <2>1, Numbers DEF FrameBounds, DeltaWithinFrame, TypeOK
<1> QED BY <1>5, <1>6, <1>7, <1>8, <1>9 DEF PacingInv

(* A wait in time: the frame was not a long one.                           *)
LEMMA WaitSleepKeeps == PacingInv /\ WaitSleep => PacingInv'
<1> SUFFICES ASSUME PacingInv, WaitSleep PROVE PacingInv'
  OBVIOUS
<1>1. TypeOK /\ at = "after" BY DEF PacingInv, WaitSleep
<1>2. clock <= Nanos(next)
  BY <1>1, Numbers, PassedIsLater DEF WaitSleep, TypeOK
<1>3. clock - frameStart <= period
  BY <1>1, <1>2, Numbers DEF PacingInv, FrameBounds, TypeOK
<1>4. at' = "asleep" /\ longFrames' = longFrames
  BY <1>1, <1>3, Numbers DEF WaitSleep, TypeOK
<1>5. UNCHANGED <<clock, pacer, monitor, start, waits, frameStart, late>>
  BY DEF WaitSleep
<1>6. TypeOK'
  BY <1>1, <1>4, <1>5 DEF TypeOK, pacer, monitor
<1>7. NeverAhead' /\ NoDrift' /\ LongFramesCounted' /\ FrameBounds'
  BY <1>4, <1>5 DEF PacingInv, NeverAhead, NoDrift, LongFramesCounted, FrameBounds, pacer
<1>8. MonitorConsistent'
  BY <1>5 DEF PacingInv, MonitorConsistent, Budget, pacer, monitor
<1>9. DeltaWithinFrame'
  BY <1>1, <1>3, <1>4, <1>5, Numbers DEF PacingInv, DeltaWithinFrame, TypeOK, pacer, monitor
<1> QED BY <1>6, <1>7, <1>8, <1>9 DEF PacingInv

(* The sleeper is awake, at its deadline or after it.                      *)
LEMMA WakeKeeps == PacingInv /\ Wake => PacingInv'
<1> SUFFICES ASSUME PacingInv, Wake PROVE PacingInv'
  OBVIOUS
<1>1. TypeOK /\ at = "asleep" BY DEF PacingInv, Wake
<1>2. clock >= Nanos(next)
  BY <1>1, Numbers, PassedIsLater DEF Wake, TypeOK
<1>3. next' \in Timespec /\ Nanos(next') = Nanos(next) + period
  BY <1>1, Numbers, AdvanceAdds DEF Wake, TypeOK
<1>4. /\ waits' = waits + 1 /\ frameStart' = clock /\ at' = "before" /\ late' = FALSE
      /\ UNCHANGED <<clock, period, overruns, monitor, start, longFrames>>
  BY DEF Wake, FrameBegins
<1>5. Nanos(next)' = Nanos(next) + period
  BY <1>3, <1>4 DEF Nanos
<1>6. TypeOK'
  <2>1. late' \in BOOLEAN /\ at' \in {"before", "delta", "after", "asleep"}
    BY <1>4
  <2>2. clock' \in Nat /\ period' \in Nat \ {0} /\ overruns' \in Nat /\ begin' \in Timespec'
    BY <1>1, <1>4 DEF TypeOK, monitor, Timespec
  <2>3. next' \in Timespec'
    BY <1>3 DEF Timespec
  <2>4. /\ lastNs' \in Nat /\ worstNs' \in Nat /\ totalNs' \in Nat
        /\ measured' \in Nat /\ violations' \in Nat
        /\ start' \in Nat /\ waits' \in Nat /\ frameStart' \in Nat /\ longFrames' \in Nat
    BY <1>1, <1>4 DEF TypeOK, monitor
  <2> QED BY <2>1, <2>2, <2>3, <2>4 DEF TypeOK
<1>7. NeverAhead'
  BY <1>1, <1>2, <1>4, <1>5, Numbers DEF PacingInv, NeverAhead, TypeOK
<1>8. NoDrift'
  BY <1>1, <1>4, <1>5, Numbers DEF PacingInv, NoDrift, TypeOK
<1>9. LongFramesCounted' /\ MonitorConsistent'
  BY <1>4 DEF PacingInv, LongFramesCounted, MonitorConsistent, Budget, monitor
<1>10. FrameBounds' /\ DeltaWithinFrame'
  BY <1>1, <1>2, <1>4, <1>5, Numbers
  DEF PacingInv, FrameBounds, DeltaWithinFrame, TypeOK, monitor
<1> QED BY <1>6, <1>7, <1>8, <1>9, <1>10 DEF PacingInv

LEMMA PacingStep == PacingInv /\ [Next]_vars => PacingInv'
<1> SUFFICES ASSUME PacingInv, [Next]_vars PROVE PacingInv'
  OBVIOUS
<1>1. CASE UNCHANGED vars
  BY <1>1 DEF vars, pacer, monitor, history, PacingInv, TypeOK, NeverAhead, NoDrift,
    LongFramesCounted, MonitorConsistent, FrameBounds, DeltaWithinFrame, Budget
<1> QED BY <1>1, TimePassesKeeps, FeasBeginKeeps, FeasEndKeeps, WaitOverrunKeeps,
           WaitSleepKeeps, WakeKeeps DEF Next

LEMMA PacingInvariant == Spec => []PacingInv
<1> QED BY PacingInit, PacingStep, PTL DEF Spec

-----------------------------------------------------------------------------

(* Deadlines stay normalised timespecs, whatever the period.               *)
THEOREM PacingTypeCorrect == Spec => []TypeOK
<1>1. PacingInv => TypeOK BY DEF PacingInv
<1> QED BY PacingInvariant, <1>1, PTL

(* w waits take at least w periods, whatever was late.                     *)
THEOREM PacingNeverAhead == Spec => []NeverAhead
<1>1. PacingInv => NeverAhead BY DEF PacingInv
<1> QED BY PacingInvariant, <1>1, PTL

(* Without an overrun the deadlines stay on the grid.                      *)
THEOREM PacingNoDrift == Spec => []NoDrift
<1>1. PacingInv => NoDrift BY DEF PacingInv
<1> QED BY PacingInvariant, <1>1, PTL

(* No frame whose work took longer than the period goes uncounted.         *)
THEOREM PacingLongFramesCounted == Spec => []LongFramesCounted
<1>1. PacingInv => LongFramesCounted BY DEF PacingInv
<1> QED BY PacingInvariant, <1>1, PTL

(* The feasibility predicate agrees with the worst case and the mean.      *)
THEOREM PacingMonitorConsistent == Spec => []MonitorConsistent
<1>1. PacingInv => MonitorConsistent BY DEF PacingInv
<1> QED BY PacingInvariant, <1>1, PTL

(* As long as no frame overran, every finished frame's delta was feasible  *)
(* or exactly on the budget.                                               *)
THEOREM PacingFeasibleUnlessLate == Spec => []FeasibleUnlessLate
<1>1. PacingInv => FeasibleUnlessLate
  BY DEF PacingInv, DeltaWithinFrame, FeasibleUnlessLate, Budget
<1> QED BY PacingInvariant, <1>1, PTL

(* A late frame costs one overrun: one that follows is of its own making.  *)
THEOREM PacingLateFrameCostsOneOverrun == Spec => LateFrameCostsOneOverrun
<1>1. ASSUME PacingInv, [Next]_vars, overruns' # overruns, late
      PROVE  clock - frameStart > period
  <2>1. WaitOverrun
    BY <1>1 DEF Next, vars, TimePasses, FeasBegin, FeasEnd, WaitSleep, Wake, pacer
  <2>2. TypeOK BY <1>1 DEF PacingInv
  <2>3. clock > Nanos(next)
    BY <2>1, <2>2, Numbers, PassedIsLater DEF WaitOverrun, TypeOK
  <2> QED BY <1>1, <2>2, <2>3, Numbers DEF PacingInv, FrameBounds, TypeOK
<1>2. PacingInv /\ [Next]_vars
        => [overruns' # overruns /\ late => clock - frameStart > period]_vars
  BY <1>1
<1> QED BY PacingInvariant, <1>2, PTL DEF Spec, LateFrameCostsOneOverrun

-----------------------------------------------------------------------------
(* The environment: every slot already called this tick, and no other, is  *)
(* one index ahead.  A callback that registers a simulation fills a slot   *)
(* the tick has not reached yet, so the same tick reaches it.              *)

IssueBounds ==
  /\ called <= Len(slots)
  /\ \A i \in DOMAIN joined : joined[i] <= tick

DteInv == DteTypeOK /\ IssueBounds /\ SimsInLockstep

(* The indices of one simulation, up to the next one.                      *)
LEMMA SeenGrows ==
  ASSUME NEW from \in Nat, NEW n \in Nat
  PROVE  LET given == [j \in 1 .. n |-> from + j - 1]
         IN  /\ given \in Seq(Nat)
             /\ Append(given, from + n) = [j \in 1 .. n + 1 |-> from + j - 1]
<1> DEFINE given == [j \in 1 .. n |-> from + j - 1]
           more == [j \in 1 .. n + 1 |-> from + j - 1]
<1>1. given \in Seq(Nat) /\ Len(given) = n
  BY IsASeq
<1>2. more \in Seq(Nat) /\ Len(more) = n + 1
  BY IsASeq
<1>3. \A j \in 1 .. n : given[j] = from + j - 1
  OBVIOUS
<1>4. \A j \in 1 .. n + 1 : more[j] = from + j - 1
  OBVIOUS
<1> HIDE DEF given, more
<1>5. /\ Append(given, from + n) \in Seq(Nat)
      /\ Len(Append(given, from + n)) = n + 1
      /\ \A j \in 1 .. n : Append(given, from + n)[j] = given[j]
      /\ Append(given, from + n)[n + 1] = from + n
  BY <1>1, AppendProperties
<1>6. ASSUME NEW j \in 1 .. n + 1 PROVE Append(given, from + n)[j] = more[j]
  <2>1. j = n + 1 \/ j \in 1 .. n
    OBVIOUS
  <2> QED BY <1>3, <1>4, <1>5, <2>1
<1>7. Append(given, from + n) = more
  BY <1>2, <1>5, <1>6, SeqEqual
<1> QED BY <1>1, <1>7 DEF given, more

LEMMA DteShape ==
  ASSUME DteInv
  PROVE  /\ Len(slots) \in Nat /\ tick \in Nat /\ called \in Nat /\ issuing \in BOOLEAN
         /\ DOMAIN slots = 1 .. Len(slots) /\ Len(joined) = Len(slots)
         /\ DOMAIN joined = 1 .. Len(slots) /\ DOMAIN seen = 1 .. Len(slots)
         /\ \A i \in 1 .. Len(slots) : joined[i] \in Nat /\ joined[i] <= tick
         /\ \A i \in 1 .. Len(slots) : seen[i] \in Seq(Nat)
<1>1. /\ slots \in Seq(Sim) /\ joined \in Seq(Nat) /\ seen \in Seq(Seq(Nat))
      /\ Len(joined) = Len(slots) /\ Len(seen) = Len(slots)
      /\ tick \in Nat /\ called \in Nat /\ issuing \in BOOLEAN
  BY DEF DteInv, DteTypeOK
<1>2. /\ Len(slots) \in Nat /\ DOMAIN slots = 1 .. Len(slots)
      /\ DOMAIN joined = 1 .. Len(slots) /\ DOMAIN seen = 1 .. Len(slots)
  BY <1>1, LenProperties
<1>3. /\ \A i \in 1 .. Len(slots) : joined[i] \in Nat
      /\ \A i \in 1 .. Len(slots) : seen[i] \in Seq(Nat)
  BY <1>1, ElementOfSeq
<1> QED BY <1>1, <1>2, <1>3 DEF DteInv, IssueBounds

(* A tick begun: nothing called yet, whatever the last tick left in called. *)
LEMMA TickBeginKeeps == DteInv /\ TickBegin => DteInv'
<1> SUFFICES ASSUME DteInv, TickBegin PROVE DteInv'
  OBVIOUS
<1>1. /\ ~issuing /\ issuing' = TRUE /\ called' = 0
      /\ slots' = slots /\ tick' = tick /\ joined' = joined /\ seen' = seen
  BY DEF TickBegin
<1>2. DteTypeOK' BY <1>1 DEF DteInv, DteTypeOK
<1>3. IssueBounds' BY <1>1, DteShape DEF DteInv, IssueBounds
<1>4. ASSUME NEW i \in DOMAIN seen PROVE Elapsed(i)' = Elapsed(i)
  BY <1>1, <1>4, DteShape DEF Elapsed
<1>5. SimsInLockstep'
  BY <1>1, <1>4 DEF DteInv, SimsInLockstep
<1> QED BY <1>2, <1>3, <1>5 DEF DteInv

(* One simulation called: its sequence of indices grows by the tick's.     *)
LEMMA CallNextKeeps == DteInv /\ CallNext => DteInv'
<1> SUFFICES ASSUME DteInv, CallNext PROVE DteInv'
  OBVIOUS
<1>1. PICK k \in Nat : k = called + 1
  BY DteShape
<1>2. /\ issuing /\ called < Len(slots) /\ called' = k
      /\ slots' = slots /\ tick' = tick /\ joined' = joined /\ issuing' = issuing
      /\ seen' = [seen EXCEPT ![k] = Append(@, tick)]
  BY <1>1 DEF CallNext
<1>3. k \in 1 .. Len(slots) /\ k = called + 1
  BY <1>1, <1>2, DteShape
<1>4. /\ seen[k] = [j \in 1 .. tick - joined[k] |-> joined[k] + j - 1]
      /\ tick - joined[k] \in Nat /\ joined[k] \in Nat
      /\ Elapsed(k)' = (tick - joined[k]) + 1
  <2>1. tick \in Nat /\ joined[k] \in Nat /\ joined[k] <= tick /\ k \in DOMAIN seen
    BY <1>3, DteShape
  <2>2. ~(k <= called) /\ k <= called'
    BY <1>2, <1>3, DteShape
  <2>3. Elapsed(k) = (tick - joined[k]) + 0
    BY <2>2 DEF Elapsed
  <2>4. Elapsed(k)' = (tick - joined[k]) + 1
    BY <1>2, <2>2 DEF Elapsed
  <2>5. tick - joined[k] \in Nat /\ Elapsed(k) = tick - joined[k]
    BY <2>1, <2>3
  <2>6. seen[k] = [j \in 1 .. Elapsed(k) |-> joined[k] + j - 1]
    BY <2>1 DEF DteInv, SimsInLockstep
  <2> QED BY <2>1, <2>4, <2>5, <2>6
<1>5. /\ seen'[k] = [j \in 1 .. Elapsed(k)' |-> joined'[k] + j - 1]
      /\ seen'[k] \in Seq(Nat)
  <2> DEFINE n == tick - joined[k]
             from == joined[k]
  <2>1. from + n = tick /\ from \in Nat /\ n \in Nat
    BY <1>3, <1>4, DteShape
  <2>2. seen'[k] = Append(seen[k], tick)
    BY <1>2, <1>3, DteShape
  <2>3. Append(seen[k], tick) \in Seq(Nat)
    BY <1>3, DteShape, AppendProperties
  <2>4. seen[k] = [j \in 1 .. n |-> from + j - 1] /\ Elapsed(k)' = n + 1 /\ joined'[k] = from
    BY <1>2, <1>4
  <2> HIDE DEF n, from
  <2>5. Append([j \in 1 .. n |-> from + j - 1], from + n) = [j \in 1 .. n + 1 |-> from + j - 1]
    BY <2>1, SeenGrows
  <2> QED BY <2>1, <2>2, <2>3, <2>4, <2>5
<1>6. DOMAIN seen' = DOMAIN seen /\ \A i \in DOMAIN seen : i # k => seen'[i] = seen[i]
  BY <1>2
<1>7. seen' \in Seq(Seq(Nat)) /\ Len(seen') = Len(slots)
  <2>1. \A i \in 1 .. Len(slots) : seen'[i] \in Seq(Nat)
    BY <1>5, <1>6, DteShape
  <2>2. seen' = [i \in 1 .. Len(slots) |-> seen'[i]]
    BY <1>2, DteShape
  <2> DEFINE s == [i \in 1 .. Len(slots) |-> seen'[i]]
  <2>3. s \in Seq(Seq(Nat)) /\ Len(s) = Len(slots)
    BY <2>1, DteShape, IsASeq
  <2> QED BY <2>2, <2>3
<1>8. DteTypeOK'
  <2>1. called' \in Nat
    BY <1>2, <1>3
  <2> QED BY <1>2, <1>7, <2>1 DEF DteInv, DteTypeOK
<1>9. IssueBounds' BY <1>2, <1>3, DteShape DEF DteInv, IssueBounds
<1>10. SimsInLockstep'
  <2> SUFFICES ASSUME NEW i \in DOMAIN seen'
               PROVE  seen'[i] = [j \in 1 .. Elapsed(i)' |-> joined'[i] + j - 1]
    BY DEF SimsInLockstep
  <2>1. CASE i = k BY <1>5, <2>1
  <2>2. CASE i # k
    <3>1. Elapsed(i)' = Elapsed(i)
      BY <1>2, <1>3, <1>6, <2>2, DteShape DEF Elapsed
    <3>2. i \in DOMAIN seen /\ seen'[i] = seen[i]
      BY <1>6, <2>2
    <3>3. seen[i] = [j \in 1 .. Elapsed(i) |-> joined[i] + j - 1]
      BY <3>2 DEF DteInv, SimsInLockstep
    <3> QED BY <1>2, <3>1, <3>2, <3>3
  <2> QED BY <2>1, <2>2
<1> QED BY <1>8, <1>9, <1>10 DEF DteInv

(* The index moves on when every slot has been called.                     *)
LEMMA TickEndKeeps == DteInv /\ TickEnd => DteInv'
<1> SUFFICES ASSUME DteInv, TickEnd PROVE DteInv'
  OBVIOUS
<1>1. /\ issuing /\ called >= Len(slots) /\ issuing' = FALSE /\ tick' = tick + 1
      /\ slots' = slots /\ called' = called /\ joined' = joined /\ seen' = seen
  BY DEF TickEnd, AllCalled
<1>2. DteTypeOK'
  <2>1. tick' \in Nat
    BY <1>1, DteShape
  <2>2. issuing' \in BOOLEAN
    BY <1>1
  <2> QED BY <1>1, <2>1, <2>2 DEF DteInv, DteTypeOK
<1>3. IssueBounds' BY <1>1, DteShape DEF DteInv, IssueBounds
<1>4. ASSUME NEW i \in DOMAIN seen PROVE Elapsed(i)' = Elapsed(i)
  BY <1>1, <1>4, DteShape DEF Elapsed
<1>5. SimsInLockstep'
  BY <1>1, <1>4 DEF DteInv, SimsInLockstep
<1> QED BY <1>2, <1>3, <1>5 DEF DteInv

(* A simulation registered, between ticks or in the middle of one.         *)
LEMMA RegisterKeeps ==
  ASSUME DteInv, NEW s \in Sim, Register(s)
  PROVE  DteInv'
<1>1. PICK k \in Nat : k = Len(slots) + 1
  BY DteShape
<1>2. /\ Len(slots) < SimSlots
      /\ slots' = Append(slots, s) /\ joined' = Append(joined, tick)
      /\ seen' = Append(seen, <<>>)
      /\ tick' = tick /\ issuing' = issuing /\ called' = called
  BY DEF Register, HasSlot
<1>3. /\ slots \in Seq(Sim) /\ joined \in Seq(Nat) /\ seen \in Seq(Seq(Nat))
      /\ Len(joined) = Len(slots) /\ Len(seen) = Len(slots) /\ <<>> \in Seq(Nat)
      /\ SimSlots \in Nat
  BY DteAssumption DEF DteInv, DteTypeOK
<1>4. slots' \in Seq(Sim) /\ Len(slots') = k
  BY <1>1, <1>2, <1>3, AppendProperties
<1>5. /\ joined' \in Seq(Nat) /\ Len(joined') = k /\ joined'[k] = tick
      /\ \A i \in 1 .. Len(slots) : joined'[i] = joined[i]
  <2>1. tick \in Nat
    BY DteShape
  <2> QED
    BY <1>1, <1>2, <1>3, <2>1, AppendProperties
<1>6. /\ seen' \in Seq(Seq(Nat)) /\ Len(seen') = k /\ seen'[k] = <<>>
      /\ \A i \in 1 .. Len(slots) : seen'[i] = seen[i]
  BY <1>1, <1>2, <1>3, AppendProperties
<1>7. /\ k \in Nat /\ called < k /\ k <= SimSlots
      /\ \A i \in 1 .. k : i = k \/ i \in 1 .. Len(slots)
  BY <1>1, <1>2, <1>3, DteShape DEF DteInv, IssueBounds
<1>8. DOMAIN joined' = 1 .. k /\ DOMAIN seen' = 1 .. k
  BY <1>5, <1>6, LenProperties
<1>9. DteTypeOK'
  <2>1. tick' \in Nat /\ issuing' \in BOOLEAN /\ called' \in Nat
    BY <1>2, DteShape
  <2>2. Len(slots') <= SimSlots /\ Len(joined') = Len(slots') /\ Len(seen') = Len(slots')
    BY <1>4, <1>5, <1>6, <1>7
  <2>3. (slots \in Seq(Sim) /\ Len(slots) <= SimSlots)'
    BY <1>4, <2>2
  <2>4. (joined \in Seq(Nat) /\ Len(joined) = Len(slots))'
    BY <1>5, <2>2
  <2>5. (seen \in Seq(Seq(Nat)) /\ Len(seen) = Len(slots))'
    BY <1>6, <2>2
  <2> QED BY <2>1, <2>3, <2>4, <2>5 DEF DteTypeOK
<1>10. IssueBounds'
  BY <1>2, <1>4, <1>5, <1>7, <1>8, DteShape DEF IssueBounds
<1>11. SimsInLockstep'
  <2> SUFFICES ASSUME NEW i \in 1 .. k
               PROVE  seen'[i] = [j \in 1 .. Elapsed(i)' |-> joined'[i] + j - 1]
    BY <1>8 DEF SimsInLockstep
  <2>1. CASE i = k
    <3>1. Elapsed(i)' = 0
      BY <1>2, <1>5, <1>7, <2>1, DteShape DEF Elapsed
    <3>2. [j \in 1 .. 0 |-> joined'[i] + j - 1] = <<>>
      OBVIOUS
    <3> QED BY <1>6, <2>1, <3>1, <3>2
  <2>2. CASE i \in 1 .. Len(slots)
    <3>1. Elapsed(i)' = Elapsed(i)
      BY <1>2, <1>5, <2>2 DEF Elapsed
    <3>2. seen[i] = [j \in 1 .. Elapsed(i) |-> joined[i] + j - 1]
      BY <2>2, DteShape DEF DteInv, SimsInLockstep
    <3> QED BY <1>5, <1>6, <2>2, <3>1, <3>2
  <2> QED BY <1>7, <2>1, <2>2
<1> QED BY <1>9, <1>10, <1>11 DEF DteInv

LEMMA DteStep == DteInv /\ [DteNext]_dteVars => DteInv'
<1> SUFFICES ASSUME DteInv, [DteNext]_dteVars PROVE DteInv'
  OBVIOUS
<1>1. CASE UNCHANGED dteVars
  BY <1>1 DEF dteVars, DteInv, DteTypeOK, IssueBounds, SimsInLockstep, Elapsed
<1> QED BY <1>1, TickBeginKeeps, CallNextKeeps, TickEndKeeps, RegisterKeeps DEF DteNext

(* Every simulation of the environment, whenever it was registered, is     *)
(* called once for each tick from the one it joined in.                    *)
THEOREM DteLockstep == DteSpec => []SimsInLockstep
<1>1. DteInit => DteInv
  <2> SUFFICES ASSUME DteInit PROVE DteInv
    OBVIOUS
  <2> USE DteAssumption DEF DteInit
  <2>1. DteTypeOK
    <3>1. Len(slots) = 0 /\ Len(joined) = 0 /\ Len(seen) = 0 /\ SimSlots \in Nat
      OBVIOUS
    <3>2. slots \in Seq(Sim) /\ joined \in Seq(Nat) /\ seen \in Seq(Seq(Nat))
      BY EmptySeq
    <3>3. /\ tick \in Nat /\ called \in Nat
          /\ Len(slots) <= SimSlots /\ Len(joined) = Len(slots) /\ Len(seen) = Len(slots)
      BY <3>1
    <3>4. issuing \in BOOLEAN
      OBVIOUS
    <3> HIDE DEF DteInit
    <3> QED BY <3>2, <3>3, <3>4 DEF DteTypeOK
  <2>2. DOMAIN joined = {} /\ DOMAIN seen = {} OBVIOUS
  <2>3. IssueBounds /\ SimsInLockstep BY <2>2 DEF IssueBounds, SimsInLockstep
  <2> QED BY <2>1, <2>3 DEF DteInv
<1>2. DteInv => SimsInLockstep BY DEF DteInv
<1> QED BY <1>1, <1>2, DteStep, PTL DEF DteSpec

-----------------------------------------------------------------------------
(* The daemon's loop is a behaviour of the pacer's and of the              *)
(* environment's, and the tick of the second follows the waits of the      *)
(* first.                                                                  *)

TickFollowsFrame ==
  /\ at \in {"before", "delta"} => ~ticked
  /\ at = "asleep" => ticked
  /\ issuing => ticked /\ at = "after"
  /\ tick = IF ticked /\ ~issuing THEN waits + 1 ELSE waits

(* The daemon paces its frames as the loop of FramePacing does, whatever   *)
(* its simulations do in between: all that is proved of that loop holds.   *)
THEOREM DaemonPacesItsFrames == DaemonSpec => Spec
<1>1. DaemonInit => Init BY DEF DaemonInit
<1>2. [DaemonNext]_daemonVars => [Next]_vars
  BY DEF DaemonNext, daemonVars, Measure, Environment, Wait, Next
<1> QED BY <1>1, <1>2, PTL DEF DaemonSpec, Spec

LEMMA DaemonStepsTheEnvironment == [DaemonNext]_daemonVars => [DteNext]_dteVars
<1> QED BY DEF DaemonNext, daemonVars, Measure, Environment, Wait, DteNext

LEMMA DaemonInvariant == DaemonSpec => [](TypeOK /\ DteInv /\ TickFollowsFrame)
<1>1. DaemonInit => DteInv /\ TickFollowsFrame
  <2> SUFFICES ASSUME DaemonInit PROVE DteInv /\ TickFollowsFrame
    OBVIOUS
  <2>1. PICK s \in Sim : slots = <<s>>
    BY DEF DaemonInit
  <2>2. /\ tick = 0 /\ issuing = FALSE /\ called = 0 /\ joined = <<0>> /\ seen = <<<<>>>>
        /\ ticked = FALSE /\ at = "before" /\ waits = 0
    BY DEF DaemonInit, Init
  <2>3. <<s>> \in Seq(Sim) /\ Len(<<s>>) = 1
    OBVIOUS
  <2>4. <<0>> \in Seq(Nat) /\ Len(<<0>>) = 1 /\ DOMAIN <<0>> = 1 .. 1 /\ <<0>>[1] = 0
    OBVIOUS
  <2>5. /\ <<<<>>>> \in Seq(Seq(Nat)) /\ Len(<<<<>>>>) = 1 /\ DOMAIN <<<<>>>> = 1 .. 1
        /\ <<<<>>>>[1] = <<>>
    BY EmptySeq
  <2>6. DteTypeOK
    <3>1. SimSlots \in Nat /\ 1 <= SimSlots
      BY DteAssumption
    <3> QED BY <2>1, <2>2, <2>3, <2>4, <2>5, <3>1 DEF DteTypeOK
  <2>7. IssueBounds
    BY <2>1, <2>2, <2>3, <2>4 DEF IssueBounds
  <2>8. SimsInLockstep
    <3>1. Elapsed(1) = 0 BY <2>2, <2>4 DEF Elapsed
    <3>2. [j \in 1 .. 0 |-> joined[1] + j - 1] = <<>> OBVIOUS
    <3> QED BY <2>2, <2>5, <3>1, <3>2 DEF SimsInLockstep
  <2>9. TickFollowsFrame BY <2>2 DEF TickFollowsFrame
  <2> QED BY <2>6, <2>7, <2>8, <2>9 DEF DteInv
<1>2. ASSUME TypeOK, DteInv, TickFollowsFrame, [DaemonNext]_daemonVars
      PROVE  TickFollowsFrame'
  <2>1. waits \in Nat /\ tick \in Nat /\ issuing \in BOOLEAN
    BY <1>2, DteShape DEF TypeOK
  <2>2. CASE Measure
    BY <1>2, <2>2 DEF Measure, TickFollowsFrame, dteVars, TimePasses, FeasBegin, FeasEnd, history
  <2>3. CASE Environment
    BY <1>2, <2>1, <2>3 DEF Environment, TickFollowsFrame, vars, history,
      TickBegin, CallNext, TickEnd, Register
  <2>4. CASE Wait
    BY <1>2, <2>1, <2>4 DEF Wait, TickReturned, TickFollowsFrame, dteVars,
      WaitOverrun, WaitSleep, Wake, FrameBegins
  <2>5. CASE UNCHANGED daemonVars
    BY <1>2, <2>5 DEF daemonVars, TickFollowsFrame, vars, history, dteVars
  <2> QED BY <1>2, <2>2, <2>3, <2>4, <2>5 DEF DaemonNext
<1> QED BY <1>1, <1>2, DaemonStepsTheEnvironment, DteStep, DaemonPacesItsFrames,
           PacingTypeCorrect, PTL DEF DaemonSpec

(* The simulations of the daemon, registered before the first frame or by  *)
(* a callback in the middle of a tick, stay in lockstep.                   *)
THEOREM DaemonLockstep == DaemonSpec => []SimsInLockstep
<1>1. DteInv => SimsInLockstep BY DEF DteInv
<1> QED BY DaemonInvariant, <1>1, PTL

(* The index the environment issues in a frame is the frame's number,      *)
(* however long a simulation runs and however often the pacer overruns.    *)
THEOREM DaemonTickIsTheFrame == DaemonSpec => []TickIsTheFrame
<1>1. TypeOK /\ TickFollowsFrame => TickIsTheFrame
  BY DEF TypeOK, TickFollowsFrame, TickIsTheFrame
<1> QED BY DaemonInvariant, <1>1, PTL

-----------------------------------------------------------------------------
(* Integers, low byte first.                                               *)

ByteValue == 0 .. Byte - 1

LEMMA WordsAreNumbers == Byte \in Nat /\ Short \in Nat /\ Word \in Nat /\ Magic \in 0 .. Word - 1
<1>1. Byte \in Nat BY WireAssumption
<1>2. Short \in Nat BY <1>1 DEF Short
<1>3. Word \in Nat BY <1>2 DEF Word
<1> QED BY <1>1, <1>2, <1>3, WireAssumption

LEMMA ShiftedOnce ==
  ASSUME NEW v \in Nat
  PROVE  /\ Shifted(v) \in Nat /\ v % Byte \in ByteValue
         /\ v = (v % Byte) + Byte * Shifted(v)
BY WireAssumption DEF Shifted, ByteValue

LEMMA ShiftedBelow ==
  ASSUME NEW v \in Nat, NEW bound \in Nat, v < Byte * bound
  PROVE  Shifted(v) < bound
<1>1. /\ Shifted(v) \in Nat /\ v % Byte \in Nat /\ Byte \in Nat /\ Byte > 0
      /\ v = (v % Byte) + Byte * Shifted(v)
  <2>1. Byte \in Nat /\ Byte > 0 BY WireAssumption
  <2>2. v % Byte \in Nat BY <2>1
  <2> QED BY <2>1, <2>2, ShiftedOnce
<1>2. ASSUME NEW q \in Nat, NEW b \in Nat, q >= b PROVE Byte * q >= Byte * b
  BY <1>1, <1>2
<1> QED BY <1>1, <1>2

LEMMA Put16Bytes ==
  ASSUME NEW v \in Nat
  PROVE  /\ Put16(v) \in Seq(ByteValue) /\ Len(Put16(v)) = 2
         /\ Put16(v)[1] = v % Byte /\ Put16(v)[2] = Shifted(v) % Byte
BY ShiftedOnce DEF Put16

(* The join of two sequences, element by element.                          *)
IsJoin(z, s, t) ==
  /\ Len(z) = Len(s) + Len(t)
  /\ \A i \in 1 .. Len(s) : z[i] = s[i]
  /\ \A i \in 1 .. Len(t) : z[Len(s) + i] = t[i]

LEMMA Joined ==
  ASSUME NEW S, NEW s \in Seq(S), NEW t \in Seq(S)
  PROVE  s \o t \in Seq(S) /\ IsJoin(s \o t, s, t)
<1> DEFINE z == s \o t
           m == Len(s)
           n == Len(t)
<1>1. /\ z \in Seq(S) /\ Len(z) = m + n
      /\ \A i \in 1 .. m + n : z[i] = IF i <= m THEN s[i] ELSE t[i - m]
  BY ConcatProperties, Zenon
<1>2. m \in Nat /\ n \in Nat BY LenProperties
<1> HIDE DEF z, m, n
<1>3. /\ \A i \in 1 .. m : z[i] = s[i]
      /\ \A i \in 1 .. n : z[m + i] = t[i]
  BY <1>1, <1>2
<1> QED BY <1>1, <1>3, Zenon DEF IsJoin, z, m, n

LEMMA EndOfJoin ==
  ASSUME NEW S, NEW z \in Seq(S), NEW s \in Seq(S), NEW t \in Seq(S), IsJoin(z, s, t)
  PROVE  SubSeq(z, Len(s) + 1, Len(s) + Len(t)) = t
<1> DEFINE m == Len(s)
           n == Len(t)
           e == SubSeq(z, m + 1, m + n)
<1>1. m \in Nat /\ n \in Nat BY LenProperties
<1>2. Len(z) = m + n /\ \A i \in 1 .. n : z[m + i] = t[i] BY DEF IsJoin
<1> HIDE DEF m, n
<1>3. e \in Seq(S) BY <1>1, <1>2
<1>4. Len(e) = n BY <1>1, <1>2
<1>5. ASSUME NEW i \in 1 .. n PROVE e[i] = t[i]
  <2>1. e[i] = z[m + i] BY <1>1, <1>2
  <2> QED BY <1>2, <2>1, Zenon
<1> HIDE DEF e
<1>6. e = t BY <1>3, <1>4, <1>5, SeqEqual DEF n
<1> QED BY <1>6 DEF e, m, n

LEMMA CutAt ==
  ASSUME NEW S, NEW w \in Seq(S), NEW n \in 0 .. Len(w)
  PROVE  LET cut == SubSeq(w, 1, n) IN
         cut \in Seq(S) /\ Len(cut) = n /\ \A k \in 1 .. n : cut[k] = w[k]
<1> DEFINE cut == SubSeq(w, 1, n)
<1>1. cut \in Seq(S) OBVIOUS
<1>2. Len(cut) = n OBVIOUS
<1>3. ASSUME NEW k \in 1 .. n PROVE cut[k] = w[k] OBVIOUS
<1> QED BY <1>1, <1>2, <1>3, Zenon

LEMMA Put32Bytes ==
  ASSUME NEW v \in Nat
  PROVE  /\ Put32(v) \in Seq(ByteValue) /\ Len(Put32(v)) = 4
         /\ Put32(v)[1] = v % Byte /\ Put32(v)[2] = Shifted(v) % Byte
         /\ Put32(v)[3] = Shifted(Shifted(v)) % Byte
         /\ Put32(v)[4] = Shifted(Shifted(Shifted(v))) % Byte
<1>1. Shifted(v) \in Nat /\ Shifted(Shifted(v)) \in Nat BY ShiftedOnce
<1> DEFINE low == Put16(v)
           high == Put16(Shifted(Shifted(v)))
<1>2. /\ low \in Seq(ByteValue) /\ high \in Seq(ByteValue)
      /\ Len(low) = 2 /\ Len(high) = 2
      /\ low[1] = v % Byte /\ low[2] = Shifted(v) % Byte
      /\ high[1] = Shifted(Shifted(v)) % Byte
      /\ high[2] = Shifted(Shifted(Shifted(v))) % Byte
  BY <1>1, Put16Bytes
<1> HIDE DEF low, high
<1> DEFINE w == low \o high
<1>3. w \in Seq(ByteValue) /\ IsJoin(w, low, high) BY <1>2, Joined, Zenon
<1>4. Put32(v) = w BY DEF Put32, low, high
<1> HIDE DEF w
<1>5. /\ Len(w) = 4 /\ w[1] = low[1] /\ w[2] = low[2] /\ w[2 + 1] = high[1] /\ w[2 + 2] = high[2]
  BY <1>2, <1>3 DEF IsJoin
<1> QED BY <1>2, <1>3, <1>4, <1>5

(* What was put is what is got, wherever the buffer holds it.              *)
LEMMA GotIsPut16 ==
  ASSUME NEW v \in 0 .. Short - 1, NEW buf, NEW pos \in Nat,
         \A k \in 1 .. 2 : buf[pos + k] = Put16(v)[k]
  PROVE  Get16(buf, pos) = v
<1>1. v \in Nat /\ Shifted(v) \in Nat /\ Byte \in Nat /\ Byte > 4
  BY ShiftedOnce, WireAssumption
<1>2. buf[pos + 1] = v % Byte /\ buf[pos + 2] = Shifted(v) % Byte
  BY <1>1, Put16Bytes
<1>3. Shifted(v) < Byte BY <1>1, ShiftedBelow DEF Short
<1>4. Shifted(v) % Byte = Shifted(v) BY <1>1, <1>3
<1> QED BY <1>1, <1>2, <1>4, ShiftedOnce DEF Get16

LEMMA GotIsPut32 ==
  ASSUME NEW v \in 0 .. Word - 1, NEW buf, NEW pos \in Nat,
         \A k \in 1 .. 4 : buf[pos + k] = Put32(v)[k]
  PROVE  Get32(buf, pos) = v
<1> DEFINE b == Shifted(v)
           c == Shifted(b)
           d == Shifted(c)
<1>1. v \in Nat /\ b \in Nat /\ c \in Nat /\ d \in Nat /\ Byte \in Nat /\ Byte > 4
  BY ShiftedOnce, WireAssumption
<1>2. /\ buf[pos + 1] = v % Byte /\ buf[pos + 2] = b % Byte
      /\ buf[pos + 3] = c % Byte /\ buf[pos + 4] = d % Byte
  BY <1>1, Put32Bytes
<1>3. v = (v % Byte) + Byte * b /\ b = (b % Byte) + Byte * c /\ c = (c % Byte) + Byte * d
  BY <1>1, ShiftedOnce
<1>4. d % Byte = d
  <2>1. v < Byte * (Byte * Short)
    BY <1>1 DEF Word, Short
  <2>2. b < Byte * Short BY <1>1, <2>1, ShiftedBelow DEF Short
  <2>3. c < Byte * Byte BY <1>1, <2>2, ShiftedBelow DEF Short
  <2>4. d < Byte BY <1>1, <2>3, ShiftedBelow
  <2> QED BY <1>1, <2>4
<1>5. Get16(buf, pos) = (v % Byte) + Byte * (b % Byte) /\ Get16(buf, pos + 2) = c
  <2>1. pos + 2 + 1 = pos + 3 /\ pos + 2 + 2 = pos + 4 OBVIOUS
  <2> QED BY <1>2, <1>3, <1>4, <2>1 DEF Get16
<1>6. v = (v % Byte) + Byte * (b % Byte) + (Byte * Byte) * c
  <2>1. Byte * b = Byte * (b % Byte) + (Byte * Byte) * c
    <3>1. \A r \in Nat : Byte * (r + Byte * c) = Byte * r + (Byte * Byte) * c BY <1>1
    <3>2. b % Byte \in Nat BY <1>1
    <3> QED BY <1>3, <3>1, <3>2
  <2>2. v % Byte \in Nat /\ b % Byte \in Nat BY <1>1
  <2> QED BY <1>1, <1>3, <2>1, <2>2
<1> QED BY <1>5, <1>6 DEF Get32, Short

-----------------------------------------------------------------------------
(* The envelope.                                                           *)

Header(kind, vessel, seq, len) ==
  Put32(Magic) \o Put16(vessel) \o <<kind, 0>> \o Put32(seq) \o Put32(len)

(* The fields of a header, byte by byte.                                   *)
Fields(h, kind, vessel, seq, len) ==
  /\ \A k \in 1 .. 4 : h[0 + k] = Put32(Magic)[k]
  /\ \A k \in 1 .. 2 : h[4 + k] = Put16(vessel)[k]
  /\ h[7] = kind /\ h[8] = 0
  /\ \A k \in 1 .. 4 : h[8 + k] = Put32(seq)[k]
  /\ \A k \in 1 .. 4 : h[12 + k] = Put32(len)[k]

IsHeader(h, kind, vessel, seq, len) ==
  /\ h \in Seq(ByteValue) /\ Len(h) = HeaderBytes
  /\ Fields(h, kind, vessel, seq, len)

LEMMA HeaderHasFields ==
  ASSUME NEW kind \in 1 .. 4, NEW vessel \in Nat, NEW seq \in Nat, NEW len \in Nat
  PROVE  IsHeader(Header(kind, vessel, seq, len), kind, vessel, seq, len)
<1> DEFINE m == Put32(Magic)
           v == Put16(vessel)
           f == <<kind, 0>>
           s == Put32(seq)
           l == Put32(len)
           a == m \o v
           b == a \o f
           c == b \o s
           h == c \o l
<1>1. Magic \in Nat
  <2>1. Byte \in Nat /\ Magic \in 0 .. Word - 1 BY WireAssumption
  <2> QED BY <2>1
<1>2. /\ m \in Seq(ByteValue) /\ Len(m) = 4 /\ v \in Seq(ByteValue) /\ Len(v) = 2
      /\ s \in Seq(ByteValue) /\ Len(s) = 4 /\ l \in Seq(ByteValue) /\ Len(l) = 4
  BY <1>1, Put16Bytes, Put32Bytes
<1>3. f \in Seq(ByteValue) /\ Len(f) = 2 /\ f[1] = kind /\ f[2] = 0
  BY WireAssumption DEF ByteValue
<1> HIDE DEF m, v, f, s, l
<1>4. a \in Seq(ByteValue) /\ IsJoin(a, m, v) BY <1>2, Joined, Zenon
<1> HIDE DEF a
<1>5. /\ a \in Seq(ByteValue) /\ Len(a) = 6
      /\ \A k \in 1 .. 4 : a[k] = m[k]
      /\ \A k \in 1 .. 2 : a[4 + k] = v[k]
  BY <1>2, <1>4 DEF IsJoin
<1>6. b \in Seq(ByteValue) /\ IsJoin(b, a, f) BY <1>3, <1>5, Joined, Zenon
<1> HIDE DEF b
<1>7. /\ b \in Seq(ByteValue) /\ Len(b) = 8
      /\ \A k \in 1 .. 6 : b[k] = a[k]
      /\ \A k \in 1 .. 2 : b[6 + k] = f[k]
  BY <1>3, <1>5, <1>6 DEF IsJoin
<1>8. c \in Seq(ByteValue) /\ IsJoin(c, b, s) BY <1>2, <1>7, Joined, Zenon
<1> HIDE DEF c
<1>9. /\ c \in Seq(ByteValue) /\ Len(c) = 12
      /\ \A k \in 1 .. 8 : c[k] = b[k]
      /\ \A k \in 1 .. 4 : c[8 + k] = s[k]
  BY <1>2, <1>7, <1>8 DEF IsJoin
<1>10. h \in Seq(ByteValue) /\ IsJoin(h, c, l) BY <1>2, <1>9, Joined, Zenon
<1> HIDE DEF h
<1>11. /\ h \in Seq(ByteValue) /\ Len(h) = 16
       /\ \A k \in 1 .. 12 : h[k] = c[k]
       /\ \A k \in 1 .. 4 : h[12 + k] = l[k]
  BY <1>2, <1>9, <1>10 DEF IsJoin
<1>12. h[7] = kind /\ h[8] = 0
  <2>1. b[6 + 1] = f[1] /\ b[6 + 2] = f[2] BY <1>7
  <2>2. h[7] = b[7] /\ h[8] = b[8] BY <1>9, <1>11
  <2> QED BY <1>3, <2>1, <2>2
<1>13. \A k \in 1 .. 4 : h[k] = m[k] /\ h[8 + k] = s[k]
  <2> TAKE j \in 1 .. 4
  <2>1. h[j] = c[j] /\ c[j] = b[j] /\ b[j] = a[j] /\ a[j] = m[j]
    <3>1. j \in 1 .. 6 /\ j \in 1 .. 8 /\ j \in 1 .. 12 OBVIOUS
    <3> QED BY <1>5, <1>7, <1>9, <1>11, <3>1
  <2>2. 8 + j \in 1 .. 12 /\ c[8 + j] = s[j] BY <1>9
  <2>3. h[8 + j] = c[8 + j] BY <1>11, <2>2
  <2> QED BY <2>1, <2>2, <2>3
<1>14. \A k \in 1 .. 2 : h[4 + k] = v[k]
  <2> TAKE j \in 1 .. 2
  <2>1. 4 + j \in 1 .. 6 /\ 4 + j \in 1 .. 8 /\ 4 + j \in 1 .. 12 /\ a[4 + j] = v[j]
    BY <1>5
  <2>2. h[4 + j] = c[4 + j] /\ c[4 + j] = b[4 + j] /\ b[4 + j] = a[4 + j]
    BY <1>7, <1>9, <1>11, <2>1, Zenon
  <2> QED BY <2>1, <2>2, Zenon
<1>15. Header(kind, vessel, seq, len) = h
  BY DEF Header, h, c, b, a, m, v, f, s, l
<1>16. IsHeader(h, kind, vessel, seq, len)
  BY <1>11, <1>12, <1>13, <1>14 DEF IsHeader, Fields, HeaderBytes, m, v, s, l
<1> QED BY <1>15, <1>16

LEMMA PacketIsHeaderAndPayload ==
  ASSUME NEW kind \in 1 .. 4, NEW vessel \in Nat, NEW seq \in Nat,
         NEW payload \in Seq(ByteValue)
  PROVE  /\ Packet(kind, vessel, seq, payload) \in Seq(ByteValue)
         /\ IsJoin(Packet(kind, vessel, seq, payload),
                   Header(kind, vessel, seq, Len(payload)), payload)
<1> DEFINE h == Header(kind, vessel, seq, Len(payload))
<1>1. Len(payload) \in Nat BY LenProperties
<1>2. h \in Seq(ByteValue)
  <2>1. IsHeader(h, kind, vessel, seq, Len(payload)) BY <1>1, HeaderHasFields, Zenon
  <2> QED BY <2>1 DEF IsHeader
<1>3. KindKnown(kind) BY DEF KindKnown, Kind
<1>4. Packet(kind, vessel, seq, payload) = h \o payload
  BY <1>1, <1>3 DEF Packet, EnvEncode, Header, HeaderBytes
<1> HIDE DEF h
<1> QED BY <1>2, <1>4, Joined, Zenon DEF h

(* An envelope that arrives whole is decoded to what was encoded, and one  *)
(* that was cut anywhere is rejected.                                      *)
THEOREM EnvelopeWholeOrRejected ==
  ASSUME NEW kind \in 1 .. 4, NEW vessel \in 0 .. Short - 1, NEW seq \in 0 .. Word - 1,
         NEW payload \in Seq(ByteValue), Len(payload) < Word
  PROVE  LET w == Packet(kind, vessel, seq, payload) IN
         /\ EnvDecode(SubSeq(w, 1, Len(w))) =
              [env |-> [vessel |-> vessel, kind |-> kind, flags |-> 0, seq |-> seq,
                        payload_len |-> Len(payload)],
               payload |-> payload]
         /\ \A n \in 0 .. Len(w) - 1 : EnvDecode(SubSeq(w, 1, n)) = Rejected
<1> DEFINE len == Len(payload)
           w == Packet(kind, vessel, seq, payload)
           h == Header(kind, vessel, seq, len)
<1>1. Len(payload) \in Nat BY LenProperties
<1>2. len \in 0 .. Word - 1 /\ len \in Nat BY <1>1, WordsAreNumbers
<1> HIDE DEF len
<1>3. IsHeader(h, kind, vessel, seq, len)
  <2>1. vessel \in Nat /\ seq \in Nat BY WordsAreNumbers
  <2> QED BY <1>2, <2>1, HeaderHasFields, Zenon
<1>4. /\ w \in Seq(ByteValue) /\ Len(w) = 16 + len
      /\ \A k \in 1 .. 16 : w[k] = h[k]
      /\ SubSeq(w, 17, 16 + len) = payload
  <2>1. vessel \in Nat /\ seq \in Nat BY WordsAreNumbers
  <2>2. w \in Seq(ByteValue) /\ IsJoin(w, h, payload)
    BY <2>1, PacketIsHeaderAndPayload, Zenon DEF len
  <2> HIDE DEF w, h
  <2>3. Len(h) = 16 /\ h \in Seq(ByteValue) BY <1>3 DEF IsHeader, HeaderBytes
  <2>4. SubSeq(w, Len(h) + 1, Len(h) + Len(payload)) = payload
    BY <2>2, <2>3, EndOfJoin, Zenon
  <2> QED BY <2>2, <2>3, <2>4 DEF IsJoin, len
<1> HIDE DEF w, h
<1>5. Len(w) = 16 + len BY <1>4
<1>6. ASSUME NEW n \in 16 .. Len(w)
      PROVE  LET buf == SubSeq(w, 1, n) IN
             /\ Len(buf) = n /\ Get32(buf, 0) = Magic
             /\ HeaderOf(buf) = [vessel |-> vessel, kind |-> kind, flags |-> 0,
                                 seq |-> seq, payload_len |-> len]
  <2> DEFINE buf == SubSeq(w, 1, n)
  <2>1. Len(buf) = n /\ \A k \in 1 .. 16 : buf[k] = h[k]
    <3>1. n \in 0 .. Len(w) /\ 16 <= n BY <1>2, <1>4
    <3>2. Len(buf) = n /\ \A k \in 1 .. n : buf[k] = w[k] BY <1>4, <3>1, CutAt, Zenon
    <3>3. \A k \in 1 .. 16 : k \in 1 .. n BY <3>1
    <3> QED BY <1>4, <3>2, <3>3, Zenon
  <2> HIDE DEF buf
  <2>2. Fields(buf, kind, vessel, seq, len)
    <3>1. /\ \A k \in 1 .. 4 : 0 + k \in 1 .. 16 /\ 8 + k \in 1 .. 16 /\ 12 + k \in 1 .. 16
          /\ \A k \in 1 .. 2 : 4 + k \in 1 .. 16
          /\ 7 \in 1 .. 16 /\ 8 \in 1 .. 16
      OBVIOUS
    <3> QED BY <1>3, <2>1, <3>1, Zenon DEF IsHeader, Fields
  <2>3. /\ Get32(buf, 0) = Magic /\ Get16(buf, 4) = vessel
        /\ Get32(buf, 8) = seq /\ Get32(buf, 12) = len
    <3>1. \A k \in 1 .. 4 : buf[0 + k] = Put32(Magic)[k] BY <2>2 DEF Fields
    <3>2. \A k \in 1 .. 2 : buf[4 + k] = Put16(vessel)[k] BY <2>2 DEF Fields
    <3>3. \A k \in 1 .. 4 : buf[8 + k] = Put32(seq)[k] BY <2>2 DEF Fields
    <3>4. \A k \in 1 .. 4 : buf[12 + k] = Put32(len)[k] BY <2>2 DEF Fields
    <3>5. 0 \in Nat /\ 4 \in Nat /\ 8 \in Nat /\ 12 \in Nat OBVIOUS
    <3>6. Get32(buf, 0) = Magic BY <3>1, <3>5, WordsAreNumbers, GotIsPut32, Zenon
    <3>7. Get16(buf, 4) = vessel BY <3>2, <3>5, GotIsPut16, Zenon
    <3>8. Get32(buf, 8) = seq BY <3>3, <3>5, GotIsPut32, Zenon
    <3>9. Get32(buf, 12) = len BY <1>2, <3>4, <3>5, GotIsPut32, Zenon
    <3> QED BY <3>6, <3>7, <3>8, <3>9
  <2>4. buf[7] = kind /\ buf[8] = 0 BY <2>2 DEF Fields
  <2> QED BY <2>1, <2>3, <2>4 DEF HeaderOf, buf
<1>7. ASSUME NEW n \in 0 .. Len(w) - 1 PROVE EnvDecode(SubSeq(w, 1, n)) = Rejected
  <2>1. CASE n < 16
    <3>1. n \in 0 .. Len(w) BY <1>2, <1>5
    <3>2. Len(SubSeq(w, 1, n)) = n BY <1>4, <3>1, CutAt, Zenon
    <3> QED BY <2>1, <3>2 DEF EnvDecode, HasHeader, HeaderBytes
  <2>2. CASE n >= 16
    <3>1. n \in 16 .. Len(w) /\ n < 16 + len
      <4>1. n < 16 + len BY <1>2, <1>5
      <4>2. n \in 16 .. Len(w) BY <1>2, <1>5, <2>2
      <4> QED BY <4>1, <4>2
    <3>2. ~HasPayload(SubSeq(w, 1, n)) BY <1>2, <1>6, <3>1 DEF HasPayload, HeaderBytes
    <3> QED BY <3>2, Zenon DEF EnvDecode
  <2>3. n < 16 \/ n >= 16 BY <1>5
  <2> QED BY <2>1, <2>2, <2>3
<1>8. EnvDecode(SubSeq(w, 1, Len(w))) =
        [env |-> [vessel |-> vessel, kind |-> kind, flags |-> 0, seq |-> seq,
                  payload_len |-> len],
         payload |-> payload]
  <2> DEFINE buf == SubSeq(w, 1, Len(w))
  <2>1. buf = w /\ Len(w) \in 16 .. Len(w)
    <3>1. buf = w BY <1>4, SubSeqFull, Zenon
    <3>2. Len(w) \in 16 .. Len(w) BY <1>2, <1>5
    <3> QED BY <3>1, <3>2, Zenon
  <2>2. /\ Len(buf) = 16 + len /\ Get32(buf, 0) = Magic
        /\ HeaderOf(buf) = [vessel |-> vessel, kind |-> kind, flags |-> 0,
                            seq |-> seq, payload_len |-> len]
    BY <1>4, <1>6, <2>1
  <2>3. buf[7] = kind /\ KindKnown(kind)
    <3>1. h[7] = kind BY <1>3 DEF IsHeader, Fields
    <3>2. w[7] = h[7]
      <4>1. 7 \in 1 .. 16 OBVIOUS
      <4> QED BY <1>4, <4>1, Zenon
    <3>3. KindKnown(kind) BY DEF KindKnown, Kind
    <3> QED BY <2>1, <3>1, <3>2, <3>3, Zenon
  <2>4. SubSeq(buf, 17, 16 + len) = payload
    BY <1>4, <2>1, Zenon
  <2> HIDE DEF buf
  <2>5. HasHeader(buf) /\ HasPayload(buf)
    BY <1>2, <2>2 DEF HasHeader, HasPayload, HeaderBytes
  <2>6. HeaderOf(buf).payload_len = len BY <2>2
  <2>7. EnvDecode(buf) = [env |-> HeaderOf(buf), payload |-> SubSeq(buf, 17, 16 + len)]
    BY <2>2, <2>3, <2>5, <2>6 DEF EnvDecode, HeaderBytes
  <2> QED BY <2>2, <2>4, <2>7, Zenon DEF buf
<1> QED BY <1>7, <1>8 DEF w, len

-----------------------------------------------------------------------------
(* The payloads.                                                           *)

LEMMA FloatBytes ==
  ASSUME NEW n \in Nat, NEW floats \in [1 .. n -> 0 .. Word - 1]
  PROVE  /\ PutFloats(floats) \in Seq(ByteValue) /\ Len(PutFloats(floats)) = 4 * n
         /\ \A i \in 1 .. n, k \in 1 .. 4 :
              PutFloats(floats)[4 * (i - 1) + k] = Put32(floats[i])[k]
<1> DEFINE bytes == PutFloats(floats)
<1>1. bytes = [j \in 1 .. 4 * n |-> Put32(floats[(j + 3) \div 4])[((j - 1) % 4) + 1]]
  <2>1. Len(floats) = n OBVIOUS
  <2> QED BY <2>1 DEF PutFloats
<1>2. \A i \in 1 .. n : floats[i] \in Nat BY WordsAreNumbers
<1>3. ASSUME NEW j \in 1 .. 4 * n PROVE bytes[j] \in ByteValue
  <2>1. (j + 3) \div 4 \in 1 .. n /\ ((j - 1) % 4) + 1 \in 1 .. 4 OBVIOUS
  <2>2. Put32(floats[(j + 3) \div 4]) \in Seq(ByteValue) /\ Len(Put32(floats[(j + 3) \div 4])) = 4
    BY <1>2, <2>1, Put32Bytes, Zenon
  <2>3. Put32(floats[(j + 3) \div 4])[((j - 1) % 4) + 1] \in ByteValue
    BY <2>1, <2>2, ElementOfSeq, Zenon
  <2>4. bytes[j] = Put32(floats[(j + 3) \div 4])[((j - 1) % 4) + 1] BY <1>1, Zenon
  <2> QED BY <2>3, <2>4, Zenon
<1>4. ASSUME NEW i \in 1 .. n, NEW k \in 1 .. 4
      PROVE  bytes[4 * (i - 1) + k] = Put32(floats[i])[k]
  <2> DEFINE j == 4 * (i - 1) + k
  <2>1. j \in 1 .. 4 * n /\ (j + 3) \div 4 = i /\ ((j - 1) % 4) + 1 = k OBVIOUS
  <2> HIDE DEF j
  <2>2. bytes[j] = Put32(floats[(j + 3) \div 4])[((j - 1) % 4) + 1] BY <1>1, <2>1, Zenon
  <2> QED BY <2>1, <2>2, Zenon DEF j
<1> HIDE DEF bytes
<1>5. bytes \in [1 .. 4 * n -> ByteValue] BY <1>1, <1>3
<1>6. bytes \in Seq(ByteValue) /\ Len(bytes) = 4 * n BY <1>5
<1> QED BY <1>4, <1>6, Zenon DEF bytes

LEMMA FloatsCross ==
  ASSUME NEW n \in Nat, NEW floats \in [1 .. n -> 0 .. Word - 1], NEW buf,
         \A j \in 1 .. 4 * n : buf[j] = PutFloats(floats)[j]
  PROVE  GetFloats(buf, n) = floats
<1>1. ASSUME NEW i \in 1 .. n PROVE Get32(buf, 4 * (i - 1)) = floats[i]
  <2> DEFINE pos == 4 * (i - 1)
  <2>1. pos \in Nat /\ \A k \in 1 .. 4 : pos + k \in 1 .. 4 * n OBVIOUS
  <2>2. \A k \in 1 .. 4 : buf[pos + k] = Put32(floats[i])[k]
    BY <2>1, FloatBytes, Zenon
  <2>3. floats[i] \in 0 .. Word - 1 OBVIOUS
  <2> HIDE DEF pos
  <2> QED BY <2>1, <2>2, <2>3, GotIsPut32, Zenon DEF pos
<1> QED BY <1>1 DEF GetFloats

(* What a state, an actuation and an input become at the other end.        *)
LEMMA StateCrosses ==
  ASSUME NEW b \in Vectors(Kind.state)
  PROVE  LET e == EncState(b, StateBytes) IN
         e \in Seq(ByteValue) /\ Len(e) = StateBytes /\ DecState(e) = b
<1>1. b \in [1 .. StateFloats -> 0 .. Word - 1] BY DEF Vectors, Kind
<1>2. StateFloats \in Nat BY WireAssumption
<1> DEFINE e == EncState(b, StateBytes)
<1>3. e = PutFloats(b) BY <1>2 DEF EncState, StateBytes
<1>4. e \in Seq(ByteValue) /\ Len(e) = StateBytes
  BY <1>1, <1>2, <1>3, FloatBytes, Zenon DEF StateBytes
<1> HIDE DEF e
<1>5. GetFloats(e, StateFloats) = b BY <1>1, <1>2, <1>3, FloatsCross, Zenon
<1>6. DecState(e) = b BY <1>2, <1>4, <1>5 DEF DecState, StateBytes
<1> QED BY <1>4, <1>6, Zenon DEF e

LEMMA ActCrosses ==
  ASSUME NEW a \in Vectors(Kind.act)
  PROVE  LET e == EncAct(a, ActBytes) IN
         e \in Seq(ByteValue) /\ Len(e) = ActBytes /\ DecAct(e) = a
<1>1. a \in [1 .. ActFloats -> 0 .. Word - 1] BY DEF Vectors, Kind
<1>2. ActFloats \in Nat BY WireAssumption
<1> DEFINE e == EncAct(a, ActBytes)
<1>3. e = PutFloats(a) BY <1>2 DEF EncAct, ActBytes
<1>4. e \in Seq(ByteValue) /\ Len(e) = ActBytes
  BY <1>1, <1>2, <1>3, FloatBytes, Zenon DEF ActBytes
<1> HIDE DEF e
<1>5. GetFloats(e, ActFloats) = a BY <1>1, <1>2, <1>3, FloatsCross, Zenon
<1>6. DecAct(e) = a BY <1>2, <1>4, <1>5 DEF DecAct, ActBytes
<1> QED BY <1>4, <1>6, Zenon DEF e

LEMMA InputCrosses ==
  ASSUME NEW in \in Vectors(Kind.input)
  PROVE  LET e == EncInput(in, InputBytes) IN
         e \in Seq(ByteValue) /\ Len(e) = InputBytes /\ DecInput(e) = Crossed(in)
<1>1. /\ in.floats \in [Family -> 0 .. MaxFrames]
      /\ in = [floats |-> in.floats, x_left |-> in.x_left, x_right |-> in.x_right]
  BY DEF Vectors, Kind
<1>2. InputFloats \in Nat BY WireAssumption
<1>3. in.floats \in [1 .. InputFloats -> 0 .. Word - 1]
  <2>1. 0 .. MaxFrames \subseteq 0 .. Word - 1
    BY PathAssumption, WordsAreNumbers, WireAssumption
  <2>2. Family = 1 .. InputFloats BY PathAssumption DEF Family
  <2> QED BY <1>1, <2>1, <2>2
<1> DEFINE e == EncInput(in, InputBytes)
           floats == PutFloats(in.floats)
           flags == <<Flag(in.x_left), Flag(in.x_right)>>
<1>4. floats \in Seq(ByteValue) /\ Len(floats) = 4 * InputFloats
  BY <1>2, <1>3, FloatBytes, Zenon
<1>5. /\ flags \in Seq(ByteValue) /\ Len(flags) = 2
      /\ flags[1] = Flag(in.x_left) /\ flags[2] = Flag(in.x_right)
  BY WireAssumption DEF ByteValue, Flag
<1>6. e = floats \o flags BY <1>2 DEF EncInput, InputBytes
<1> HIDE DEF e, floats, flags
<1>7. e \in Seq(ByteValue) /\ IsJoin(e, floats, flags) BY <1>4, <1>5, <1>6, Joined, Zenon
<1>8. /\ Len(e) = InputBytes
      /\ \A j \in 1 .. 4 * InputFloats : e[j] = floats[j]
      /\ e[4 * InputFloats + 1] = flags[1] /\ e[4 * InputFloats + 2] = flags[2]
  BY <1>2, <1>4, <1>5, <1>7 DEF IsJoin, InputBytes
<1>9. GetFloats(e, InputFloats) = in.floats
  BY <1>2, <1>3, <1>8, FloatsCross, Zenon DEF floats
<1>10. e[InputBytes - 1] = Flag(in.x_left) /\ e[InputBytes] = Flag(in.x_right)
  <2>1. InputBytes - 1 = 4 * InputFloats + 1 /\ InputBytes = 4 * InputFloats + 2
    BY <1>2 DEF InputBytes
  <2> QED BY <1>5, <1>8, <2>1, Zenon
<1>11. DecInput(e) = [floats |-> in.floats, x_left |-> View(Flag(in.x_left)),
                      x_right |-> View(Flag(in.x_right))]
  <2>1. ~(Len(e) < InputBytes) BY <1>2, <1>8 DEF InputBytes
  <2> QED BY <1>9, <1>10, <2>1, Zenon DEF DecInput
<1>12. Crossed(in) = [floats |-> in.floats, x_left |-> View(Flag(in.x_left)),
                      x_right |-> View(Flag(in.x_right))]
  BY DEF Crossed
<1> QED BY <1>7, <1>8, <1>11, <1>12, Zenon DEF e

-----------------------------------------------------------------------------
(* What a delivery changes.                                                *)

(* A callback goes on only with a whole envelope of its kind and a vessel  *)
(* of the fleet, and then has the payload that was put into it.            *)
LEMMA PayloadIsWhatWasPut ==
  ASSUME NEW kind \in 1 .. 4, NEW vessel \in 0 .. Short - 1, NEW seq \in 0 .. Word - 1,
         NEW payload \in Seq(ByteValue), Len(payload) < Word,
         NEW n \in 0 .. Len(Packet(kind, vessel, seq, payload)), NEW wanted,
         PayloadOf(SubSeq(Packet(kind, vessel, seq, payload), 1, n), wanted) # Rejected
  PROVE  /\ PayloadOf(SubSeq(Packet(kind, vessel, seq, payload), 1, n), wanted) = payload
         /\ kind = wanted /\ vessel < N /\ payload # <<>>
<1> DEFINE w == Packet(kind, vessel, seq, payload)
           buf == SubSeq(w, 1, n)
           d == EnvDecode(buf)
<1>1. d # Rejected BY DEF PayloadOf
<1>2. n = Len(w)
  <2>1. Len(w) \in Nat
    <3>1. vessel \in Nat /\ seq \in Nat BY WordsAreNumbers
    <3>2. w \in Seq(ByteValue) BY <3>1, PacketIsHeaderAndPayload, Zenon
    <3> HIDE DEF w
    <3> QED BY <3>2, LenProperties
  <2>2. n \notin 0 .. Len(w) - 1 BY <1>1, EnvelopeWholeOrRejected, Zenon
  <2> HIDE DEF w
  <2>3. n \in 0 .. Len(w) BY DEF w
  <2> QED BY <2>1, <2>2, <2>3
<1>3. d = [env |-> [vessel |-> vessel, kind |-> kind, flags |-> 0, seq |-> seq,
                    payload_len |-> Len(payload)],
           payload |-> payload]
  BY <1>2, EnvelopeWholeOrRejected, Zenon
<1> HIDE DEF d
<1>4. d.payload = payload /\ d.env.kind = kind /\ d.env.vessel = vessel BY <1>3
<1>5. PayloadOf(buf, wanted) = IF payload = <<>> \/ kind # wanted \/ vessel >= N
                                 THEN Rejected ELSE payload
  BY <1>1, <1>4 DEF PayloadOf, d
<1>6. ~(payload = <<>> \/ kind # wanted \/ vessel >= N) BY <1>5
<1>7. vessel < N BY <1>6, WordsAreNumbers, PathAssumption
<1> QED BY <1>5, <1>6, <1>7

(* The three forms an encoded vector has.                                  *)
LEMMA EncodedBytes ==
  ASSUME NEW kind \in {Kind.input, Kind.state, Kind.act}, NEW vector \in Vectors(kind)
  PROVE  Encoded(kind, vector) \in Seq(ByteValue) /\ Len(Encoded(kind, vector)) < Word
<1> USE PathAssumption
<1>1. CASE kind = Kind.input
  <2>1. Encoded(kind, vector) = EncInput(vector, InputBytes) BY <1>1 DEF Encoded, Kind
  <2> QED BY <1>1, <2>1, InputCrosses
<1>2. CASE kind = Kind.state
  <2>1. Encoded(kind, vector) = EncState(vector, StateBytes) BY <1>2 DEF Encoded, Kind
  <2> QED BY <1>2, <2>1, StateCrosses
<1>3. CASE kind = Kind.act
  <2>1. Encoded(kind, vector) = EncAct(vector, ActBytes) BY <1>3 DEF Encoded, Kind
  <2> QED BY <1>3, <2>1, ActCrosses
<1> QED BY <1>1, <1>2, <1>3

(* A step of Deliver hands an end the vector the frame was made from.      *)
Handed ==
  /\ body = <<body[1], body[2]>> /\ body[1] \in {Kind.input, Kind.state, Kind.act}
  /\ body[2] \in Vectors(body[1])
  /\ \/ /\ body[1] = Kind.input /\ ground' = Crossed(body[2]) /\ resolved' = FALSE
        /\ UNCHANGED <<mirror, acted>>
     \/ body[1] = Kind.state /\ mirror' = body[2] /\ UNCHANGED <<ground, acted, resolved>>
     \/ body[1] = Kind.act /\ acted' = body[2] /\ UNCHANGED <<ground, mirror, resolved>>

LEMMA VectorHanded ==
  ASSUME NEW seq \in 0 .. Word - 1,
         body = <<body[1], body[2]>>,
         body[1] \in {Kind.input, Kind.state, Kind.act}, body[2] \in Vectors(body[1]),
         wire = Packet(body[1], 0, seq, Encoded(body[1], body[2])),
         NEW n \in 0 .. Len(wire),
         OnLsdt(SubSeq(wire, 1, n)) \/ OnAct(SubSeq(wire, 1, n)) \/ OnState(SubSeq(wire, 1, n))
  PROVE  Handed
<1> DEFINE e == Encoded(body[1], body[2])
           w == Packet(body[1], 0, seq, e)
           buf == SubSeq(w, 1, n)
<1>1. buf = SubSeq(wire, 1, n) /\ n \in 0 .. Len(w) OBVIOUS
<1>2. body[1] \in 1 .. 4 /\ 0 \in 0 .. Short - 1
  BY WordsAreNumbers, WireAssumption DEF Kind, Short
<1>3. e \in Seq(ByteValue) /\ Len(e) < Word BY EncodedBytes
<1>4. \A wanted : PayloadOf(buf, wanted) # Rejected =>
        PayloadOf(buf, wanted) = e /\ body[1] = wanted
  <2> SUFFICES ASSUME NEW wanted, PayloadOf(buf, wanted) # Rejected
               PROVE  PayloadOf(buf, wanted) = e /\ body[1] = wanted
    OBVIOUS
  <2> HIDE DEF e
  <2> QED BY <1>1, <1>2, <1>3, PayloadIsWhatWasPut
<1> HIDE DEF buf
<1>5. CASE OnLsdt(buf)
  <2>1. body[1] = Kind.input /\ PayloadOf(buf, Kind.input) = e BY <1>4, <1>5 DEF OnLsdt
  <2>2. e = EncInput(body[2], InputBytes) BY <2>1 DEF Encoded, Kind
  <2>3. DecInput(e) = Crossed(body[2]) BY <2>1, <2>2, InputCrosses
  <2> QED BY <1>5, <2>1, <2>3 DEF OnLsdt, Handed
<1>6. CASE OnAct(buf)
  <2>1. body[1] = Kind.act /\ PayloadOf(buf, Kind.act) = e BY <1>4, <1>6 DEF OnAct
  <2>2. e = EncAct(body[2], ActBytes) BY <2>1 DEF Encoded, Kind
  <2>3. DecAct(e) = body[2] BY <2>1, <2>2, ActCrosses
  <2> QED BY <1>6, <2>1, <2>3 DEF OnAct, Handed
<1>7. CASE OnState(buf)
  <2>1. body[1] = Kind.state /\ PayloadOf(buf, Kind.state) = e BY <1>4, <1>7 DEF OnState
  <2>2. e = EncState(body[2], StateBytes) BY <2>1 DEF Encoded, Kind
  <2>3. DecState(e) = body[2] BY <2>1, <2>2, StateCrosses
  <2> QED BY <1>7, <2>1, <2>3 DEF OnState, Handed
<1> QED BY <1>1, <1>5, <1>6, <1>7, Zenon

(* What nobody asked for is taken by no end.                               *)
LEMMA UnaskedIsIgnored ==
  ASSUME NEW seq \in 0 .. Word - 1, wire \in Unasked(seq), NEW n \in 0 .. Len(wire)
  PROVE  ~(OnLsdt(SubSeq(wire, 1, n)) \/ OnAct(SubSeq(wire, 1, n)) \/ OnState(SubSeq(wire, 1, n)))
<1>1. PICK vessel \in 0 .. Short - 1, payload \in Seq(ByteValue) :
        /\ wire = Packet(Kind.input, vessel, seq, payload) /\ Len(payload) < Word
        /\ vessel = N \/ payload = <<>> \/ Len(payload) < InputBytes
  <2>1. 0 \in 0 .. Short - 1 /\ N \in 0 .. Short - 1 /\ InputBytes \in Nat \ {0}
    BY WordsAreNumbers, WireAssumption, PathAssumption DEF Short, InputBytes
  <2>2. ZeroInput \in Vectors(Kind.input)
    BY PathAssumption DEF ZeroInput, NoReading, Vectors, Kind
  <2>3. /\ EncInput(ZeroInput, InputBytes) \in Seq(ByteValue)
        /\ Len(EncInput(ZeroInput, InputBytes)) < Word
    BY <2>2, InputCrosses, PathAssumption
  <2>4. <<>> \in Seq(ByteValue) /\ Len(<<>>) < Word
    BY <2>1, WordsAreNumbers, PathAssumption
  <2> DEFINE short == [i \in 1 .. InputBytes - 1 |-> 1]
  <2>5. short \in Seq(ByteValue) /\ Len(short) = InputBytes - 1
    BY <2>1, WireAssumption DEF ByteValue
  <2>6. Len(short) < Word /\ Len(short) < InputBytes
    BY <2>1, <2>5, WordsAreNumbers, PathAssumption
  <2> HIDE DEF short
  <2>7. \/ wire = Packet(Kind.input, N, seq, EncInput(ZeroInput, InputBytes))
        \/ wire = Packet(Kind.input, 0, seq, <<>>)
        \/ wire = Packet(Kind.input, 0, seq, short)
    BY DEF Unasked, short
  <2> QED BY <2>1, <2>3, <2>4, <2>5, <2>6, <2>7, Zenon
<1> DEFINE w == Packet(Kind.input, vessel, seq, payload)
           buf == SubSeq(w, 1, n)
<1>2. Kind.input \in 1 .. 4 /\ buf = SubSeq(wire, 1, n) /\ n \in 0 .. Len(w)
  BY <1>1 DEF Kind
<1>3. \A wanted : PayloadOf(buf, wanted) # Rejected =>
        /\ PayloadOf(buf, wanted) = payload /\ Kind.input = wanted
        /\ vessel < N /\ payload # <<>>
  <2> SUFFICES ASSUME NEW wanted, PayloadOf(buf, wanted) # Rejected
               PROVE  /\ PayloadOf(buf, wanted) = payload /\ Kind.input = wanted
                      /\ vessel < N /\ payload # <<>>
    OBVIOUS
  <2> QED BY <1>1, <1>2, PayloadIsWhatWasPut
<1> HIDE DEF buf
<1>4. ~OnAct(buf) /\ ~OnState(buf) BY <1>3 DEF OnAct, OnState, Kind
<1>5. ~OnLsdt(buf)
  <2> SUFFICES ASSUME OnLsdt(buf) PROVE FALSE OBVIOUS
  <2>1. payload = PayloadOf(buf, Kind.input) /\ vessel < N /\ payload # <<>> BY <1>3 DEF OnLsdt
  <2>2. Len(payload) < InputBytes BY <1>1, <2>1, WordsAreNumbers, PathAssumption
  <2>3. DecInput(payload) = Rejected BY <2>2 DEF DecInput
  <2> QED BY <2>1, <2>3 DEF OnLsdt
<1> QED BY <1>2, <1>4, <1>5, Zenon

LEMMA DeliverHands ==
  ASSUME WireCarriesBody, Deliver
  PROVE  Handed
<1>1. PICK n \in 0 .. Len(wire) :
        OnLsdt(SubSeq(wire, 1, n)) \/ OnAct(SubSeq(wire, 1, n)) \/ OnState(SubSeq(wire, 1, n))
  BY DEF Deliver
<1>2. 1 .. MaxFrames \subseteq 0 .. Word - 1
  BY PathAssumption, WordsAreNumbers, WireAssumption
<1>3. wire # <<>>
  <2> SUFFICES ASSUME wire = <<>> PROVE FALSE OBVIOUS
  <2>1. SubSeq(wire, 1, n) = <<>> BY <1>1
  <2>2. EnvDecode(<<>>) = Rejected BY DEF EnvDecode, HasHeader, HeaderBytes
  <2>3. \A wanted : PayloadOf(<<>>, wanted) = Rejected BY <2>2 DEF PayloadOf
  <2> QED BY <1>1, <2>1, <2>3 DEF OnLsdt, OnAct, OnState
<1>4. CASE \E seq \in 1 .. MaxFrames : wire \in Unasked(seq)
  BY <1>1, <1>2, <1>4, UnaskedIsIgnored
<1>5. CASE /\ body = <<body[1], body[2]>>
           /\ body[1] \in {Kind.input, Kind.state, Kind.act} /\ body[2] \in Vectors(body[1])
           /\ \E seq \in 1 .. MaxFrames :
                wire = Packet(body[1], 0, seq, Encoded(body[1], body[2]))
  BY <1>1, <1>2, <1>5, VectorHanded, Zenon
<1> QED BY <1>3, <1>4, <1>5 DEF WireCarriesBody

-----------------------------------------------------------------------------
(* The invariant.                                                          *)

LEMMA PathInitInv == PathInit => PathInv
<1> SUFFICES ASSUME PathInit PROVE PathInv OBVIOUS
<1>1. ReadingsOfTheFrame
  BY PathAssumption DEF PathInit, MavStart, NoReading, ReadingsOfTheFrame
<1>2. GroundIsReadings
  BY PathAssumption DEF PathInit, ZeroInput, NoReading, GroundIsReadings
<1>3. views \in [left : {"null", "onboard"}, right : {"null", "onboard"}]
  BY DEF PathInit, MavStart, NoViews
<1>4. painted.left = painted.right /\ NoStaleSentinel
  BY DEF PathInit, CameraStart, ZeroInput, NoStaleSentinel
<1>5. CompleteIsOfOneFrame /\ WireCarriesBody
  BY DEF PathInit, CompleteIsOfOneFrame, WireCarriesBody
<1> QED BY <1>1, <1>2, <1>3, <1>4, <1>5 DEF PathInv

(* The accumulator: readings are of the frame they are made in, and stay.  *)
LEMMA SenseKeepsReadings ==
  ASSUME ReadingsOfTheFrame, Sense PROVE ReadingsOfTheFrame'
<1>1. CASE frame < MaxFrames /\ MavInit
  BY <1>1, PathAssumption DEF ReadingsOfTheFrame, MavInit, NoReading
<1>2. ASSUME NEW g \in Family, MavOn(g) PROVE ReadingsOfTheFrame'
  BY <1>2 DEF ReadingsOfTheFrame, MavOn
<1>3. ASSUME NEW l, NEW r, MavAttachViews(l, r) PROVE ReadingsOfTheFrame'
  BY <1>3 DEF ReadingsOfTheFrame, MavAttachViews
<1> QED BY <1>1, <1>2, <1>3 DEF Sense

(* What is published as complete has every family of the mask.             *)
LEMMA CompleteInputIsOfTheFrame ==
  ASSUME ReadingsOfTheFrame, PublishInput PROVE CompleteIsOfOneFrame'
<1>1. body' = <<Kind.input, MavInput>> /\ have = Family
  BY DEF PublishInput, PutOnWire, MavComplete
<1>2. \A g \in Family : MavInput.floats[g] = frame
  BY <1>1 DEF MavInput, ReadingsOfTheFrame
<1> QED BY <1>1, <1>2 DEF CompleteIsOfOneFrame, ReadingsOfTheFrame

(* Every publication puts an encoded vector on the wire, or what is        *)
(* ignored.                                                                *)
LEMMA VectorOnWire ==
  ASSUME ReadingsOfTheFrame, NEW kind \in {Kind.input, Kind.state, Kind.act},
         NEW vector \in Vectors(kind), PutOnWire(kind, vector, Encoded(kind, vector))
  PROVE  WireCarriesBody'
<1>1. /\ body' = <<kind, vector>> /\ wire' = Packet(kind, 0, frame, Encoded(kind, vector))
      /\ frame \in 1 .. MaxFrames
  BY DEF PutOnWire, ReadingsOfTheFrame
<1>2. body'[1] = kind /\ body'[2] = vector BY <1>1
<1>3. /\ body' = <<body'[1], body'[2]>>
      /\ body'[1] \in {Kind.input, Kind.state, Kind.act} /\ body'[2] \in Vectors(body'[1])
      /\ wire' = Packet(body'[1], 0, frame, Encoded(body'[1], body'[2]))
  BY <1>1, <1>2
<1> QED BY <1>1, <1>3 DEF WireCarriesBody

LEMMA PublicationsKeepTheWire ==
  ASSUME PathInv, PublishInput \/ PublishState \/ PublishAct \/ PublishOther
  PROVE  WireCarriesBody'
<1>1. /\ ReadingsOfTheFrame /\ ground.floats[1] \in 0 .. MaxFrames
      /\ views \in [left : {"null", "onboard"}, right : {"null", "onboard"}]
  <2>1. 1 \in Family BY MavAssumption DEF Family
  <2> QED BY <2>1 DEF PathInv, GroundIsReadings
<1>2. CASE PublishInput
  <2>1. MavInput \in Vectors(Kind.input)
    <3>1. reading \in [Family -> 0 .. MaxFrames]
      BY <1>1, PathAssumption DEF ReadingsOfTheFrame
    <3> QED BY <1>1, <3>1 DEF MavInput, Vectors, Kind
  <2>2. Encoded(Kind.input, MavInput) = EncInput(MavInput, InputBytes) BY DEF Encoded, Kind
  <2>3. PutOnWire(Kind.input, MavInput, Encoded(Kind.input, MavInput))
    BY <1>2, <2>2 DEF PublishInput
  <2> QED BY <1>1, <2>1, <2>3, VectorOnWire
<1>3. CASE PublishState
  <2>1. StateOf(ground) \in Vectors(Kind.state)
    <3>1. \A i \in 1 .. StateFloats : ground.floats[1] + i \in 0 .. Word - 1
      BY <1>1, PathAssumption, WireAssumption, WordsAreNumbers
    <3> QED BY <3>1 DEF StateOf, Vectors, Kind
  <2>2. Encoded(Kind.state, StateOf(ground)) = EncState(StateOf(ground), StateBytes)
    BY DEF Encoded, Kind
  <2>3. PutOnWire(Kind.state, StateOf(ground), Encoded(Kind.state, StateOf(ground)))
    BY <1>3, <2>2 DEF PublishState
  <2> QED BY <1>1, <2>1, <2>3, VectorOnWire
<1>4. CASE PublishAct
  <2>1. ActOf(ground) \in Vectors(Kind.act)
    <3> DEFINE f == ground.floats[1]
    <3>1. f \in Nat /\ MaxFrames \in Nat /\ f <= MaxFrames /\ Byte \in Nat
      BY <1>1, PathAssumption, WordsAreNumbers
    <3>2. \A a, b, c \in Nat : a <= b => a * c \in Nat /\ b * c \in Nat /\ a * c <= b * c
      OBVIOUS
    <3> HIDE DEF f
    <3>3. f * Byte \in Nat /\ MaxFrames * Byte \in Nat /\ f * Byte <= MaxFrames * Byte
      BY <3>1, <3>2
    <3>4. \A i \in 1 .. ActFloats : f * Byte + i \in 0 .. Word - 1
      BY <3>3, PathAssumption, WireAssumption, WordsAreNumbers
    <3> QED BY <3>4 DEF ActOf, Vectors, Kind, f
  <2>2. Encoded(Kind.act, ActOf(ground)) = EncAct(ActOf(ground), ActBytes)
    BY DEF Encoded, Kind
  <2>3. PutOnWire(Kind.act, ActOf(ground), Encoded(Kind.act, ActOf(ground)))
    BY <1>4, <2>2 DEF PublishAct
  <2> QED BY <1>1, <2>1, <2>3, VectorOnWire
<1>5. CASE PublishOther
  BY <1>1, <1>5 DEF PublishOther, WireCarriesBody, ReadingsOfTheFrame, Unasked, Packet
<1> QED BY <1>2, <1>3, <1>4, <1>5

LEMMA PathStep == PathInv /\ [PathNext]_pathVars => PathInv'
<1> SUFFICES ASSUME PathInv, [PathNext]_pathVars PROVE PathInv'
  OBVIOUS
<1> USE DEF PathInv
<1>1. CASE Sense
  <2>1. /\ CompleteIsOfOneFrame' /\ GroundIsReadings' /\ NoStaleSentinel'
        /\ UNCHANGED <<painted, wire, body>>
    BY <1>1 DEF Sense, ends, cameraVars, CompleteIsOfOneFrame, GroundIsReadings,
       NoStaleSentinel, Pending
  <2>2. views' \in [left : {"null", "onboard"}, right : {"null", "onboard"}]
    BY <1>1 DEF Sense, MavInit, NoViews, MavOn, MavAttachViews
  <2>3. WireCarriesBody' BY <2>1 DEF WireCarriesBody
  <2> QED BY <1>1, <2>1, <2>2, <2>3, SenseKeepsReadings
<1>2. CASE PublishInput \/ PublishState \/ PublishAct \/ PublishOther
  <2>1. UNCHANGED <<mavVars, cameraVars, ends>>
    BY <1>2 DEF PublishInput, PublishState, PublishAct, PublishOther, PutOnWire
  <2>2. ReadingsOfTheFrame' /\ GroundIsReadings' /\ NoStaleSentinel' /\ UNCHANGED <<views, painted>>
    BY <2>1 DEF ends, mavVars, cameraVars, ReadingsOfTheFrame, GroundIsReadings,
       NoStaleSentinel, Pending
  <2>3. CompleteIsOfOneFrame'
    <3>1. CASE PublishInput BY <3>1, CompleteInputIsOfTheFrame
    <3>2. CASE PublishState \/ PublishAct \/ PublishOther
      BY <3>2 DEF PublishState, PublishAct, PublishOther, PutOnWire, CompleteIsOfOneFrame, Kind
    <3> QED BY <1>2, <3>1, <3>2
  <2>4. WireCarriesBody' BY <1>2, PublicationsKeepTheWire
  <2> QED BY <2>2, <2>3, <2>4
<1>3. CASE Deliver
  <2>1. UNCHANGED <<mavVars, cameraVars, wire, body>> BY <1>3 DEF Deliver
  <2>2. /\ ReadingsOfTheFrame' /\ CompleteIsOfOneFrame' /\ WireCarriesBody'
        /\ UNCHANGED <<views, painted>>
    BY <2>1 DEF mavVars, cameraVars, ReadingsOfTheFrame, CompleteIsOfOneFrame, WireCarriesBody
  <2>3. \/ UNCHANGED <<ground, resolved>>
        \/ /\ resolved' = FALSE /\ ground' = Crossed(body[2])
           /\ body[2] \in Vectors(Kind.input)
    BY <1>3, DeliverHands DEF Handed
  <2>4. CASE UNCHANGED <<ground, resolved>>
    BY <2>2, <2>4 DEF GroundIsReadings, NoStaleSentinel, Pending
  <2>5. CASE /\ resolved' = FALSE /\ ground' = Crossed(body[2])
             /\ body[2] \in Vectors(Kind.input)
    <3>1. body[2].floats \in [Family -> 0 .. MaxFrames] BY <2>5 DEF Vectors, Kind
    <3>2. /\ {"floats", "x_left", "x_right"} \subseteq DOMAIN ground'
          /\ ground'.floats = body[2].floats /\ ground'.x_left \in {"null", "present"}
      BY <2>5 DEF Crossed, View
    <3>3. GroundIsReadings' BY <3>1, <3>2 DEF GroundIsReadings
    <3>4. NoStaleSentinel' BY <2>2, <2>5, <3>2 DEF NoStaleSentinel, Pending
    <3> QED BY <2>2, <3>3, <3>4
  <2> QED BY <2>3, <2>4, <2>5
<1>4. CASE Camera
  <2>1. UNCHANGED <<mavVars, wire, body, ends>> BY <1>4 DEF Camera
  <2>2. /\ ReadingsOfTheFrame' /\ CompleteIsOfOneFrame' /\ WireCarriesBody'
        /\ GroundIsReadings' /\ UNCHANGED <<views, ground, resolved>>
    BY <2>1 DEF mavVars, ends, ReadingsOfTheFrame, CompleteIsOfOneFrame, WireCarriesBody,
       GroundIsReadings
  <2>3. painted'.left = painted'.right
    BY <1>4 DEF Camera, NextFrame, CameraClose
  <2> QED BY <2>2, <2>3 DEF NoStaleSentinel, Pending
<1>5. CASE Attach
  <2>1. /\ ReadingsOfTheFrame' /\ CompleteIsOfOneFrame' /\ WireCarriesBody'
        /\ UNCHANGED <<views, painted>>
    BY <1>5 DEF Attach, mavVars, cameraVars, ReadingsOfTheFrame, CompleteIsOfOneFrame,
       WireCarriesBody
  <2>2. PICK left \in {"null", "left"}, right \in {"null", "right"} :
          ground' = Attached(ground, left, right)
    BY <1>5 DEF Attach
  <2>3. /\ {"floats", "x_left", "x_right"} \subseteq DOMAIN ground'
        /\ ground'.floats = ground.floats
        /\ ground'.x_left = left /\ ground'.x_right = right
    BY <2>2 DEF Attached, GroundIsReadings
  <2>4. GroundIsReadings' BY <2>3 DEF GroundIsReadings
  <2>5. NoStaleSentinel' BY <2>1, <2>3 DEF NoStaleSentinel, Pending
  <2> QED BY <2>1, <2>4, <2>5
<1>6. CASE UNCHANGED pathVars
  BY <1>6 DEF pathVars, ends, mavVars, cameraVars, ReadingsOfTheFrame, GroundIsReadings,
     WireCarriesBody, CompleteIsOfOneFrame, NoStaleSentinel, Pending
<1> QED BY <1>1, <1>2, <1>3, <1>4, <1>5, <1>6 DEF PathNext

LEMMA PathInvariant == PathSpec => []PathInv
<1> QED BY PathInitInv, PathStep, PTL DEF PathSpec

-----------------------------------------------------------------------------

(* An input that is published as complete is of one frame, for any number  *)
(* of families and in whatever order they arrive.                          *)
THEOREM TelemetryCompleteIsOfOneFrame == PathSpec => []CompleteIsOfOneFrame
<1>1. PathInv => CompleteIsOfOneFrame BY DEF PathInv
<1> QED BY <1>1, PathInvariant, PTL

(* A reader never takes an attached frame for one it has.                  *)
THEOREM TelemetryNoStaleSentinel == PathSpec => []NoStaleSentinel
<1>1. PathInv => NoStaleSentinel BY DEF PathInv
<1> QED BY <1>1, PathInvariant, PTL

(* What an end decodes is the vector that was encoded, wherever the link   *)
(* cut the frame and however often it repeats it.                          *)
THEOREM TelemetryDecodedIsSent == PathSpec => DecodedIsSent
<1> DEFINE Exact ==
      /\ ground'.floats # ground.floats \/ (resolved /\ ~resolved') =>
           body # <<>> /\ body[1] = Kind.input /\ ground' = Crossed(body[2])
      /\ mirror' # mirror => body = <<Kind.state, mirror'>>
      /\ acted' # acted => body = <<Kind.act, acted'>>
<1>1. PathInv /\ [PathNext]_pathVars => [Exact]_pathVars
  <2> SUFFICES ASSUME PathInv, PathNext PROVE Exact OBVIOUS
  <2>1. CASE Deliver
    <3>1. Handed BY <2>1, DeliverHands DEF PathInv
    <3>2. body # <<>> BY <3>1 DEF Handed
    <3> QED BY <3>1, <3>2 DEF Handed
  <2>2. CASE Attach
    <3>1. ground'.floats = ground.floats
      BY <2>2 DEF Attach, Attached, PathInv, GroundIsReadings
    <3> QED BY <2>2, <3>1 DEF Attach
  <2>3. CASE Sense \/ PublishInput \/ PublishState \/ PublishAct \/ PublishOther \/ Camera
    <3>1. UNCHANGED ends
      BY <2>3 DEF Sense, PublishInput, PublishState, PublishAct, PublishOther, PutOnWire, Camera
    <3> QED BY <3>1 DEF ends
  <2> QED BY <2>1, <2>2, <2>3 DEF PathNext
<1> QED BY <1>1, PathInvariant, PTL DEF PathSpec, DecodedIsSent
=============================================================================
