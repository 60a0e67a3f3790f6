CONSTANTS
  NsPerS = 4
  TickNs = 3
  PeriodArg = {0, 2, 6}
  StartAt = {0, 3}
  MaxTime = 12
  Sim = {fluid}
  SimSlots = 2

SPECIFICATION DaemonSpec
INVARIANTS
  NeverAhead
  NoDrift
  FeasibleUnlessLate
  SimsInLockstep
  TickIsTheFrame
PROPERTY
  LateFrameCostsOneOverrun

\* The clock stops at MaxTime.
CHECK_DEADLOCK FALSE
