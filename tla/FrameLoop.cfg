CONSTANTS
  N = 2
  World = {0, 1, 3}
  Poses = TRUE
  QueueSize = 4
  Period = {0, 1, 2, 3, 4, 5, 6, 7}
  CounterMod = 8
  MaxFrames = 7

SPECIFICATION Spec
INVARIANTS
  NeverStale
  MissingExplained
  DoublesAreHeld
  InputIsCurrent
  OneFrameOfReference

\* The loop ends after MaxFrames frames.
CHECK_DEADLOCK FALSE
