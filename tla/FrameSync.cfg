CONSTANTS
  N = 2
  MaxSeq = 3
  MaxFrames = 3
  MaxPackets = 6

SPECIFICATION Spec
INVARIANTS
  FrameAccounting
  TakenOnce

\* A run ends with MaxFrames frames closed.
CHECK_DEADLOCK FALSE
