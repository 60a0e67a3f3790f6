CONSTANTS
  NoState = NoState
  State = {b1, b2, b3}
  Cap = 3
  MaxPushes = 7

SPECIFICATION Spec
INVARIANTS
  WindowIsThePast
PROPERTY ImplementsHistory

\* A run ends after MaxPushes pushes.
CHECK_DEADLOCK FALSE
