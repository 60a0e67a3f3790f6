CONSTANTS
  NoState = NoState
  NoActuation = NoActuation
  i1 = i1
  NoInput = NoInput
  m1 = m1
  m2 = m2
  N <- MCN
  Cap <- MCCap
  MaxWindow = 2
  Input <- MCInput
  Goal <- MCGoal
  State <- MCState
  Actuation <- MCActuation
  Ctx <- MCCtx
  Mission <- MCMission
  SeedState <- MCSeedState
  ZeroState <- MCZeroState
  DeltaE <- MCDeltaE
  Pi <- MCPi
  Context <- MCContext
  Plan <- MCPlan

SPECIFICATION Spec
INVARIANTS
  AllOrNothing
  WindowStaysHeld
PROPERTIES
  GoalHandedOver
  ImplementsFrame
