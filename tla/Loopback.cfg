CONSTANTS
  Topic = {t1, t2}
  QueueSize = 3
  MaxSubs = 2
  Period = {0, 2}
  CounterMod = 4
  CallbacksPublish = FALSE
  MaxSent = 4

SPECIFICATION Spec
INVARIANTS
  NothingLostSilently
  ExactlyOnce
  OvertakesOnlyHeld
PROPERTIES
  EveryMessageLeaves
  ImplementsLink
