CONSTANTS
  Topic = {t1, t2}
  QueueSize = 3
  MaxSubs = 2
  Period = {0, 2}
  CounterMod = 4
  CallbacksPublish = TRUE
  MaxSent = 4

SPECIFICATION Spec
INVARIANT
  NothingLostSilently
