CONSTANTS
  N = 1
  MaxSubs = 64
  MaxPublished = 3
  MaxLives = 2
  MaxCrashes = 1
  BacklogSize = 2
  InboxSize = 1

SPECIFICATION MqttSpec
INVARIANTS
  NoOutageLoses
  RefusedOnlyAfterRestart
  DrainedIsNewest
PROPERTY EveryPacketArrives
