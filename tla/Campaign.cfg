SPECIFICATION CampaignSpec
CONSTANTS
  Controllers = {boat}
  Worlds = 3
  Repeats = 2
  TickCost = 10
  MaxCpu = 1
  Benches <- MCBenches
  Loads <- MCLoads
  Deviations <- MCDeviations
  MaxCampaigns = 2
INVARIANTS
  DrawnInsideFrame
  TextAndChartsAgree
  StoppedInOrder
  VerdictsFromEveryWorld
PROPERTY
  MeasuredAtMostSpent
