CONSTANTS
  One = 8192
  Rate = {1, 3, 8, 10, 40, 100}
  MaxSamples = 60
  UintMax = 400
  Link <- MCLink
  Budget = {0, 50, 100}
  Payload = {0, 1, 3}
  Vessels = {1, 3}
  Others <- MCOthers

SPECIFICATION BandwidthSpec
INVARIANTS
  RateKept
  EvenSpacing
  LargestFleet
  FleetKeepsItsBudget

\* A run ends after MaxSamples samples.
CHECK_DEADLOCK FALSE
