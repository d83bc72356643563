SPECIFICATION FairSpec
CONSTANTS
  x = x
  y = y
  Endpoints = {x, y}
  Threshold = 2
  MaxBoots = 2
  MaxDeaths = 2
  MaxFaults = 0
CHECK_DEADLOCK FALSE
INVARIANT OnlyQuarantinedDegraded
