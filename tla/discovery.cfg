CONSTANTS
  p1 = p1
  p2 = p2
  x = x
  y = y
  z = z
  Procs = {p1, p2}
  Logs <- CrowdedLogs
  deployment_block = 1
  Anchors = {2, 3, 4}
  chunk_size = 3
  result_cap = 3
  ProviderCap = 3
  MaxFaults = 1
SPECIFICATION FairSpec
INVARIANTS
  CoverageBacked
  UniverseExact
  DiscoverySound
PROPERTIES
  EventuallyCovered
