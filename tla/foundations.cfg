CONSTANTS
  MaxBlock = 6
  MaxRanges = 3
  MIN_TICK <- MCMinTick
  MAX_TICK = 3
  WORD = 2
  min_active_liquidity = 1
  Spacings = {1, 2}
  RAY = 4
  UINT256_MAX = 6
  HolderRows <- MCHolderRows
  Ledgers = {"token", "alias"}
  SeedHolders = {"c"}
  Release <- MCRelease
  MaxFaults = 2
SPECIFICATION Spec
\* The inputs are bounded, so the drivers stop.
CHECK_DEADLOCK FALSE
INVARIANTS
  CoverageExact
  PartsExact
  ProfileExact
  BalancesExact
  SelectorsExact
  SchemaIsRelease
