CONSTANTS
  a1 = a1
  a2 = a2
  a3 = a3
  h1 = h1
  h2 = h2
  c1 = c1
  c2 = c2
  supply = supply
  fresh = fresh
  Attempts = {a1}
  FreshId = fresh
  Holders <- NoHolders
  Balance <- NoBalance
  Scalars = {supply, h1}
  StateRow = supply
  UniverseReads <- NoReads
  ConfigHashes = {c1}
  IntegrityMode = "cl_liquidity"
  Allowance = 0
  UINT256_MAX = 10
  AnyConfigHash = TRUE
  MaxFaults = 1
SPECIFICATION Spec
\* The model stops when the attempt ids run out.
CHECK_DEADLOCK FALSE
PROPERTIES
  GoodResultNotBlocked
