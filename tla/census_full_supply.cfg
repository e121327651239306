CONSTANTS
  a1 = a1
  a2 = a2
  a3 = a3
  h1 = h1
  h2 = h2
  c1 = c1
  c2 = c2
  supply = supply
  fresh = fresh
  Attempts = {a1, a2, a3}
  FreshId = fresh
  Holders <- MCHolders
  Balance <- MCBalance
  Scalars = {supply}
  StateRow = supply
  UniverseReads <- MCUniverseReads
  ConfigHashes = {c1}
  IntegrityMode = "full_supply"
  Allowance = 1
  UINT256_MAX = 10
  AnyConfigHash = TRUE
  MaxFaults = 2
SPECIFICATION FairSpec
INVARIANTS
  TypeOK
  AttemptLife
  EligibleIsSound
  PublicationFollowsVerified
  ConflictIsDust
PROPERTIES
  OnlyOwnFailureWithdraws
  GoodResultNotBlocked
  SkipsOnlyStored
  EventuallyVisible
