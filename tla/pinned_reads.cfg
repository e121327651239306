CONSTANTS
  e1 = e1
  e2 = e2
  g1 = g1
  g2 = g2
  anchor = anchor
  sibling = sibling
  Endpoints <- MCEndpoints
  hash_policy <- MCPolicy
  provider_group <- MCGroups
  archive_from_block = 1
  NCalls = 3
  batch_size = 2
  max_parallel = 2
  max_retries = 2
  quorum = 2
  deployment_block = 2
  Numbers = {0, 1, 3}
  Blocks = {anchor, sibling}
  Anchor = anchor
  Sentinel <- MCSentinel
  Value <- MCValue
  Steady = {e1}
  Garbling = {e1, e2}
  Fragile = {1, 2}
  Failed = failed
  None = none
SPECIFICATION Spec
CHECK_DEADLOCK FALSE
INVARIANTS
  TypeOK
  AskedIsTrusted
PROPERTIES
  ImplementsPinnedRead
