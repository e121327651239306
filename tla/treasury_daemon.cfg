CONSTANTS
  w1 = w1
  w2 = w2
  gno = gno
  spam = spam
  late = late
  dead = dead
  nft = nft
  Wallets = {w1, w2}
  Positions = {1, 2}
  Tokens = {gno, spam, late, dead, nft}
  Logs <- MCLogs
  Fungible = {gno, spam, late, dead}
  Disabled = {dead}
  ActiveOn <- MCActiveOn
  Broken = {spam}
  start_block = 1
  AnchorOf <- MCAnchors
  MaxDay = 2
  checkpoint_blocks = 2
  threshold = 2
  MaxFaults = 2
SPECIFICATION Spec
INVARIANTS
  SweepBacked
  GapFree
  FreshCensusWhole
PROPERTIES
  SweepCatchesUp
  SpamRetired
