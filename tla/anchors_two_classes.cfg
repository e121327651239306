CONSTANTS
  p1 = p1
  p2 = p2
  Procs = {p1, p2}
  Views <- MCViews
  Height <- MCHeight
  Boundary = 6
  None = None
SPECIFICATION FairSpec
INVARIANTS
  SearchBracket
  AnchorIsDayEnd
PROPERTIES
  AnchorSettles
  SearchEnds
