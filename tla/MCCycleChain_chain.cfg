SPECIFICATION Spec
CONSTANTS
  Roots = {r1}
  n1 = n1
  n2 = n2
  piece = piece
  Names = {n1, n2}
  NoName = NoName
  Pieces = {piece}
  Slug <- Slugs
  Decompositions <- OneOrTwo
  TerminationDepth = 3
  Costs = {1}
  SpendLimit = 9
  None = None
  MaxSteps = 1
  MaxRefs = 4
  MaxFaults = 0
INVARIANTS TypeOK StoredBeforeEmitted WithinDepth RunIdsUnique TrackerIsFamilySpend
PROPERTIES StopsAtLimit
CHECK_DEADLOCK FALSE
