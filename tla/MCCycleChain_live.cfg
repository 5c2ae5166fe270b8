SPECIFICATION FairSpec
CONSTANTS
  Roots = {r1}
  n1 = n1
  n2 = n2
  piece = piece
  Names = {n1, n2}
  NoName = NoName
  Pieces = {piece}
  Slug <- Slugs
  Decompositions <- OneNameless
  TerminationDepth = 2
  Costs = {1}
  SpendLimit = 5
  None = None
  MaxSteps = 2
  MaxRefs = 2
  MaxFaults = 1
INVARIANTS RefsAttended
PROPERTIES RefsResolve
CHECK_DEADLOCK FALSE
