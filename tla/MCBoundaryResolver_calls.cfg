SPECIFICATION FairSpec
CONSTANTS
  Calls = {c1, c2, c3, c4}
  Kinds = {"factories", "taskTypes", "cfRules"}
  Wants <- SmallWants
  First <- StartAtOne
  MAX_RETRIES = 3
  Current = current
  DocIds <- TheDocument
  NoDoc = NoDoc
  None = None
  MaxFaults = 1
CHECK_DEADLOCK FALSE
INVARIANTS TypeOK NoIdentifierTwice ConflictMeansContention
PROPERTIES ImplementsAllocator EveryCallReturns
