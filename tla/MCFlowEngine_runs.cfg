SPECIFICATION Spec
CONSTANTS
  Tenants = {t1, t2}
  Flows = {f}
  Nodes <- AllNodes
  Callers = {c1, c2}
  Definitions <- Graphs
  NoCall = NoCall
  MaxVersions = 2
  MaxRuns = 1
INVARIANTS TypeOK RunsOwnVersion PausedIsWaiting CompletedReachedEnd CancelledLeavesNothing
PROPERTIES OnlyOwnerMoves
