SPECIFICATION FairSpec
CONSTANTS
  N = 3
  Executions = {e1, e2}
  Compensations = {c1, c2}
  None = None
  MaxFaults = 1
  MaxDeaths = 1
CHECK_DEADLOCK FALSE
INVARIANTS RunOnceInOrder CompletedRanAll AnnouncedIsStored UndoLocks
PROPERTIES ImplementsPromise SagaSettles
