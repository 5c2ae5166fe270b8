SPECIFICATION Spec
CONSTANTS
  N = 3
  Executions = {e1, e2}
  Compensations = {c1, c2}
  None = None
  MaxFaults = 0
  MaxDeaths = 1
CHECK_DEADLOCK FALSE
INVARIANT CompensatedUndidAll

