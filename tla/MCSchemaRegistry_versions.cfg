SPECIFICATION Spec
CONSTANTS
  base = base
  other = other
  Schemas <- TwoSchemas
  Declared <- OtherDeclares2
  Breaks <- BaseBreaksOther
  Keys = {k1, k2}
  Registrations = {r1, r2}
  Workflows = {w1, w2}
  Publications = {p1, p2, p3}
  Deprecations = {d1}
  None = None
  NaN = NaN
  DocIds <- Versions
  NoDoc = NoDoc
  MaxFaults = 1
SYMMETRY Symmetry
CHECK_DEADLOCK FALSE
INVARIANTS OneActive BreakingWasApproved
