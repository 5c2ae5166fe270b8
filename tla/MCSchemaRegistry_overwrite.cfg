SPECIFICATION Spec
CONSTANTS
  base = base
  other = other
  Schemas <- TwoSchemas
  Declared <- OtherDeclares2
  Breaks <- BaseBreaksOther
  Keys = {k1, k2}
  Registrations = {r1, r2}
  Workflows = {w1}
  Publications = {p1, p2}
  Deprecations = {}
  None = None
  NaN = NaN
  DocIds <- Versions
  NoDoc = NoDoc
  MaxFaults = 0
CHECK_DEADLOCK FALSE
PROPERTY NoSilentOverwrite
