SPECIFICATION Spec
CONSTANTS
  Tenants = {t1, t2}
  Flows = {f}
  Nodes <- AllNodes
  Callers = {c1}
  Definitions <- Graphs
  NoCall = NoCall
  MaxVersions = 1
  MaxRuns = 1
PROPERTIES TerminalStaysTerminal
