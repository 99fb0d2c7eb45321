CONSTANTS
  p1 = p1  p2 = p2  g1 = g1  g2 = g2  g3 = g3  None = None
  Jobs = {j1}
  WriteJobs = {j1}
  Tasks = {}
  Gates = {g1, g2, g3}
  Reasons = {"review", "exhausted", "conflict"}
  Globs = {x1}
  MaxRetries = 1
  Procs = {p1, p2}
  Commands <- GateCommands
  CrashAt <- Nowhere
  GitFails = {"status", "commit"}
  Outliving = {}
  Apart = {}
  MaxRev = 5
SPECIFICATION Spec
SYMMETRY Symmetric
CHECK_DEADLOCK FALSE
PROPERTIES OnlyWorkerEnds
