CONSTANTS
  p1 = p1  p2 = p2  g1 = g1  g2 = g2  g3 = g3  None = None
  Jobs = {j1}
  WriteJobs = {j1}
  Tasks = {}
  Gates = {g1, g2}
  Reasons = {"review", "exhausted", "conflict"}
  Globs = {}
  MaxRetries = 1
  Procs = {p1, p2}
  Commands <- AllCommands
  CrashAt <- NotInRemove
  GitFails = {}
  Outliving = {}
  Apart <- RedispatchApart
  MaxRev = 8
SPECIFICATION Spec
SYMMETRY Symmetric
CHECK_DEADLOCK FALSE
INVARIANTS TypeOK SweptClean OneWorker
PROPERTIES CleanRerun
