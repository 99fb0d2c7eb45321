CONSTANTS
  p1 = p1  g1 = g1  g2 = g2  None = None
  code = code  extra = extra  config = config  build = build
  inside = inside  added = added  guarded = guarded
  Jobs = {j1}
  WriteJobs = {j1}
  CodexJobs = {j1}
  Tasks = {}
  Gates = {g1}
  Reasons = {"review", "exhausted", "conflict"}
  Globs = {added}
  MaxRetries = 1
  Procs = {p1}
  Commands <- AdapterCommands
  CrashAt <- InsideRun
  GitFails = {"commit", "diff"}
  Outliving = {"killed"}
  LateEditors = {"repair", "verify"}
  Escapes = TRUE
  ReservedFails = TRUE
  Apart = {}
  MaxRev = 6
  Paths = {code, extra, config, build}
  Patterns = {inside, added, guarded}
  Matches <- GlobMatches
  Reserved = {guarded}
  Allowed = {inside}
  Denied = {}
  Ignored = {build}
SPECIFICATION AdapterSpec
CHECK_DEADLOCK FALSE
INVARIANTS AdapterTypeOK DeliveredInScope WorkCaptured DeliveredCaptured NeedsHumanHasGate
PROPERTIES ImplementsDispatch FirstCallEnds
