CONSTANTS
  j1 = j1  g1 = g1  g2 = g2  t1 = t1  p1 = p1  p2 = p2  None = None
  Jobs = {j1}
  Tasks = {}
  Gates = {}
  Reasons = {r1}
  Globs = {x1}
  MaxRetries = 1
  Procs = {p1, p2}
  Ops <- ClockOps
  Targets <- JobTargets
  ClockSteps <- Ties
  MaxEvents = 4
SPECIFICATION Spec
INVARIANTS IncrementalEqualsRebuilt
