CONSTANTS
  j1 = j1  j2 = j2  g1 = g1  g2 = g2  p1 = p1  p2 = p2  None = None
  Jobs = {j1, j2}
  Tasks = {}
  Gates = {g1, g2}
  Reasons = {"conflict"}
  Globs = {}
  MaxRetries = 1
  Procs = {p1, p2}
  Integrators = {p1}
  Hooks = {p2}
  CrashAt <- Midway
SPECIFICATION Spec
SYMMETRY Symmetric
INVARIANTS TypeOK LeftoversNeverBlock HandoffTruthful DeliveredWereDone StopSound
PROPERTIES DeliversItsList ImplementsDelivery
