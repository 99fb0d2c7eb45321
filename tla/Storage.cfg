CONSTANTS
  p1 = p1  p2 = p2  a1 = a1  a2 = a2  None = None  Torn = Torn
  Actors = {a1, a2}
  Views = {v1}
  Procs = {p1, p2}
  Killable <- OnceDurable
  MaxEvents = 3
SPECIFICATION Spec
SYMMETRY Symmetric
CHECK_DEADLOCK FALSE
INVARIANTS TypeOK ReturnedSurvives ViewsBackedByLog ViewsWholeAndKept
