SPECIFICATION Spec
CONSTANTS
  Models = {m1, m2}
  Calls = {a1, a2}
  Finalizers = {f1}
  Completers = {c1, c2, c3}
  None = None
  MaxEvents = 3
  MaxCalls = 3
  MaxRestarts = 0
  Throwing = {}
CHECK_DEADLOCK FALSE
SYMMETRY Symmetry
PROPERTY StaysCancelled
