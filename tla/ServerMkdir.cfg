SPECIFICATION Spec
CONSTANTS
  Procs = {p1, p2}
  Handlers = {h1}
  Nil = Nil
  MaxStarts = 2
  MaxFails = 0
  MaxKills = 1
CHECK_DEADLOCK FALSE
INVARIANT AckedReachable
