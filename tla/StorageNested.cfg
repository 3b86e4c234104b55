SPECIFICATION Spec
CONSTANTS
  Colls = {a, b}
  Nested = {b}
  Ids = {x}
  Nil = Nil
  MaxOps = 3
  MaxKills = 0
  MaxLosses = 2
  MaxFails = 0
INVARIANTS
  AckedSurvives
PROPERTY CloseLeavesFiles
