SPECIFICATION Spec
CONSTANTS
  Colls = {a}
  Nested = {a}
  Ids = {x}
  Nil = Nil
  MaxOps = 2
  MaxKills = 1
  MaxLosses = 1
  MaxFails = 0
INVARIANT AckedSurvives
