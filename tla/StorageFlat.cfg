SPECIFICATION Spec
CONSTANTS
  Colls = {a}
  Nested = {}
  Ids = {x, y}
  Nil = Nil
  MaxOps = 3
  MaxKills = 1
  MaxLosses = 1
  MaxFails = 1
SYMMETRY Symmetry
INVARIANTS
  TypeOK AckedSurvives ReadsCurrent Parses
