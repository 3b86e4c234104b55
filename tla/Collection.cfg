SPECIFICATION Spec
CONSTANTS
  Clients = {p, q}
  Ids = {1, 2}
  MaxRecs = 3
  Nil = Nil
SYMMETRY Symmetry
INVARIANTS
  TypeOK ClearedAlone AckCoversReads
PROPERTY Linearizable
