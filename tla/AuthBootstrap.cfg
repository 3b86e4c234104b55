SPECIFICATION Spec
CONSTANTS
  Users = {u1, u2}
  Tokens = {t1, t2, r1}
  InitTokens = {t1, t2}
  Names = {n1, n2}
  Nil = Nil
  MaxClock = 1
  MaxStops = 2
  MaxBack = 1
INVARIANTS
  TypeOK MarkerMeansAdmin ResumesBootstrap RecoverSuffices
PROPERTY ServesWithAdmin
