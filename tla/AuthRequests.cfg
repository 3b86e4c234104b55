SPECIFICATION Spec
CHECK_DEADLOCK FALSE
CONSTANTS
  Users = {root, clerk, guest}
  Tokens = {k1, k2, k3}
  Names = {n}
  Root = root
  RootToken = k1
  Clerk = clerk
  ClerkToken = k2
  Reqs = {q1, q2}
  Ops <- MCOps
  Nil = Nil
  MaxClock = 1
  MaxReqs = 4
  MaxStops = 1
  MaxBack = 0
SYMMETRY Symmetry
INVARIANTS
  TypeOK RevokedStaysOut DisabledStaysOut CredentialsAccepted
