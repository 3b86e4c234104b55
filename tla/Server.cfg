SPECIFICATION FairSpec
CONSTANTS
  Procs = {p1, p2}
  Handlers = {h1, h2}
  Nil = Nil
  MaxStarts = 2
  MaxFails = 1
  MaxKills = 1
CHECK_DEADLOCK FALSE
INVARIANTS
  TypeOK OneOwner ExitReports ExitAnswersAll NothingFromClosed
PROPERTIES
  FailureShutsDoor Stops
