SPECIFICATION Spec
CONSTANTS
  MaxItems = 6
  MaxMembers = 4
  maxNameLen = 8
  maxIDSize = 4
  maxRequestSize = 2
CHECK_DEADLOCK FALSE
INVARIANTS
  UnicodeExact TargetsExact OneReading NoProbe
