SPECIFICATION FairSpec
CONSTANTS
  Writers = {w1, w2}
  MaxRecs = 3
  FlushRecs = 2
INVARIANTS
  TypeOK AckedDurable DurablePrefix NoLostWakeup NoStrandedWriter CleanClose
PROPERTIES
  FailStop KeepsPromise WriteReturns CloseReturns
