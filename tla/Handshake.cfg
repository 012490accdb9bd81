CONSTANTS
  Rto = 2
  Timeout = 7
  MaxTime = 9
SPECIFICATION Spec
INVARIANTS CoversTheHandshake NoSchedulingNoise
PROPERTIES MeasureReturns
