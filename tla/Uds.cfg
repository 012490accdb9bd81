CONSTANTS
  Capacity = 5
  Backlog = 2
SPECIFICATION AcceptingSpec
INVARIANTS TypeOK CorruptsOnlyAStaleStream LosesOnePointAtATime
PROPERTIES SendReturns DeliversAgain
