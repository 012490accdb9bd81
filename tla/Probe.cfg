CONSTANTS
  Addr = {1, 2, 3}
  MaxAnswers = 3
  Answer <- MCAnswer
  RERESOLVE_AFTER_FAILURES = 2
SPECIFICATION Spec
INVARIANTS EveryAnswerGetsItsTurn CountdownIsARun NoOrphanProbing
PROPERTIES ImplementsTargetRotation SocketProbeKeepsReporting ReachesAWorkingAddress
