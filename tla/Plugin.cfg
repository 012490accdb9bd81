CONSTANTS
  Addr = {1, 2, 3, 4}
  MaxAnswers = 3
  Answer <- MCAnswer
  Setup = "all"
  MaxPort = 9999
  MaxTimeout = 4
  MaxPingCount = 3
  DefaultPort = 9999
  Numeral <- MCNumeral
  ConfigFiles <- MCConfigFiles
  Node <- MCNode
  DefaultTimeout = 2
  DefaultPingCount = 1
  ReadBudget = 3
  RotateAfter = 2
  ResolveTime = 2
  Unsupported = {4}
  Unencodable <- MCUnencodable
SPECIFICATION Spec
INVARIANTS TypeOK OverrunsOnlyByResolving EveryCollisionIsWarned ProbesWhatIsWritten
PROPERTIES InventsAtMostOneLoss TargetsRotateApart RotatesOnlyAfterARun WorkedPast
