CONSTANTS
  Addr = {1, 2}
  MaxAnswers = 2
  Answer <- MCAnswer
  Setup = "one host"
  MaxPort = 9999
  MaxTimeout = 4
  MaxPingCount = 3
  DefaultPort = 9999
  Numeral <- MCNumeral
  ConfigFiles <- MCConfigFiles
  Node <- MCNode
  DefaultTimeout = 2
  DefaultPingCount = 1
  ReadBudget = 3
  RotateAfter = 5
  ResolveTime = 3
  Unsupported = {}
  Unencodable <- MCUnencodable
SPECIFICATION Spec
PROPERTIES TurnsOnlyOnFailures
