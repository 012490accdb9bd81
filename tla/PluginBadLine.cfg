CONSTANTS
  Addr = {1}
  MaxAnswers = 1
  Answer <- MCAnswer
  Setup = "bad line"
  MaxPort = 9999
  MaxTimeout = 4
  MaxPingCount = 3
  DefaultPort = 9999
  Numeral <- MCNumeral
  ConfigFiles <- MCConfigFiles
  Node <- MCNode
  DefaultTimeout = 2
  DefaultPingCount = 1
  ReadBudget = 3
  RotateAfter = 2
  ResolveTime = 0
  Unsupported = {}
  Unencodable <- MCUnencodable
SPECIFICATION Spec
INVARIANTS BadLinesAreOnlyWarnedOf
