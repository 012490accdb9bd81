CONSTANTS
  Addr = {1, 2}
  MaxAnswers = 2
  Answer <- MCAnswer
  Setup = "one host"
  MaxPort = 9999
  MaxTimeout = 4
  MaxPingCount = 3
  DefaultPort = 9999
  Numeral <- MCNumeral
  ConfigFiles <- MCConfigFiles
  Node <- MCNode
  DefaultTimeout = 2
  DefaultPingCount = 1
  ReadBudget = 3
  RotateAfter = 2
  ResolveTime = 0
  Unsupported = {1}
  Unencodable <- MCUnencodable
SPECIFICATION Spec
PROPERTIES AnyAddressIsWorkedPast
