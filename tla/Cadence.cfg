CONSTANTS
  Addr = {1}
  Answer <- MCAnswer
  RERESOLVE_AFTER_FAILURES = 3
  SECOND = 3
  MIN_INTERVAL_MS = 1
  MAX_INTERVAL_MS = 6
  MAX_TIMEOUT_MS = 4
  DEFAULT_INTERVAL = 3
  DEFAULT_TIMEOUT = 4
  CommandLine <- MCCommandLine
  Late = 1
  MaxElapsed = 6
  Capacity = 2
  MaxFlight = 1
  HostNames <- MCHostNames
SPECIFICATION CadenceSpec
INVARIANTS CadenceTypeOK StretchesOneCycleInR AnnouncesItsRate EveryLineIsOnePoint
PROPERTIES NeverFloods OverrunsAreWarnedOf TelegrafRecovers OrphanExits
