CONSTANTS
  MaxBuilds = 2
  Pids = {p1, p2}
  INSECURE = {p2}
SPECIFICATION Spec
INVARIANTS WholeAndExecutable OnlyListedBuilds OnlyAKillLeavesAFile
PROPERTIES ReleaseIsInstallable
