SPECIFICATION Spec
CONSTANTS
  singbox = singbox
  xray = xray
  timer = timer
  admin = admin
  Cores <- MCCores
  Runs <- MCRuns
  Timer = timer
  Lines <- MCLines
  MaxRelease = 2
  MaxTrouble = 1
  None = None
INVARIANTS
  InstallIsAtomic
