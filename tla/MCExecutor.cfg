SPECIFICATION Spec
CONSTANTS
  r1 = r1
  r2 = r2
  r3 = r3
  prio = prio
  table = table
  conf = conf
  p1 = p1
  p2 = p2
  Runs <- TwoRuns
  Plan <- TwoPlans
  DryRun <- Nobody
  Paths <- MCPaths
  Objects <- TwoObjects
  Values <- MCValues
  Table = table
  Rendered = conf
  Absent = Absent
  Torn = Torn
  None = None
CHECK_DEADLOCK FALSE
INVARIANTS
  TypeOK
  ReportIsFaithful
  UnprotectedOnlyInLoadGap
  NoTornPolicy
  SerialApplyIsExact
  SerialApplySucceeds
