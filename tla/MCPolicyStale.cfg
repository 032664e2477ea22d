SPECIFICATION Spec
CONSTANTS
  Addr4 <- MCAddr4
  Addr6 <- MCAddr6
  Main <- MCMain
  None = None
  Histories <- InConflict
  Packets <- MCPackets
INVARIANTS
  OneFileDecides
