SPECIFICATION FairSpec
CONSTANTS
  h1 = h1
  c1 = c1
  dflt = dflt
  other = other
  bad = bad
  Handlers <- OneHandler
  Clis <- OneCli
  Good <- TwoGood
  Bad <- OneBad
  DefaultConfig = dflt
  Torn = Torn
  NoFile = NoFile
  None = None
INVARIANTS
  TypeOK
  SavedMeansStored
PROPERTIES
  OnlyCompleteReplacements
  ImplementsRegister
  EveryCallReturns
