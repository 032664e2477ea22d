SPECIFICATION Spec
CONSTANTS
  Browsers = {b1, b2}
  Handlers = {h1, h2}
  site = site
  list = list
  default = default
  own = own
  edited = edited
  Default = default
  Site = own
  Null = Null
  Torn = Torn
  NoFile = NoFile
  None = None
  Edits <- MCEdits
  Sparse <- Lists
  Documents <- MCDocuments
  Has <- MCHas
INVARIANTS
  TypeOK
  CarefulKeepsEdits
SYMMETRY
  Symmetry
