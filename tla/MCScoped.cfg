SPECIFICATION ScopedSpec
CONSTANTS
  a1 = a1
  a2 = a2
  root = root
  part = part
  join = join
  s1 = s1
  old = old
  new = new
  None = None
  Agent = {a1, a2}
  Work = {root, part, join}
  CallId = {c1, c2}
  Declaration <- OneScan
  Tokens = {1}
  TokenCap = 4
  MaxCalls = 2
  MaxEpoch = 6
  Budgets <- ScanBudget
  Offers <- Parts
  Losses = {0, 1}
  MaxChildren = 2
  MaxDepth = 1
  MaxWorkItems = 3
  MaxCandidates = 1
  MaxOperations = 5
  Fingerprint = {old, new}
  Sources <- OneSource
  Inspections <- OneInspection
  MaxControl = 4
  MaxVersion = 2
  MaxIndex = 2
SYMMETRY BothSymmetry
INVARIANTS
  HolderMayRead
  TreeClosedTogether
PROPERTIES
  DeciderMayRead
CHECK_DEADLOCK FALSE
