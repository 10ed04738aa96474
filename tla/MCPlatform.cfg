SPECIFICATION PlatformSpec
CONSTANTS
  a1 = a1
  a2 = a2
  root = root
  part = part
  join = join
  None = None
  Agent = {a1, a2}
  Work = {root, part, join}
  CallId = {c1, c2}
  Declaration <- Root
  Tokens = {1}
  TokenCap = 6
  MaxCalls = 3
  MaxEpoch = 6
  Budgets <- RootBudget
  Offers <- Parts
  Losses = {0, 1}
  MaxChildren = 2
  MaxDepth = 2
  MaxWorkItems = 3
  MaxCandidates = 2
  MaxOperations = 6
SYMMETRY CallSymmetry
INVARIANTS
  BudgetTree
  HeldOverArtifacts
  GraphWellFounded
  DoneMeansDecided
  DoneIsSettled
CHECK_DEADLOCK FALSE
