SPECIFICATION FairPlatformSpec
CONSTANTS
  a1 = a1
  a2 = a2
  root = root
  part = part
  join = join
  None = None
  Agent = {a1, a2}
  Work = {root, part}
  CallId = {c1, c2}
  Declaration <- Root
  Tokens = {1}
  TokenCap = 6
  MaxCalls = 3
  MaxEpoch = 5
  Budgets <- RootBudget
  Offers <- OnePart
  Losses = {0, 1}
  MaxChildren = 2
  MaxDepth = 2
  MaxWorkItems = 3
  MaxCandidates = 1
  MaxOperations = 4
PROPERTIES
  Unstranded
  DrainsAtLimit
CHECK_DEADLOCK FALSE
