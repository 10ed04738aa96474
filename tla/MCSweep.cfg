SPECIFICATION SweepSpec
CONSTANTS
  a1 = a1
  a2 = a2
  scan = scan
  None = None
  Agent = {a1, a2}
  Work = {scan}
  CallId <- Keys
  Declaration <- Scan
  Budgets <- ScanBudget
  Tokens = {0}
  TokenCap = 0
  MaxCalls = 3
  MaxEpoch = 5
  Offers = {}
  Losses = {0}
  MaxChildren = 1
  MaxDepth = 1
  MaxWorkItems = 1
  MaxCandidates = 1
  MaxOperations = 5
  AbstainLoss = 1
  Outcomes = {"no", "yes", "unknown"}
  Leaves <- Tree
SYMMETRY AgentSymmetry
INVARIANTS
  ReadOnce
  ProposedAtLeaf
  LeavesNothing
CHECK_DEADLOCK FALSE
