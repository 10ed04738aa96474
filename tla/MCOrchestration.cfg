SPECIFICATION OrchestrationSpec
CONSTANTS
  a1 = a1
  solo = solo
  again = again
  whole = whole
  piece = piece
  draft = draft
  review = review
  judge = judge
  tests = tests
  None = None
  Host = Host
  Agent = {a1, Host}
  Work = {solo, again, whole, piece, draft, review, judge}
  CallId <- HostKeys
  Workflows <- Specifications
  Declaration <- OneDeclaration
  Budgets <- OneBudget
  Tool = {tests}
  Answers <- HostAnswers
  Verdicts = {"pass"}
  PromptBound = 1
  MaxNew = 1
  Reports <- RunUsages
  Tokens = {0, 1}
  TokenCap = 10
  MaxCalls = 4
  MaxEpoch = 2
  Offers = {}
  Losses = {}
  MaxChildren = 1
  MaxDepth = 1
  MaxWorkItems = 3
  MaxCandidates = 1
  MaxOperations = 3
INVARIANTS
  ReceiptConsumedOnce
  DecisionsBacked
  LimitsKept
  DelegationBounded
  DerivedFromReceipts
  BudgetTree
CHECK_DEADLOCK FALSE
