SPECIFICATION RuntimeSpec
CONSTANTS
  a1 = a1
  solo = solo
  again = again
  whole = whole
  piece = piece
  draft = draft
  review = review
  judge = judge
  tests = tests
  None = None
  Host = Host
  r1 = r1
  r2 = r2
  Agent = {a1, Host}
  Work = {solo, whole, piece, draft, review, judge}
  CallId <- Keys
  Workflows <- StrictRun
  Declaration <- OneDeclaration
  Budgets <- OneBudget
  Tool = {tests}
  Answers <- RunAnswers
  Verdicts = {"pass"}
  PromptBound = 1
  MaxNew = 1
  Reports <- OneUsage
  Tokens = {0, 1}
  TokenCap = 10
  MaxCalls = 5
  MaxEpoch = 5
  Offers = {}
  Losses = {}
  MaxChildren = 1
  MaxDepth = 1
  MaxWorkItems = 3
  MaxCandidates = 1
  MaxOperations = 5
  Runner = {r1}
  Sweeps = None
  MaxRestarts = 0
  Defers = FALSE
  Briefs = {TRUE}
INVARIANTS
  HonestRunPasses
CHECK_DEADLOCK FALSE
