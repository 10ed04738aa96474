SPECIFICATION DecisionsSpec
CONSTANTS
  a1 = a1
  a2 = a2
  inspect = inspect
  s1 = s1
  old = old
  new = new
  None = None
  Agent = {a1}
  Work = {inspect}
  CallId = {c1}
  Call1 = c1
  Item = inspect
  Reader = a1
  Source = s1
  Declaration <- OneItem
  Tokens = {0}
  TokenCap = 0
  MaxCalls = 1
  MaxEpoch = 5
  Fingerprint = {old, new}
  Sources <- OneSource
  Inspections <- OneInspection
  MaxControl = 3
  MaxVersion = 2
  Scale = 4
  Whole = 1024
  Horizon = 2
  Configs <- AllConfigs
  Priors = {1, 2, 3}
  Channels <- SomeChannels
  LossRecords <- LossSets
  Costs = {0, 1}
  Durations = {0, 1, 3, 6}
  Chances = 4
  Programs <- SomePrograms
  Draws = 4
  Workers <- AgentNames
  Prices = {1, 3}
  Tick = 2
VIEW Relevant
INVARIANTS
  InspectionReplays
  PlanOptimal
  TreeOptimal
  LeaseMinimal
  StoppingOptimal
  AllocationSound
CHECK_DEADLOCK FALSE
