SPECIFICATION Spec
CONSTANTS
  a1 = a1
  a2 = a2
  draft = draft
  review = review
  None = None
  Agent = {a1, a2}
  Work = {draft, review}
  CallId = {c1, c2, c3}
  Declaration <- Chain
  Tokens = {1}
  TokenCap = 6
  MaxCalls = 3
  MaxEpoch = 3
SYMMETRY CallSymmetry
INVARIANTS
  TypeOK
  ReservationsBacked
  UnknownBlocksRetry
  NewestLeaseFenced
  DoneMeansPublished
PROPERTY
  EffectsAtMostOnce
CHECK_DEADLOCK FALSE
