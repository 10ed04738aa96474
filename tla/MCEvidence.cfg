SPECIFICATION EvidenceSpec
CONSTANTS
  a1 = a1
  a2 = a2
  scan = scan
  rescan = rescan
  s1 = s1
  old = old
  new = new
  None = None
  Agent = {a1, a2}
  Work = {scan, rescan}
  CallId = {c1, c2}
  Declaration <- TwoScans
  Tokens = {1}
  TokenCap = 4
  MaxCalls = 2
  MaxEpoch = 5
  Fingerprint = {old, new}
  Sources <- OneSource
  Inspections <- ScanInspections
  MaxControl = 4
  MaxVersion = 3
SYMMETRY CallSymmetry
INVARIANTS
  ReservationsCurrent
  UnknownNotOffered
  OutdatedIsClosed
PROPERTIES
  PublishedWhileCurrent
CHECK_DEADLOCK FALSE
