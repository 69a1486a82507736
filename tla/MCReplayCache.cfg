CONSTANTS
  Caller = {c1, c2, c3, c4}
  t1 = t1
  t2 = t2
  t3 = t3
  Token = {t1, t2, t3}
  Deployment = {d1}
  Digest = {x, y}
  Result = {settled, retry}
  Retryable = {retry}
  None = None
  Capacity = 2
  MaxClock = 2
  ValidUntil <- MCValidUntil
SYMMETRY Symmetry
SPECIFICATION Spec
INVARIANTS
  Inv
  OneRequestPerToken
  OneOpenOperation
  ReuseIsReal
PROPERTIES
  KeptUntilExpiry
  FullOfLiveRecords
  KeepsBinding
CHECK_DEADLOCK FALSE
