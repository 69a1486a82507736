CONSTANTS
  Token = {a, b}
  Second = 2
  SkewSeconds = 1
  Lifetime = {0, 4}
  None = None
  MaxHost = 16
  MaxStarts = 3
SYMMETRY Symmetry
SPECIFICATION Spec
INVARIANTS
  Inv
  AcceptedByOneProcess
  ReadyMeansReady
  AdviceHolds
CHECK_DEADLOCK FALSE
