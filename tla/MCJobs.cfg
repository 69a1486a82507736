CONSTANTS
  x = x
  y = y
  a = a
  Image = {x, y}
  Settings = {a}
  None = None
  Wanted = x
  MaxVersion = 4
SPECIFICATION Spec
INVARIANTS
  TypeOK
  JobUpdatedOnce
  AdoptedIsOurs
PROPERTIES
  NeverInterrupts
  SuccessIsReal
  FollowsOneExecution
CHECK_DEADLOCK FALSE
