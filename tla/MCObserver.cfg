CONSTANTS
  new = new
  newer = newer
  old = old
  x = x
  y = y
  ServiceSpec = {new, newer, old}
  ImageOf <- MCImageOf
  None = None
  Wanted = x
  MaxVersion = 4
  MaxFailed = 1
SPECIFICATION FairSpec
INVARIANTS
  TypeOK
PROPERTIES
  FollowsOneRollout
  CompletedIsTrue
  ResumedVerdictIsOfSameRollout
  SupersededHasCause
  FailuresAreNotTheSuccessors
  EndIsNoticed
CHECK_DEADLOCK FALSE
