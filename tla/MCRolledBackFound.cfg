CONSTANTS
  new = new
  newer = newer
  old = old
  x = x
  y = y
  ServiceSpec = {new, newer, old}
  ImageOf <- MCImageOf
  None = None
  Wanted = x
  MaxVersion = 3
  MaxFailed = 1
SPECIFICATION FairSpec
PROPERTIES
  FoundImageIsNotRolledBack
CHECK_DEADLOCK FALSE
