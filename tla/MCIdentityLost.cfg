CONSTANTS
  new = new
  newer = newer
  old = old
  x = x
  y = y
  ServiceSpec = {new, newer, old}
  ImageOf <- MCImageOf
  None = None
  Wanted = x
  MaxVersion = 3
  MaxFailed = 1
SPECIFICATION Spec
PROPERTIES
  IdentitySurvivesFailure
CHECK_DEADLOCK FALSE
