CONSTANTS
  w = w
  j = j
  web = web
  job = job
  s1 = s1
  s2 = s2
  r1 = r1
  Request = {r1}
  Input <- MCInput
  Setting <- MCSetting
  Configuration <- MCConfiguration
  None = None
SPECIFICATION ServerSpec
INVARIANTS
  NotBlamedForContext
  AuthorisedAsConfigured
  NothingOutlivesRun
PROPERTIES
  RunEnds
CHECK_DEADLOCK FALSE
