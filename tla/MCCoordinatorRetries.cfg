CONSTANTS
  Caller = {c1, c2, c3}
  t1 = t1
  t2 = t2
  d1 = d1
  d2 = d2
  s1 = s1
  Token = {t1}
  Deployment = {d1}
  Digest = {x, y}
  Service = {s1}
  None = None
  Capacity = 1
  QueueCapacity = 1
  MaxClock = 1
  MaxVersion = 3
  RequestEnd = {}
  ProcessEnd = {}
  ValidUntil <- OneToken
  ServiceOf <- OneService
  Granted <- EveryGrant
SYMMETRY Symmetry
SPECIFICATION Spec
INVARIANTS
  TypeOK
  RecordedActionIsTrue
  OneUpdatePerToken
  ResumeNeverSubmits
PROPERTY KeepsPromise
CHECK_DEADLOCK FALSE
