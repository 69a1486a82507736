CONSTANTS
  Caller = {c1, c2}
  t1 = t1
  t2 = t2
  d1 = d1
  d2 = d2
  s1 = s1
  Token = {t1}
  Deployment = {d1}
  Digest = {x, y}
  Service = {s1}
  None = None
  Capacity = 1
  QueueCapacity = 1
  MaxClock = 0
  MaxVersion = 1
  RequestEnd = {"canceled"}
  ProcessEnd = {}
  ValidUntil <- OneToken
  ServiceOf <- OneService
  Granted <- EveryGrant
SPECIFICATION Spec
INVARIANT CancelledByCaller
CHECK_DEADLOCK FALSE
