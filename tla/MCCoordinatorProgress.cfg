CONSTANTS
  Caller = {c1, c2}
  t1 = t1
  t2 = t2
  d1 = d1
  d2 = d2
  s1 = s1
  Token = {t1, t2}
  Deployment = {d1}
  Digest = {x}
  Service = {s1}
  None = None
  Capacity = 2
  QueueCapacity = 1
  MaxClock = 0
  MaxVersion = 1
  RequestEnd = {"deadline"}
  ProcessEnd = {"canceled"}
  ValidUntil <- MCValidUntil
  ServiceOf <- OneService
  Granted <- EveryGrant
SPECIFICATION FairSpec
INVARIANTS
  ExactlyOneHolder
  NoLostWakeup
PROPERTIES
  FullOfLiveJobs
  OperationsComplete
  RequestsAnswered
  ShutdownDrains
  ImplementsReplayCache
CHECK_DEADLOCK FALSE
