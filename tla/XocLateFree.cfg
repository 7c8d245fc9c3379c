SPECIFICATION Spec
CONSTANTS
  Threads = {t1}
  Contexts = {c1, c2, c3}
  Queues = {q1, q2}
  Null = Null
  MaxRefs = 3
  MayFail = {}
  InitPolicies = {TRUE}
  ShutdownAlone = TRUE
  FreeAfterShutdown = TRUE
INVARIANT CallsReachLibrary
