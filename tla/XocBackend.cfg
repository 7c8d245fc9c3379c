SPECIFICATION Spec
CONSTANTS
  Threads = {t1, t2, t3}
  Contexts = {c1, c2, c3}
  Queues = {q1, q2}
  Null = Null
  MaxRefs = 3
  MayFail = {"dlopen", "symbols", "device", "context", "queue", "buffer"}
  InitPolicies = {TRUE, FALSE}
  ShutdownAlone = TRUE
  FreeAfterShutdown = FALSE
SYMMETRY Interchangeable
INVARIANTS
  TypeOK
  InitializedMeansReady
  CallsReachLibrary
  WritesMatchContext
  OnlyRefusedQueuesLeak
