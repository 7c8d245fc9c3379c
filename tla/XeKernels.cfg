SPECIFICATION FairSpec
CONSTANTS
  Threads = {t1, t2}
  Assignments <- AnyEntry
  NoCall = NoCall
  MaxEpoch = 2
  MayFail = {"compile", "buffer", "write", "launch", "read"}
INVARIANTS
  TypeOK
  ComputedOrRefused
  QueuedBuffersExist
  NoTemporaryLeft
PROPERTY CallsReturn
