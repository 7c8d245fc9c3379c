SPECIFICATION Spec
CONSTANTS
  Threads = {t1, t2}
  Assignments <- SgemmOnly
  NoCall = NoCall
  MaxEpoch = 2
  MayFail = {}
INVARIANT SuccessMeansComputed
