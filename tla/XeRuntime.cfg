SPECIFICATION Spec
CONSTANTS
  Threads = {t1, t2}
  Buffers = {b1, b2}
  Programs = {p1}
  None = None
  MaxErrors = 1
  MayFail = {"read", "write", "launch", "build", "createKernel", "malloc"}
SYMMETRY Interchangeable
INVARIANTS
  TypeOK
  CopiedValueWasThere
  EventsFollowWork
  ErrorsReportedOnce
  ProgramsAccounted
