SPECIFICATION Spec
CONSTANTS
  Ids = {i1, i2}
  Contexts = {c1, c2, c3}
  Queues = {q1, q2}
  Handles = {h1, h2}
  None = None
  MaxCopies = 2
  MaxCareless = 1
SYMMETRY Interchangeable
INVARIANTS
  TypeOK
  DevicesKeepBuffers
  DevicesKeepQueues
  BuffersAreListed
  StaleKernelsAreRefused
