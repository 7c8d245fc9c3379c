SPECIFICATION Spec
CONSTANTS
  Threads = {t1, t2}
  Handles = {h1, h2, h3}
  Sizes = {s1, s2}
  NoThread = NoThread
  NoHandle = NoHandle
  NoSize = NoSize
INVARIANTS
  TypeOK
  SizesMatch
  EntriesAreLive
  NoOrphans
  MapExclusive
PROPERTY ImplementsAllocator
