SPECIFICATION Spec
CONSTANTS
  Workers = {w1, w2}
  Launches <- SmallLaunches
  UIntRange = 8
CHECK_DEADLOCK FALSE
INVARIANTS
  TypeOK
  FittingLaunchesAreComplete
  NoThreadTwice
PROPERTY FittingLaunchesReturn
