SPECIFICATION Spec
CONSTANTS
  Layers <- ThreeLayers
  QTypes <- FileTypes
  PromptLen = 2
  MaxNew = 3
  MaxRefused = 2
  Garbage = Garbage
CHECK_DEADLOCK FALSE
INVARIANTS
  TypeOK
  LossesStayInTheirPass
