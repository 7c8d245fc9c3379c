SPECIFICATION Spec
CONSTANTS
  Layers <- ThreeLayers
  QTypes <- Q4KTypes
  PromptLen = 2
  MaxNew = 3
  MaxRefused = 0
  Garbage = Garbage
CHECK_DEADLOCK FALSE
INVARIANT LogitsAreComputed
