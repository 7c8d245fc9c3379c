SPECIFICATION Spec
CONSTANTS
  Plans <- LongRow
  Garbage <- NoInput
INVARIANT ResultsAreComplete
CHECK_DEADLOCK FALSE
