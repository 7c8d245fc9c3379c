SPECIFICATION Spec
CONSTANTS
  Plans <- MCPlans
  Garbage <- NoInput
INVARIANTS TypeOK RaceFree WithinBounds ResultsAreComplete Disciplined
PROPERTY CallsEnd
CHECK_DEADLOCK FALSE
