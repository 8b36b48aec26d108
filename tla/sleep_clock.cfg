SPECIFICATION Spec
CONSTANTS
  Period = 3
  Horizon = 10
INVARIANTS ClockNotAhead
CHECK_DEADLOCK FALSE
