CONSTANTS
  FAST_TIMEOUT = 1
  SLOW_TIMEOUT = 3
  MAX_OUTPUT = 3
  CAPACITY = 2
  MaxOutput = 6
  MaxWait = 6
SPECIFICATION Spec
INVARIANTS HelperIsOver SourceIsRight
PROPERTIES TimelyUnlessHeld
CHECK_DEADLOCK FALSE
