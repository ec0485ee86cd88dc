CONSTANTS
  Daemons = {"one", "two"}
  Environments <- MCEnvironments
  Layouts <- MCLayouts
  Replies <- MCReplies
  TIMEOUT = 2
  MAX_BODY = 4
  BUFFER = 2
SPECIFICATION Spec
INVARIANTS NeverPartial ConclusionIsRight
PROPERTY WaitIsBounded
CHECK_DEADLOCK FALSE
