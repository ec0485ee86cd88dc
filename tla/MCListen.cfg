CONSTANTS
  Slots = {1, 2, 3}
  Pids = {1, 2, 3}
  Inspectable = {1, 2}
  Helpers = {1}
  User = 501
  Sockets <- MCSockets
  Answers <- MCAnswers
  OptionSets <- MCOptionSets
  LIMIT = 2
  MaxChanges = 2
SPECIFICATION Spec
INVARIANTS RowsAreTrue FooterDescribesPage PublishHalvesAgree ClaimsAreFounded
CHECK_DEADLOCK FALSE
