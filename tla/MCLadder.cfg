CONSTANTS
  GatewayTimeout = 1
  Timeout = 4
  Lag = 1
  InterfaceLists <- Tables
  ServerSets <- Servers
  IPs = {"a", "b"}
SPECIFICATION LadderSpec
INVARIANTS HttpNotSqueezed VerdictIsJustified AnswerBeatsTimer
PROPERTIES Terminates KeepsPromise
CHECK_DEADLOCK FALSE
