CONSTANTS
  Routes = {"home", "cafe"}
  Interval = 2
  Slice = 1
  Second = 2
  FrameTime = 3
  Lag = 1
  TTL = 2
  MaxAge = 4
SPECIFICATION Spec
INVARIANTS InterruptAnswered CursorGivenBack OneLookupPerStay HeadingIsHonest
PROPERTIES Responsive
CHECK_DEADLOCK FALSE
