CONSTANTS
  Runs = {r1, r2, r3}
  INTERVAL = 2
  MaxTime = 2
  LastRelease = 2
  Overlap = 2
  CheckMishaps = {"crash", "store", "clock"}
SPECIFICATION CheckSpec
INVARIANT OncePerInterval
PROPERTIES FooterTellsTheNews SilenceIsCovered
SYMMETRY Symmetric
CHECK_DEADLOCK FALSE
