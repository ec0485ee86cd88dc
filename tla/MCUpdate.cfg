CONSTANTS
  Updaters = {u1, u2}
  Newest = 2
  Layouts <- Every
  Mishaps = {"crash", "io", "network"}
SPECIFICATION Spec
INVARIANT LeftoversAreExplained
PROPERTIES SwapsOrLeaves NoDowngrade
SYMMETRY Symmetric
CHECK_DEADLOCK FALSE
