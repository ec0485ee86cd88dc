CONSTANTS
  Lengths = {0, 20, 28, 204, 212, 264}
  BlockLengths = {0, 7, 24, 67, 68, 79, 80, 104, 300}
  RecordLengths = {3, 60, 92, 100, 112, 132, 300}
  AddressLengths = {0, 1, 5, 8, 16, 20, 28, 255}
  Masks = {{}, {1}, {1, 2, 3}, {1, 2, 5, 6}, {2, 3, 4, 7, 8}}
SPECIFICATION WalkSpec
INVARIANTS InsideItsBlock InStep EverySocketComesOut
CHECK_DEADLOCK FALSE
