SPECIFICATION Spec
CONSTANTS
  Window = 1
  MaxU256 = 5
  Fills <- MCFills
  Heights = {1, 2, 3}
  Rates = {0}
  MaxBlocks = 3
  MaxFills = 3
  MaxTime = 0
INVARIANTS BlocksMerged
CHECK_DEADLOCK FALSE
