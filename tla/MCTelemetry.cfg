SPECIFICATION Spec
CONSTANTS
  Window = 1
  MaxU256 = 6
  Fills <- MCFills
  Heights = {1, 2, 3}
  Rates = {5000}
  MaxBlocks = 2
  MaxFills = 3
  MaxTime = 2
INVARIANTS
  TypeOK
  WindowsExact
  VelocityExact
  MergedUnlessBack
  HealthShowsPause
CHECK_DEADLOCK FALSE
