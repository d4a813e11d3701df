SPECIFICATION Spec
CONSTANTS
  Users = {u1, u2}
  Rates = {100, 200}
  MaxAmount = 1
  MaxFlows = 2
  MaxHead = 2
  Interval = 1
  Threshold = 0
INVARIANTS
  TypeOK
  SharesMirrored
  VerdictsTrue
  PausedBeforeTold
CHECK_DEADLOCK FALSE
