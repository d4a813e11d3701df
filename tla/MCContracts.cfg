SPECIFICATION Spec
CONSTANTS
  Users = {u1, u2}
  Rates = {5000, 10000}
  maxFeeBpsOfNotional = 5000
  MarketAmounts = {3}
  outflowBpsThreshold = 10000
  ONE = 2
  StakeAmounts = {3}
  TaskIds = {t1, t2}
  Bounties = {2}
  Funds = 6
  MaxTx = 7
SYMMETRY Perms
INVARIANTS
  TypeOK
  
  
  DividendsCovered
  StakeBooks
  RewardsCovered
PROPERTIES
  PaidToMachines
CHECK_DEADLOCK FALSE
