SPECIFICATION DaemonSpec
CONSTANTS
  m1 = m1
  m2 = m2
  Runner = Runner
  NoCaller = NoCaller
  Callers <- MCCallers
  Makers <- MCMakers
  OrderIds <- MCIds
  Companies = {1}
  Requests <- FourOrders
  Ray = 1
  UintModulus = 1000
  MaxArrivals = 4
  FillCapacity = 1
  BatchSize = 2
  MaxAttempts = 2
  FailureLimit = 2
INVARIANTS
  NoReplay
CHECK_DEADLOCK FALSE
