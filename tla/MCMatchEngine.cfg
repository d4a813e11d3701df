SPECIFICATION PlacementSpec
CONSTANTS
  t1 = t1
  t2 = t2
  m1 = m1
  m2 = m2
  NoCaller = NoCaller
  Callers <- MCCallers
  Makers <- MCMakers
  OrderIds <- MCIds
  Companies = {1}
  Requests <- DeepRequests
  Ray = 1
  UintModulus = 1000
  MaxArrivals = 3
INVARIANTS
  TypeOK
  Uncrossed
  FillsAddUp
PROPERTIES
  PriceTimePriority
  WithinLimits
  ImplementsMarket
  CallsReturn
