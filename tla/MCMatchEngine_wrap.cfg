SPECIFICATION PlacementSpec
CONSTANTS
  t1 = t1
  t2 = t2
  m1 = m1
  m2 = m2
  NoCaller = NoCaller
  Callers <- MCCallers
  Makers <- MCMakers
  OrderIds <- MCIds
  Companies = {1}
  Requests <- DeepRequests
  Ray = 1
  UintModulus = 4
  MaxArrivals = 3
PROPERTIES
  NotionalIsQuotient
