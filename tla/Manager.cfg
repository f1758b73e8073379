SPECIFICATION FairSpec
CONSTANTS
  p1 = p1  p2 = p2  a = a  b = b  h1 = h1  h2 = h2  h3 = h3
  None = None
  Proc <- TwoProcs
  Name <- TwoNames
  Shared <- TwoObjects
  Limit = 0
  MaxAbandoned = 1
INVARIANTS RefsExact OneSocketPerDevice CacheExact NoStorePanic UInv
PROPERTIES LostOnlyInReconnect PoolSpec GetReturns
