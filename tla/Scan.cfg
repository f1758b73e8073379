SPECIFICATION FairSpec
CONSTANTS
  c1 = c1  c2 = c2  s1 = s1  s2 = s2  None = None
  Caller <- TwoCallers
  Sta <- TwoStations
  MaxCalls = 2
  MaxChurn = 2
INVARIANTS ScanInv NoPhantom PingSound Complete NoRepeat
PROPERTIES RpcEnds
