SPECIFICATION FairSpec
CONSTANTS
  c1 = c1  c2 = c2  None = None
  Caller <- TwoCallers
  SelectSeconds = 2
  RetrySeconds = 1
  Faults = {"again", "intr", "failed"}
  MaxSent = 3
  MaxSignals = 1
INVARIANTS CallInv ReplyLag ResendExplained CallBound
PROPERTIES EveryCallReturns
