SPECIFICATION Spec
CONSTANTS
  c1 = c1  c2 = c2  None = None
  Caller <- TwoCallers
  SelectSeconds = 10
  RetrySeconds = 5
  Faults = {}
  MaxSent = 4
  MaxSignals = 0
INVARIANTS ReplyMatches
