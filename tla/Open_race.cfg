SPECIFICATION Spec
CONSTANTS
  d1 = d1  d2 = d2  None = None
  Dev <- TwoDevs
  Restarting <- TwoDevs
  Long <- NoDev
  Pid <- OnePid
  Room = 9
  MaxOpens = 4
  MaxExits = 0
INVARIANTS RemovesOnlyLeftovers
