SPECIFICATION Spec
CONSTANTS
  d1 = d1  d2 = d2  None = None
  Dev <- OneDev
  Restarting <- NoDev
  Long <- NoDev
  Pid <- OnePid
  Room = 9
  MaxOpens = 2
  MaxExits = 1
INVARIANTS PointerIsSuccess
