SPECIFICATION Spec
CONSTANTS
  Transports <- AllTransports
  Size <- Sizes
  Callback = TRUE
  Cap = 2
  MaxOpens = 1
  MaxCalls = 3
  MaxEvents = 2
  MaxLost = 1
INVARIANTS ResourceInv NoEventMissed BeliefSound IfnameSound
PROPERTIES CallsReturn
