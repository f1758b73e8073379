SPECIFICATION Spec
CONSTANTS
  p1 = p1  p2 = p2  a = a  b = b  h1 = h1  h2 = h2  h3 = h3
  None = None
  Proc <- TwoProcs
  Name <- TwoNames
  Shared <- ThreeObjects
  Limit = 1
  MaxAbandoned = 1
INVARIANTS IInv
SYMMETRY Symmetry
