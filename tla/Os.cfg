SPECIFICATION Spec
CONSTANTS
  a1 = a1  a2 = a2  a3 = a3  x = x  y = y  b1 = b1  b2 = b2
  zero = zero  junk = junk  NULL = NULL
  Addr <- Addrs
  Member <- Members
  Zero <- zero
  Junk <- junk
  MaxMembers = 3
  Room = 2
  CwdLen <- CwdLens
  RelLen <- RelLens
  PathMax = 2000
  FileLen <- FileLens
  Pattern <- Patterns
  Begins <- Starting
  Backtrace <- Backtraces
  MaxAfter = 2
  MaxAsked = 3
  Second = 3
  Timeout = 5
  BootedAt <- Boots
  Delays <- Slow
  Suspensions <- Suspended
  Steps <- Jumps
  MaxDelays = 3
  Byte = 10
  Buf <- Buffers
  Cap <- Caps
  Widths <- Bytes
  Val <- Values
  Char <- Chars
  MaxText = 5
  MAX_ARG = 3
  Sizes <- ToSize
  Zone <- Zones
  Hours <- Hour
INVARIANTS HeapInv InjectionSound GivesUpInTime ReadsBack HelpersRight
SYMMETRY Symmetry
CHECK_DEADLOCK FALSE
