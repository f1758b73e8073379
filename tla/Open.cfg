SPECIFICATION Spec
CONSTANTS
  d1 = d1  d2 = d2  None = None
  Dev <- TwoDevs
  Restarting <- OneDev
  Long <- TwoOnly
  Pid <- TwoPids
  Room = 3
  MaxOpens = 4
  MaxExits = 2
INVARIANTS GetInv RoutedToOwner RemovalNeedsRace MisreadsExplained
