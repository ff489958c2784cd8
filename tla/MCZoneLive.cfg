CONSTANTS
  NrZones = 10
  ZoneBlocks = 2
  CapBlocks = 2
  MaxOpen = 6
  MaxActive = 9
  NodeLimit = 1
  MaxIO = 4
  NrTypeCap = 4
  d1 = d1
  d2 = d2
  n1 = n1
  m1 = m1
  k1 = k1
  Page = {d1, n1, m1}
  TypeOf <- TypesDNM
  Boots <- CountedBoots
  None = None
SPECIFICATION FairSpec
INVARIANT SlotForEveryType
PROPERTY WriteCompletes
CHECK_DEADLOCK FALSE
