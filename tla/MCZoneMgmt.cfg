CONSTANTS
  NrZones = 8
  ZoneBlocks = 2
  CapBlocks = 2
  MaxOpen = 7
  MaxActive = 7
  NodeLimit = 1
  MaxIO = 4
  NrTypeCap = 4
  d1 = d1
  d2 = d2
  n1 = n1
  m1 = m1
  k1 = k1
  Page = {d1, d2, n1, m1}
  TypeOf <- TypesDDNM
  Boots <- AllBoots
  None = None
SPECIFICATION Spec
INVARIANTS TypeOK TablesExact ValidMapExact WpBehindDevice PlacedByType
PROPERTY AllocTarget
CHECK_DEADLOCK FALSE
