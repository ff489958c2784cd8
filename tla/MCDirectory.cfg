SPECIFICATION Spec
CONSTANTS
  RootIno = root
  None = none
  Inos = {root, a, b, c}
  Names = {x, y}
  PageBytes = 2
  Room = 3
  OpenLimit = 2
  DirtyLimit = 2
SYMMETRY Interchangeable
INVARIANTS TypeOK LinksExact ListingExact
PROPERTY ImplementsNamespace
CHECK_DEADLOCK FALSE
