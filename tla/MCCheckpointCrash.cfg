CONSTANTS
  MetaIno = MetaIno
  RootIno = RootIno
  MetaNids = {a, b, c}
  RegNids = {r}
  SecondBlock = {}
  None = None
  SuperRoom = 1
  MaxMods = 1
  MaxRestarts = 1
  MaxCrashes = 1
  MaxSessions = 2
  MaxMounts = 2
SPECIFICATION Spec
PROPERTIES ImplementsStore RootsRecovered
SYMMETRY Symmetry
CHECK_DEADLOCK FALSE
