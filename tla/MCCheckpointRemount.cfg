CONSTANTS
  MetaIno = MetaIno
  RootIno = RootIno
  MetaNids = {a, b, c}
  RegNids = {r}
  SecondBlock = {}
  None = None
  SuperRoom = 2
  MaxMods = 1
  MaxRestarts = 0
  MaxCrashes = 0
  MaxSessions = 2
  MaxMounts = 3
SPECIFICATION Spec
INVARIANT NatSaved
SYMMETRY Symmetry
CHECK_DEADLOCK FALSE
