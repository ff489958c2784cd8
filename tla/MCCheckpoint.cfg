CONSTANTS
  MetaIno = MetaIno
  RootIno = RootIno
  MetaNids = {a, b, c}
  RegNids = {r, s}
  SecondBlock = {s}
  None = None
  SuperRoom = 2
  MaxMods = 3
  MaxRestarts = 2
  MaxCrashes = 0
  MaxSessions = 1
  MaxMounts = 3
SPECIFICATION FairSpec
INVARIANTS TypeOK NatSaved
PROPERTIES ImplementsStore UnmountEnds
CHECK_DEADLOCK FALSE
