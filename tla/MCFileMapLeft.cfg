CONSTANTS
  DEF_ADDRS_PER_INODE = 2
  DEF_ADDRS_PER_BLOCK = 3
  DEF_NIDS_PER_BLOCK = 3
  MaxFile = 17
  MaxDirty = 1
  MaxWrites = 2
SPECIFICATION Spec
INVARIANT DeletedFileFreed
CHECK_DEADLOCK FALSE
