CONSTANTS
  DEF_ADDRS_PER_INODE = 2
  DEF_ADDRS_PER_BLOCK = 2
  DEF_NIDS_PER_BLOCK = 2
  MaxFile = 9
  MaxDirty = 1
  MaxWrites = 2
SPECIFICATION Spec
INVARIANTS TypeOK NoForeignBlock ReachableValid KeptBlocksValid NothingComesBack
PROPERTY SmallFileFreed
CHECK_DEADLOCK FALSE
