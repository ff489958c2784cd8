SPECIFICATION Spec
CONSTANTS
  t1 = t1
  t2 = t2
  d1 = d1
  d2 = d2
  Tasks = {t1, t2}
  Pages = {0, 1, 2}
  Direct = 1
  Ino = ino
  Children = {d1, d2}
  Device = device
  None = none
  MaxWrites = 2
  MaxTruncates = 2
SYMMETRY Interchangeable
INVARIANTS TypeOK ReadsLastWrite NothingBehindEnd
CHECK_DEADLOCK FALSE
