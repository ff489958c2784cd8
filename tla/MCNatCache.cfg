SPECIFICATION Spec
CONSTANTS
  t1 = t1 t2 = t2 m1 = m1 m2 = m2 r1 = r1 r2 = r2
  None = none
  Tasks = {t1, t2}
  Nids = {m1, m2, r1, r2}
  MetaNids = {m1, m2}
  NatBlock <- Blocks
  OnDisk = {r1}
  InSuper = {m1}
  MaxWrites = 2
  MaxRestarts = 1
SYMMETRY Interchangeable
INVARIANTS TypeOK OneOwner EntryFound AllSaved
CHECK_DEADLOCK FALSE
