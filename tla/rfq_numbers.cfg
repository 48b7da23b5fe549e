\* Either store: opens overlap, fail at any step and are refused, the process
\* dies twice, and the folder's count is lost twice.
CONSTANTS
  m1 = m1  m2 = m2  m3 = m3  o1 = o1  o2 = o2
  Messages = {m1, m2, m3}
  Opens = {o1, o2}
  Stores = {"folder", "database"}
  MaxNumber = 5
  MaxRecords = 3
  MaxCrashes = 2
  MaxLosses = 2
SPECIFICATION Spec
INVARIANTS OneNumberPerCount
CHECK_DEADLOCK FALSE
