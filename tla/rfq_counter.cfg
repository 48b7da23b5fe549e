\* The folder store: its count may be lost once.
CONSTANTS
  m1 = m1  m2 = m2  m3 = m3  o1 = o1  o2 = o2
  Messages = {m1, m2, m3}
  Opens = {o1, o2}
  Stores = {"folder"}
  MaxNumber = 3
  MaxRecords = 3
  MaxCrashes = 1
  MaxLosses = 1
SPECIFICATION Spec
INVARIANTS OneNumberOneRfq
CHECK_DEADLOCK FALSE
