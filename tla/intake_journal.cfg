\* The line about the reading cannot be written.
CONSTANTS
  m1 = m1
  m2 = m2
  t1 = t1
  t2 = t2
  Messages = {m1}
  Tasks = {t1, t2}
  Batches <- OneEach
  Capacity = 2
  ForwardEnabled = TRUE
  Faults = {"journal"}
  MaxNotices = 1
  MaxHandlings = 1
  MaxCrashes = 0
SPECIFICATION Spec
PROPERTIES ReadingNeverBlocks
CHECK_DEADLOCK FALSE
