\* Two messages in one batch, told of twice, either of which may raise anywhere.
CONSTANTS
  m1 = m1
  m2 = m2
  t1 = t1
  t2 = t2
  Messages = {m1, m2}
  Tasks = {t1, t2}
  Batches <- Together
  Capacity = 2
  ForwardEnabled = TRUE
  Faults = {"graph", "model", "journal"}
  MaxNotices = 2
  MaxHandlings = 2
  MaxCrashes = 0
SPECIFICATION FairSpec
PROPERTIES EveryIdIsTakenUp
CHECK_DEADLOCK FALSE
