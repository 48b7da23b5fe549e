\* One message, told of twice, with a restart anywhere in between.
CONSTANTS
  m1 = m1
  m2 = m2
  t1 = t1
  t2 = t2
  Messages = {m1}
  Tasks = {t1, t2}
  Batches <- OneEach
  Capacity = 2
  ForwardEnabled = TRUE
  Faults = {"graph", "reply", "model", "journal", "records"}
  MaxNotices = 2
  MaxHandlings = 2
  MaxCrashes = 1
SPECIFICATION Spec
INVARIANTS OneTaskPerMessage NoSilentLoss DuplicatesHaveACause RecordBehindJournal
PROPERTIES NoForwardOnceLabelled
CHECK_DEADLOCK FALSE
