SPECIFICATION Spec
CONSTANTS
  Revisions <- MCRevisions
  Usable <- MCUsable
  Absent = Absent
  Empty = Empty
  Torn = Torn
  MaxSyncs = 2
  MaxFaults = 2
INVARIANTS SnapshotWhole RestartNeverOlder
PROPERTIES KeepsWorking CatchesUp
