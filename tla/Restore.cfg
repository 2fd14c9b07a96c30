\* Any step may fail, in any number of sessions, between crashes and power losses;
\* and somebody else changes state files under an interrupted restore.
SPECIFICATION RestoreSpec
CONSTANTS
  tasks = tasks
  memory = memory
  wal = wal
  v1 = v1
  v2 = v2
  v3 = v3
  none = none
  Absent = none
  Contents = {v1, v2}
  Names <- MCNames
  Generations <- MCGenerations
  Snapshots <- MCSnapshots
  Foreign = {}
  IOFailures = TRUE
INVARIANTS
  JournalActionable
  RecoveryIsWhole
PROPERTIES
  JournalBeforeMutation
  OneGeneration
  SessionsEnd
  ForeignStays
