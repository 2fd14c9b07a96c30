\* A failed commit write is taken for a commit.
SPECIFICATION RestoreSpec
CONSTANTS
  tasks = tasks
  memory = memory
  wal = wal
  v1 = v1
  v2 = v2
  v3 = v3
  none = none
  Absent = none
  Contents = {v1, v2}
  Names <- MCNames
  Generations <- MCGenerations
  Snapshots <- MCSnapshots
  Foreign = {}
  IOFailures = TRUE
INVARIANTS
  JournalSaysSo
