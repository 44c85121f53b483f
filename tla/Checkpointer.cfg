\* Times in the proportion of the default ones; one failed save is tolerated.
SPECIFICATION FairSpec
CONSTANTS
  Delay = 2
  Nap = 1
  KeepTime = 10
  MaxSave = 1
  MaxFiles = 4
INVARIANTS BackupKept OldCheckpointsDeleted
PROPERTIES CheckpointsRegular
