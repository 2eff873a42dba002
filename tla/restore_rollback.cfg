SPECIFICATION BackupsSpec
CONSTANTS
  MaxBackups = 1
  MaxWorkers = 2
  MaxTasks = 2
  JobSlots = 2
  Retention = 1
  MaxEdits = 1
  MaxFaults = 1
  MaxJobs = 2
  Made = {"full"}
  Chosen = {{"config", "ssl"}}
  NoBackup = NoBackup
PROPERTY RestoreIsUndone
CHECK_DEADLOCK FALSE
