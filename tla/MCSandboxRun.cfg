SPECIFICATION MCSpec
CONSTANTS
  Pkgs <- Versions
  Malicious = {"evil"}
  Risky = {"evil"}
  Young = {"young"}
  Path <- OwnPath
  Scanned = {"site"}
  SnapshotOnly = {}
  Backed = {"site"}
  Venvs = {}
  Envs = {"tool"}
  Locks <- SomeLocks
  Trees <- SomeTrees
  Disks <- SomeDisks
  Commands <- SomeCommands
  Interruptions = TRUE
INVARIANTS RefusedIsUndone NoMaliciousKept YoungIsAnswered BackupKeptUntilSafe
PROPERTIES NothingThroughLinks
