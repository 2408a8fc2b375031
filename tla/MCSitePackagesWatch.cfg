SPECIFICATION MCSpec
CONSTANTS
  venv = venv
  lib = lib
  Paths = {venv, lib}
  Configured = {lib}
  Pids = {1}
  Inodes = {1, 2}
  MaxProcs = 2
  MaxDirs = 2
  MaxFailures = 1
  MaxWatches = 2
INVARIANTS WatchesAreTrue
PROPERTIES HealthyIsSpared IdleIsReclaimed ConfiguredIsWatched
CHECK_DEADLOCK FALSE
