SPECIFICATION LifecycleSpec
CONSTANTS
  Pids = {1, 2, 3}
  Overlap = TRUE
  Spaces = 2
INVARIANTS OneDaemon
CHECK_DEADLOCK FALSE
