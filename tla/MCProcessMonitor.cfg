SPECIFICATION FairSpec
CONSTANTS
  Pids = {1, 2}
  Dirs = {d1, d2}
  NoDir = NoDir
  Commands = {"lock", "public", "private", "mixed", "misplaced", "broken", "faulty", "other"}
  Unreadable = {"create_time"}
  Reuse = TRUE
  MaxProcs = 2
  MaxCopies = 2
INVARIANTS ReportedOncePerTag
PROPERTIES ExitedIsReported ReuseIsHarmless
CHECK_DEADLOCK FALSE
