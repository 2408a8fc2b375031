SPECIFICATION MCSpec
CONSTANTS
  Reports = {r1, r2, r3}
  Local = {r3}
  Unbuildable = {}
  Corrupt = {}
  Rejected = {r1}
  Cap = 2
  MaxStalls = 1
  Daemon = Daemon
  Other = Other
  NoOne = NoOne
  MaxRestarts = 1
INVARIANTS QueueKeepsItsReports
PROPERTIES QueuedIsDelivered
CHECK_DEADLOCK FALSE
