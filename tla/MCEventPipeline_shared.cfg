SPECIFICATION SharedSpec
CONSTANTS
  c1 = c1  c2 = c2  p1 = p1  p2 = p2  d1 = d1  s1 = s1  s2 = s2
  Consumers = {c1, c2}
  Sources <- SharedSources
  Packages = {p1}
  Unpinned = {}
  Malicious = {p1}
  Dirs = {d1, NoDir}
  NoDir = NoDir
  Procs = {s1, s2, NoProc}
  NoProc = NoProc
  NoEvent = NoEvent
  Events <- SharedEvents
  ProcWindow = 1
  CacheWindow = 1
  Heuristics = FALSE
  MaxArrivals = 4
  MaxTime = 1
INVARIANTS ClaimsExclusive
PROPERTIES DropsOnlyEvaluated LedgerSpec EveryObservationSettled
CHECK_DEADLOCK FALSE
