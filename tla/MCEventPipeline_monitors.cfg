SPECIFICATION Spec
CONSTANTS
  c1 = c1  c2 = c2  p1 = p1  p2 = p2  d1 = d1  s1 = s1  s2 = s2
  Consumers = {c1, c2}
  Sources <- MonitorSources
  Packages = {p1}
  Unpinned = {}
  Malicious = {p1}
  Dirs = {d1, NoDir}
  NoDir = NoDir
  Procs = {s1, NoProc}
  NoProc = NoProc
  NoEvent = NoEvent
  Events <- MonitorEvents
  ProcWindow = 1
  CacheWindow = 2
  Heuristics = TRUE
  MaxArrivals = 3
  MaxTime = 2
INVARIANTS TypeOK OneEvaluationPerWindow OutageNotCached NoSilentMalicious
CHECK_DEADLOCK FALSE
