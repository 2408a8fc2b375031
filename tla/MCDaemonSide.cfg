SPECIFICATION MCSpec
CONSTANTS
  Projects = {"project", "beside"}
  Hour = 2
  Day = 3
  Week = 2
  DailyHour = 0
  WeeklyDay = 1
  WeeklyHour = 1
  MaxScanHistory = 1
  PluginStores = FALSE
  Longest = 1
  Outage = 2
  Horizon = 12
  Commands = 2
  Cuts = 1
  Fails = 1
  Pids = {1, 2, 3}
  Overlap = FALSE
  Spaces = 2
  Processes = {"p", "q"}
  Contributors = {"central"}
  Contributions <- SomeContributions
  MaxOpens = 3
  Roots = {"sdists", "uv"}
  Owners = {"A", "B"}
  PolledPaths = {"wheel", "egg"}
  Under <- PollUnder
  MatchedBy <- PollMatchedBy
  WatchedBy <- PollWatchedBy
  PolledBy <- PollPolledBy
  Inside <- PollInside
  MaxArtifacts = 2
  MaxHookFailures = 2
  Tasks = {"t", "u"}
  Concurrency = 2
  Groups <- ScoredGroups
  Corpora = {"A", "B"}
  Fallback = "A"
  Near <- NearLater
  CorpusTTL = 1
  RowTTL = 2
  FailureTTL = 1
  MaxTime = 2
  Languages = 2
  Keys = {"evil", "odd", "fine"}
  Malicious = {"evil", "odd"}
  Unregistered = {"odd"}
  BatchSize = 1
  Folders <- SmallFolders
  MaxListed = 2
  Tools = 2
  MaxCommands = 2
INVARIANTS OneDaemonAtATime PolledOnce ScoresAreCurrent OpenedIsCurrent ScanIsComplete RulesHold
PROPERTIES EveryDayIsOnRecord
CHECK_DEADLOCK FALSE
