SPECIFICATION MCSpec
CONSTANTS
  p1 = p1
  p2 = p2
  uv = uv
  pip = pip
  Paths = {p1, p2}
  Plugins = {uv, pip}
  PluginOf <- OneEach
  MaxArts = 3
  MaxRoots = 2
  MaxRefused = 2
  MaxRaised = 2
INVARIANTS NoneReplayed
PROPERTIES NewIsReported
CHECK_DEADLOCK FALSE
