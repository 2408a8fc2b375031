SPECIFICATION MCSpec
CONSTANTS
  Order <- WriteOrder
  Others = {"setup"}
  Fresh = {"manifest"}
  Versions = {"u", "v"}
  Undos = 1
  Deletes = 1
  Interrupts = 2
  Failures = 1
  ProjectStates = {"old", "new"}
  Items = {"direct", "deep"}
  Direct = {"direct"}
  Vulnerable <- CommandVulnerable
  Adapters <- CommandAdapters
  MaxProjectEdits = 1
  Kinds = {"uv", "pipx"}
  MaxToolEdits = 1
  MaxBuild = 2
  Capabilities = {"ssh-keys"}
  MaxCalls = 2
  Depth = 2
  FileContents = {"old", "new"}
  FileModes = {"plain", "exec"}
  Stamps = {"s", "t"}
  LinkTargets <- RestoreTargets
  Rights = {"rwx", "rx"}
INVARIANTS NothingIsLost ExitCodeIsTrue ToolIsUpdatedOrBack RestoreIsTrue NothingOutlivesTheCall
PROPERTIES PlansFix MountsConfine
CHECK_DEADLOCK FALSE
