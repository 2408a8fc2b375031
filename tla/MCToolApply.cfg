SPECIFICATION ToolSpec
CONSTANTS
  Kinds = {"uv", "pipx"}
  MaxToolEdits = 1
  MaxBuild = 1
INVARIANTS RestoredAsItWas
