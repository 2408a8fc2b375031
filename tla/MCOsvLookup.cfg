SPECIFICATION MCSpec
CONSTANTS
  good = good
  bad = bad
  byId = byId
  byAlias = byAlias
  Lookups = {k1, k2}
  Packages = {good, bad}
  Batches <- MCBatches
  Advisories = {byId, byAlias}
  Listed <- MCListed
  MalById = {byId}
  MalByAlias = {byAlias}
  NoList = NoList
  MaxRetries = 1
  Ttl = 1
  Longest = 1
INVARIANTS NothingMisattributed AdvisoriesAreHeard
SYMMETRY MCSymmetry
CHECK_DEADLOCK FALSE
