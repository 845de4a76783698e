CHECK_DEADLOCK FALSE
SPECIFICATION Spec
CONSTANTS
  read_file = read_file
  query = query
  log = log
  NodeCount = 2
  Library <- MCUnlistedLibrary
  Foreign <- MCUnlistedForeign
  Boundary <- MCUnlistedBoundary
  Mappable = {}
  Denied = {}
  MaxUses = 2
INVARIANT EffectsAreFollowed
