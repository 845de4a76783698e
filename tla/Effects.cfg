CHECK_DEADLOCK FALSE
SPECIFICATION Spec
CONSTANTS
  read_file = read_file
  query = query
  log = log
  NodeCount = 3
  Library <- MCLibrary
  Foreign <- MCForeign
  Boundary <- MCBoundary
  Mappable <- MCMappable
  Denied <- MCDenied
  MaxUses = 3
INVARIANTS
  InferenceIsExact
  OnlyImpureProgramsAreRejected
  EffectfulMapsAreSequential
PROPERTY CheckingEnds
