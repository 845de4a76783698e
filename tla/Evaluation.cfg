CONSTANTS
  MaxBound = 4
  MaxCalls = 2
SPECIFICATION Spec
INVARIANTS
  NativesKeepMeaning
  AcceptedChainsCompile
  JavaScriptKeepsMeaning
CHECK_DEADLOCK FALSE
