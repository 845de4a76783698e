SPECIFICATION Spec
CONSTANTS
  ChainCount = 4
  FormsOf <- MCFormsOf
  KindPatterns <- MCKindPatterns
  MaxOdd = 1
  MaxUnsafe = 1
INVARIANTS
  AcceptedBodiesCompile
  EveryChainIsEvaluated
  UnsafeChainsRunAlone
PROPERTIES
  ImplementsDataflow
