CHECK_DEADLOCK FALSE
SPECIFICATION Spec
CONSTANTS
  Calls <- MCCalls
  Root = "main"
  NoCall = "none"
  Kind <- MCKind
  Count <- MCCount
  Grain <- MCGrain
  Child <- MCChild
  ThreadIds = 4
  NoThread = NoThread
  MaxAvailable = 4
INVARIANTS TypeOK ClaimsDisjoint ReturnedCallsAreComplete ThreadBudget ThreadLocalsMatchNesting
PROPERTIES ImplementsForkJoin ProgramReturns
