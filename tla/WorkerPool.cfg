SPECIFICATION Spec
CONSTANTS
  mapper = mapper
  wide = wide
  narrow = narrow
  prewarm = prewarm
  teardown = teardown
  NoCall = NoCall
  Mappers <- MCMappers
  Calls <- MCCalls
  Prewarms <- MCPrewarms
  MapperOf <- MCMapperOf
  Demand <- MCDemand
  Teardowns <- MCTeardowns
  MaxPools = 2
  MaxWorkers = 2
INVARIANTS
  ResultsAreComplete
  ClosedPoolsStayEmpty
PROPERTY CallsSettle
CHECK_DEADLOCK FALSE
