CONSTANTS
  c1 = c1
  c2 = c2
  Shared = Shared
  Callers = {c1, c2}
  Workloads <- MCWorkloads
  Nodes <- MCNodes
  WorkgroupSize = 2
SPECIFICATION Spec
INVARIANT GpuCallsKeepMeaning
PROPERTY GpuCallsSettle
CHECK_DEADLOCK FALSE
