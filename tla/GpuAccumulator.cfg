CONSTANTS
  c1 = c1
  c2 = c2
  Shared = Shared
  Callers = {c1, c2}
  Workloads <- MCAccumulatorWorkloads
  Nodes <- MCNodes
  WorkgroupSize = 2
SPECIFICATION Spec
INVARIANT RepeatsRunTheirBody
CHECK_DEADLOCK FALSE
