SPECIFICATION Spec
CONSTANTS
  a = a
  b = b
  e = e
  s = s
  Agents <- MCAgents
  EGpu = e
  Generic = a
  Server = s
  Rank <- MCRank
  Kernel <- MCKernel
  MaxGen = 2
  MaxRev = 1
  MaxRuns = 3
  MaxJobs = 0
  Silent = FALSE
INVARIANTS TypeOK GateOrder
PROPERTIES PassIsFinal RollbackRestores
CHECK_DEADLOCK FALSE
