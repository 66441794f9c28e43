SPECIFICATION Spec
CONSTANTS
  a = a
  b = b
  e = e
  s = s
  Agents <- MCAgents
  EGpu = e
  Generic = a
  Server = s
  Rank <- MCRank
  Kernel <- MCKernel
  MaxGen = 1
  MaxRev = 1
  MaxRuns = 1
  MaxJobs = 1
  Silent = FALSE
PROPERTY OwnFreshBoot
CHECK_DEADLOCK FALSE
