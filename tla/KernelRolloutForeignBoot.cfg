SPECIFICATION FairSpec
CONSTANTS
  a = a
  b = b
  e = e
  s = s
  Agents <- MCAgents
  EGpu = e
  Generic = a
  Server = s
  Rank <- MCRank
  Kernel <- MCKernel
  MaxGen = 1
  MaxRev = 1
  MaxRuns = 2
  MaxJobs = 1
  Silent = TRUE
PROPERTIES BootedAsRecorded PassRunsKernel RunEnds
CHECK_DEADLOCK FALSE
