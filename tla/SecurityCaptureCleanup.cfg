SPECIFICATION Spec
CONSTANTS
  MaxSpool = 2
  MaxReceipts = 1
  MaxCaptures = 1
  MaxCrashes = 1
INVARIANT CleanupResumes
