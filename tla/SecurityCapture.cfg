SPECIFICATION FairSpec
CONSTANTS
  MaxSpool = 2
  MaxReceipts = 1
  MaxCaptures = 3
  MaxCrashes = 1
INVARIANTS TypeOK SpoolBounded ManifestLast StatusHolds RequestUnserved
PROPERTIES KeptUntilAcknowledged LockReleased
