SPECIFICATION FairSpec
CONSTANTS
  Depth = 1
  BootTail = 1
  BatchSize = 1
  Headers <- MCHeaders
  Normal <- MCNormal
  Clocks = {1, 3}
  Styles = {"truncate"}
  MaxLines = 3
  MaxRotations = 1
  MaxCrashes = 1
INVARIANTS OneStampPerLine
PROPERTIES LineArrives
