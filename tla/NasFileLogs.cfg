SPECIFICATION Spec
CONSTANTS
  Depth = 2
  BootTail = 1
  BatchSize = 1
  Headers <- MCHeaders
  Normal <- MCNormal
  Clocks = {1, 3}
  Styles = {"rename", "truncate"}
  MaxLines = 3
  MaxRotations = 2
  MaxCrashes = 1
INVARIANTS TypeOK StampsDistinct
PROPERTIES OutboxSpec SkipsAreCounted
