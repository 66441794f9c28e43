SPECIFICATION Spec
CONSTANTS
  Depth = 2
  BootTail = 2
  BatchSize = 1
  Headers <- MCHeaders
  Normal <- MCNormal
  Clocks = {1}
  Styles = {"truncate"}
  MaxLines = 2
  MaxRotations = 1
  MaxCrashes = 0
PROPERTIES AtLeastOnce
