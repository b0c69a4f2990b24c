CONSTANTS
  Words = 1000
  Layouts <- FourUses
  Cuts = {0, 1}
SPECIFICATION ScanSpec
INVARIANT LeftoverReported
CHECK_DEADLOCK FALSE
