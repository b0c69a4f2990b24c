CONSTANTS
  W <- MCW
  Programs <- MCPrograms
  Hacks <- MCHacks

SPECIFICATION Spec

INVARIANTS
  TypeOK
  LargestSolution
  Reproduced

PROPERTIES
  RowsShrink
  Termination

CHECK_DEADLOCK FALSE
