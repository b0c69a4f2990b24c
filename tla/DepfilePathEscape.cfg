CONSTANTS
  Cwds <- MCCwds
  Headers <- MCSpaces
  PathMax <- MCPathMax

SPECIFICATION Spec

INVARIANT EveryHeaderWritten

CHECK_DEADLOCK FALSE
