CONSTANTS
  Cwds <- MCCwds
  Headers <- MCPlain
  PathMax <- MCPathMax

SPECIFICATION Spec

INVARIANT ComponentsStripped

CHECK_DEADLOCK FALSE
