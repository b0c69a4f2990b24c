CONSTANTS
  Cwds <- MCCwds
  Headers <- MCHeaders
  PathMax <- MCPathMax
  Inputs <- MCInputs
  NoTarget = "none"
  Spaced <- MCSpaced
  Addresses = {1, 2}
  Dirs <- MCPaths
  Files <- MCPaths
  Sizes <- MCSizes
  JoinMax = 5
SPECIFICATION SpecAll
INVARIANTS TypesOK RelativePath OneRule Joined
CHECK_DEADLOCK FALSE
