CONSTANTS
  TextLen <- MCTextLen
  PatchLists <- MCPatchLists
  Words = 1000
  Layouts <- MCLayouts
  Cuts = {0, 1}
SPECIFICATION SpecAll
INVARIANTS TypeOK Preserved OnlyOrderedAssembles Complete Sound
CHECK_DEADLOCK FALSE
