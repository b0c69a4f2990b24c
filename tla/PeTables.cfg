CONSTANTS
  Executables <- MCExecutables
  Half = 1000
  OptSizes = 64
  OffsetAt = 15
  Signature = 4550
  Magic = 267
  Files <- MCFiles
  HighBit = 1000
  Hint = 1
  StringDir = 6
  Language = 9
  Resources <- MCResources
  PerBlock = 2
  Byte = 4
  Sizes = {0, 1, 2, 3, 5}
SPECIFICATION SpecAll
INVARIANTS TypesOK HeadersAsLoaded ExportsAsLoaded ImportsPaired StringsComplete IsTheString
CHECK_DEADLOCK FALSE
