CONSTANTS
  Argvs <- MCArgvs
  Space = "space"
  Line = "line"
  Quote = "quote"
  Slash = "slash"
  Units <- MCUnits
  MaxUnits = 3
  Calls <- MCCalls
  Names <- MCNames
  UserSets <- MCUserSets
  Asked <- MCAsked
  Homes <- MCHomes
  Statuses = {0, 1}
  Signals = {11}
  Ignored <- MCIgnored
SPECIFICATION SpecAll
INVARIANTS TypesOK ReadBack CommandRead SuccessIsReal RightTool AsSet
PROPERTIES MainEnds
CHECK_DEADLOCK FALSE
