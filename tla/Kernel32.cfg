CONSTANTS
  Names = {"a", "b"}
  Searches = {1, 2}
  MaxChanges = 2
  FileNames = {n1}
  Dispositions = {0, 1, 2, 3, 4, 5, 7}
  Accesses = {"both", "other"}
  MaxFiles = 2
  MaxFd = 4
  MaxLen = 2
  PathNames <- MCPathNames
  Dirs <- MCDirs
  MaxSize = 9
  MaxMoves = 2
SPECIFICATION SpecAll
INVARIANTS TypesOK Owned SameFile
PROPERTIES Listing CallsReturn AsOnWindows RetryFits
CHECK_DEADLOCK FALSE
