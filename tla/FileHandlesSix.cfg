CONSTANTS
  FileNames = {n1}
  Dispositions = {6, 7}
  Accesses = {"read", "both", "other"}
  MaxFiles = 2
  MaxFd = 4
  MaxLen = 2
SPECIFICATION HandleSpec
PROPERTY UnsupportedDies
CHECK_DEADLOCK FALSE
