CONSTANTS
  Argvs <- MCArgvs
  Space = "space"
  Line = "line"
  Quote = "quote"
  Slash = "slash"
SPECIFICATION Spec
INVARIANTS ArgumentsQuoted
CHECK_DEADLOCK FALSE
