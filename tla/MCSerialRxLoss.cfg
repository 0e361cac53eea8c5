CONSTANTS
  a = a
  b = b
  EOL = EOL
  NUL = NUL
  EMPTY = EMPTY
  Chars <- MCOneChar
  PosRange = 4
  BufSize = 6
  QueueSize = 2
  MaxLineLen = 6
  MaxBytes = 9
SPECIFICATION Spec
CHECK_DEADLOCK FALSE
PROPERTY LostOnlyWhenFull
