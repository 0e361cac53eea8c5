CONSTANTS
  a = a
  b = b
  EOL = EOL
  NUL = NUL
  EMPTY = EMPTY
  Chars <- MCChars
  PosRange = 4
  BufSize = 6
  QueueSize = 2
  MaxLineLen = 9
  MaxBytes = 10
SPECIFICATION FairSpec
CHECK_DEADLOCK FALSE
INVARIANTS TypeOK BufferHoldsLine
PROPERTIES RefinesLineQueue ByteAlwaysTaken
