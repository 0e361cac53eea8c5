CONSTANTS
  NaN = NaN
  TEXT = TEXT
  EMPTY = EMPTY
  NONE = NONE
  END = END
  JUNK = JUNK
  Arguments <- MCArguments
  DriverTables <- MCDriverTables
  DriverNames <- MCDriverNames
  Undefined <- MCUndefined
  MaxArgs = 3
  ChunkSize = 2
  SlowDown = FALSE
  HostMonotonic = 100
  HostRealtime = 170
  NEVER = 99999999
SPECIFICATION Spec
CHECK_DEADLOCK FALSE
INVARIANTS TypeOK OptionsReachable ExitsAsAsked ConfiguredAsAsked
