CONSTANTS
  Boot = 3
  Ratios <- MCRatios
  Corrections <- MCCorrections
  RtcOffsets <- MCRtcOffsets
  OffsetDeltas <- MCOffsetDeltas
  TickPeriods <- MCTickPeriods
  WORD = 1000
  MaxTime = 7
  MaxHost = 14
  MaxAdjustments = 3
SPECIFICATION Spec
INVARIANTS TypeOK PseudohostAhead
PROPERTY TicksPaced
CHECK_DEADLOCK FALSE
