CONSTANTS
  Contexts = {c1, c2}
  Durations <- MCDurations
  TickPeriods <- MCTickPeriods
  CounterPeriods <- MCCounterPeriods
  CounterTargets <- MCCounterTargets
  Silences <- MCSilences
  EndTimes <- MCEndTimes
  MaxTime = 6
  NEVER = 20
SPECIFICATION FairSpec
INVARIANTS TypeOK NextTimerIsEarliest TicksOnTime HoldIsExact
PROPERTIES ImplementsWaits WaitIsWoken
CHECK_DEADLOCK FALSE
