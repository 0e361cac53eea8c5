CONSTANTS
  InitCommands <- MCInitCommands
  ConsoleInputs <- MCConsoleInputs
  Strengths <- MCStrengths
  OtherLine = OtherLine
  GuardTicks = 2
  SleepTicks = 4
  ModemGuard = 2
  QueueSize = 2
  MaxInputs = 1
  MaxLines = 2
SPECIFICATION FairSpec
CHECK_DEADLOCK FALSE
PROPERTY QueryReturns
