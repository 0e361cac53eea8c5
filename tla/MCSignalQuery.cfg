CONSTANTS
  InitCommands <- MCInitCommands
  ConsoleInputs <- MCConsoleInputs
  Strengths <- MCStrengths
  OtherLine = OtherLine
  GuardTicks = 2
  SleepTicks = 4
  ModemGuard = 2
  QueueSize = 2
  MaxInputs = 2
  MaxLines = 4
SPECIFICATION FairSpec
CHECK_DEADLOCK FALSE
INVARIANTS TypeOK QueryInCommandMode StrengthIsLatest
PROPERTY CommandEnds
