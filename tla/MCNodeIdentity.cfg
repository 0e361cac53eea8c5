CONSTANTS
  DASH = DASH
  NoId = NoId
  NoStr = NoStr
  UptimeValues <- MCUptimes
  RandomValues <- MCRandoms
  PowerUpValues <- MCAnyMemory
SPECIFICATION Spec
INVARIANTS TypeOK RunningNodeHasId TornIdKeepsItsTime
PROPERTY ImplementsRegister
