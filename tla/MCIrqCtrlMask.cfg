CONSTANTS
  IRQs <- MCTwoIRQs
  Prios <- MCPrios
  PHONY_HARD_IRQ = 65535
SPECIFICATION Spec
PROPERTY OnlyEnabledVectored
