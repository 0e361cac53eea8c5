CONSTANTS
  IRQs <- MCIRQs
  Prios <- MCPrios
  PHONY_HARD_IRQ = 65535
  OFFLOAD_SW_IRQ = 1
  Routines <- MCRoutines
  NoRoutine = "none"
SPECIFICATION FairOffloadSpec
INVARIANTS TypeOK PendingIsRaised NoUrgentIrqWaits NoLostWakeUp NestedByPriority OffloadedOnce NoLostPreemption
PROPERTIES PendingWakesCpu LostOnlyWhenLocked
