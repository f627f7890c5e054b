CONSTANTS
  Node = {1, 2}
  Mode <- OnePublisher
  Stoppable = {1, 2}
  MaxTicks <- Ticks2
  MaxAllTicks = 2
  MaxFaults = 1
  MaxExits = 1
  MaxSyncNow = 1
SPECIFICATION Spec
INVARIANTS TypeOK NoGaps
PROPERTIES GrowOnly SelfHealing StopEnds
CHECK_DEADLOCK FALSE
