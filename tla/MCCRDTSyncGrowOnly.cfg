CONSTANTS
  Node = {1, 2}
  Mode <- AllBoth
  Stoppable = {}
  MaxTicks <- Ticks2
  MaxAllTicks = 4
  MaxFaults = 0
  MaxExits = 0
  MaxSyncNow = 0
SPECIFICATION Spec
PROPERTY GrowOnly
