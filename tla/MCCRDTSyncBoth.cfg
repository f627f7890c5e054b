CONSTANTS
  Node = {1, 2}
  Mode <- AllBoth
  Stoppable = {}
  MaxTicks <- Ticks2
  MaxAllTicks = 2
  MaxFaults = 1
  MaxExits = 1
  MaxSyncNow = 0
SPECIFICATION Spec
INVARIANTS Genuine SnapshotIsFloor
PROPERTIES OthersOnlyGrow RequestAnswered
