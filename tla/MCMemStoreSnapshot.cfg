CONSTANTS
  Node = {1, 2}
  k1 = k1
  k2 = k2
  e1 = e1
  Key = {k1, k2}
  Element = {e1}
  Stamp <- SomeStamps
  OpSize = 2
  EntrySize = 1
  CapBytes = 7
  MaxOps = 3
SPECIFICATION Spec
INVARIANT SnapshotIsCopy
