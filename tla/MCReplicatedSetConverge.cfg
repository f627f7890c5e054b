CONSTANTS
  Node = {1, 2}
  e1 = e1
  e2 = e2
  Element = {e1}
  Writer <- SharedWriters
  Key = "set"
  MaxOps = 3
  MaxMsgs = 3
SPECIFICATION Spec
INVARIANTS StrongConvergence
